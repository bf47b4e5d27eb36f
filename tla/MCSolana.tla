------------------------------ MODULE MCSolana ------------------------------
(* One wallet of 315 that may take two loans of two instalments and one     *)
(* subscription, attested as a rich and seasoned wallet or not at all; the  *)
(* other wallet has little but a great many transactions.                   *)
EXTENDS SolanaKeeper, FiniteSets, TLC

Seasoned == [age |-> 1095, txs |-> 4000, accounts |-> 30, hundreds |-> 60]
Tireless == [age |-> 0, txs |-> 25 * 65536, accounts |-> 0, hundreds |-> 0]
OneWallet == {Seasoned}
TwoWallets == {Seasoned, Tireless}

(* Bounds of the instance.  The deployment is complete before the clock     *)
(* starts, and at any time at most one of these turns from the plain course *)
(* is open: those that close again leave their traces to the next.          *)
Deployed ==
    now > 0 => /\ merchant.registered /\ plan.created /\ flows.supplied > 0
               /\ loans # <<>> \/ sub.status # "none"
Turns ==
    <<sub.status # "none", plan.created /\ ~plan.active /\ sub.status = "none",
      loans # <<>> /\ ~merchant.active, Len(loans) > 1, loans # <<>> /\ acct.open /\ acct.delegated = 0,
      paidOrders # {}, acct.elsewhere > 0 \/ ~acct.open, profile.locked + profile.seized > 0,
      profile.underwritten, outages > 0, flows.swept > 0, loans # <<>> /\ flows.supplied = 0>>
OneTurn ==
    /\ Deployed
    /\ \A id \in LoanIds : loans[id].order = id
    /\ Cardinality({i \in DOMAIN Turns : Turns[i]}) <= 1
=============================================================================
