---------------------------- MODULE SolanaCluster ----------------------------
(***************************************************************************)
(* What the Polaris program stands on: the clock, and the one stablecoin   *)
(* account a wallet borrows and subscribes with, which loans and           *)
(* subscriptions pin.  The account is delegated to the program's own       *)
(* address for some amount; what the program pulls uses the delegation up, *)
(* what the owner sends does not.  The token program lets the owner close  *)
(* an account that is empty, and open it again.                            *)
(***************************************************************************)
EXTENDS Integers

CONSTANTS
    Wealth,                 \* what the wallet's accounts hold together
    Delegations,            \* what the owner may delegate; 0 revokes
    Transfers,              \* what the owner moves to or from other accounts
    MaxTime                 \* bound on the clock

ASSUME ClusterAssumption ==
    /\ Wealth \in Nat /\ MaxTime \in Nat
    /\ Delegations \subseteq Nat /\ Transfers \subseteq Nat \ {0}

VARIABLES
    now,                    \* Clock::get()?.unix_timestamp
    acct                    \* the token account, and the wallet's other money

clusterVars == <<now, acct>>

ClusterTypeOK ==
    /\ now \in 0..MaxTime
    /\ acct \in [open : BOOLEAN, amount : 0..Wealth, delegated : Nat, elsewhere : 0..Wealth]

ClusterInit ==
    /\ now = 0
    /\ acct = [open |-> TRUE, amount |-> Wealth, delegated |-> 0, elsewhere |-> 0]

Lower(a, b) == IF a <= b THEN a ELSE b
Less(a, b) == IF a > b THEN a - b ELSE 0

(* An instruction that names a closed account is refused before it runs.   *)
Loads == acct.open

Delegated(required) == required > 0 /\ acct.delegated >= required

(* A transfer the program signs as the account's delegate.                 *)
Pullable(amount) == Loads /\ amount <= acct.delegated /\ amount <= acct.amount
Pulled(amount) == [acct EXCEPT !.amount = @ - amount, !.delegated = @ - amount]

(* A transfer the owner signs.                                             *)
Payable(amount) == Loads /\ amount <= acct.amount
Sent(amount) == [acct EXCEPT !.amount = @ - amount]

\* A slip: a delegation that was taken back still counts.
IgnoringRevocation == acct.amount

Recoverable == Lower(acct.delegated, acct.amount)

Tick == now < MaxTime /\ now' = now + 1 /\ UNCHANGED acct

Approve(n) == Loads /\ acct' = [acct EXCEPT !.delegated = n]
MoveOut(n) == Payable(n) /\ acct' = [Sent(n) EXCEPT !.elsewhere = @ + n]
MoveIn(n) ==
    Loads /\ n <= acct.elsewhere
    /\ acct' = [acct EXCEPT !.amount = @ + n, !.elsewhere = @ - n]

(* Closing takes the delegation with it; the same address can be opened    *)
(* again, delegated to nobody.                                             *)
Close == Loads /\ acct.amount = 0 /\ acct' = [acct EXCEPT !.open = FALSE, !.delegated = 0]
Reopen == ~acct.open /\ acct' = [acct EXCEPT !.open = TRUE]

OwnerMoves ==
    /\ \/ \E n \in Delegations : Approve(n)
       \/ \E n \in Transfers : MoveOut(n) \/ MoveIn(n)
       \/ Close \/ Reopen
    /\ UNCHANGED now

=============================================================================
