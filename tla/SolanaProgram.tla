---------------------------- MODULE SolanaProgram ----------------------------
(***************************************************************************)
(* The Polaris program whole: one wallet that borrows and subscribes from  *)
(* one delegated account, one merchant, the authority, and anybody who     *)
(* sends the permissionless instructions.                                  *)
(***************************************************************************)
EXTENDS SolanaCredit, SolanaBilling

programVars == <<clusterVars, protocolVars, creditVars, billingVars>>

ProgramInit == ClusterInit /\ ProtocolInit /\ CreditInit /\ BillingInit

Program ==
    \/ (Tick \/ OwnerMoves) /\ UNCHANGED <<protocolVars, creditVars, billingVars>>
    \/ ProtocolNext /\ UNCHANGED <<clusterVars, creditVars, billingVars>>
    \/ CreditNext /\ UNCHANGED billingVars
    \/ BillingNext /\ UNCHANGED creditVars

-----------------------------------------------------------------------------
(* What the program must satisfy.                                          *)

Owing == [id \in LoanIds |-> IF loans[id].status = "active" THEN Remaining(loans[id]) ELSE 0]
Lost == [id \in LoanIds |-> IF loans[id].status = "liquidated" THEN Remaining(loans[id]) ELSE 0]
PaidOut == [id \in LoanIds |-> loans[id].principal]
Completed == [id \in LoanIds |-> loans[id].paid]
PaidIn == [id \in LoanIds |-> loans[id].repaid]

(* The profile's debt, which caps new credit and holds the collateral, is  *)
(* what the active loans still owe; the booked loss is what the liquidated *)
(* ones never brought in; and the vault holds what was put in and paid back*)
(* less what was lent and swept, none of it below zero.                    *)
Sound ==
    /\ ClusterTypeOK /\ ProtocolTypeOK /\ CreditTypeOK /\ BillingTypeOK
    /\ profile.debt = SumTo(Owing, Len(loans))
    /\ pool.badDebt = SumTo(Lost, Len(loans))
    /\ pool.cash + SumTo(PaidOut, Len(loans)) + flows.swept
          = flows.supplied + SumTo(PaidIn, Len(loans))

(* loan.rs: the permissionless path collects what the schedule says is due *)
(* today and no more.  Money reaches a loan ahead of the schedule only by  *)
(* the borrower's own payment or in a liquidation, in whatever order       *)
(* payments, late collections and repeated ones come.                      *)
DueByNow(l) ==
    LET k == CHOOSE n \in 0..l.count :
                 (n = l.count \/ now < DueAt(l, n)) /\ \A m \in 0..(n-1) : now >= DueAt(l, m)
    IN  Threshold(l, k)
CollectionFollowsSchedule ==
    [][\A id \in LoanIds :
          Collect(id) => loans'[id].repaid <= DueByNow(loans[id])]_programVars

(* One delegation backs every open plan at once.  Once it covers what the  *)
(* wallet owes, only the wallet's own signature or a renewal it subscribed *)
(* to can leave it short: no loan, collection or liquidation does.         *)
BackedUnlessRenewed ==
    [][/\ acct.delegated >= profile.debt
       /\ ~OwnerMoves
       /\ sub' = sub
       => acct'.delegated >= profile'.debt]_programVars

(* The score is the opening one moved by exactly the record it shows, and  *)
(* the record never shows more payments than instalments were completed,   *)
(* whatever amounts, repeats and attestations come in between (until what  *)
(* was lost could reach the bottom of the band, or what was earned its     *)
(* top, where points are dropped); the two top tiers take at least two     *)
(* payments, however well a wallet was attested.                           *)
ScoreIsTheRecord ==
    LET opening == IF profile.underwritten THEN UnderwriteFrom(profile.evidence) ELSE StartingScore
        earned  == OnTimeBonus * profile.onTime
        losses  == LatePenalty * profile.late + DefaultPenalty * profile.liquidations
    IN  /\ profile.seen /\ opening - losses >= MinScore /\ opening + earned <= MaxScore
              => profile.score = opening + earned - losses
        /\ profile.onTime + profile.late <= SumTo(Completed, Len(loans))
        /\ profile.score >= 740 => profile.onTime >= 2

(* A subscriber never pays for more periods than have begun, however late, *)
(* often and by whom the charges are sent.                                 *)
ChargesFollowPeriods ==
    sub.status # "none" => sub.charged <= (now - sub.started) \div plan.period + 1

(* The program keeps the promise of InstalmentCredit, as the X Layer       *)
(* engine does: its counter, its ladder and its two ways of paying never   *)
(* put a plan in default that money and time do not say is behind.         *)
PlanOf(l) ==
    [owed |-> l.owed, count |-> l.count,
     opened |-> l.started, every |-> l.interval, paid |-> l.repaid,
     state |-> IF l.status = "active" THEN "open"
               ELSE IF l.status = "repaid" THEN "settled" ELSE "defaulted"]
Plans == [id \in LoanIds |-> PlanOf(loans[id])]
Promise == INSTANCE InstalmentCredit
           WITH time <- now, plans <- Plans, Grace <- Grace, MaxCount <- MaxInstallments
KeepsInstalmentPromise == Promise!Spec

(* The test at state.rs:422-426 says of the largest inputs that, if any of *)
(* this wrapped, a maximal wallet would score as a minimal one.  So: a     *)
(* wallet with activity enough for the whole of the cap has the cap in its *)
(* opening score.                                                          *)
AmpleEvidenceIsCapped ==
    profile.underwritten /\ profile.evidence.txs >= 25 * 50 /\ profile.onTime = 0
    /\ profile.late = 0 /\ profile.liquidations = 0
        => profile.score >= UnderwritingFloor + 50

=============================================================================
