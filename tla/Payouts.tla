------------------------------- MODULE Payouts -------------------------------
(***************************************************************************)
(* The keeper's two jobs that pay merchants (cli.ts, jobs.ts, polaris.ts): *)
(* charging the subscriptions that are due and settling what was           *)
(* collected, through KeeperHub, while subscribers, merchants, the owner,  *)
(* the collection job and the chain sync go on.  Either contract may be    *)
(* absent from a deployment, and its job then does nothing.  A tick is     *)
(* hours; a pass takes minutes.                                            *)
(***************************************************************************)
EXTENDS KeeperHub, Payments, Settlement

CONSTANT Deployments        \* the sets of optional contracts to consider

VARIABLES
    rails,          \* which of the two contracts this deployment has
    pc,             \* what the keeper is doing
    listed,         \* the active subscription this pass found, 0 if none
    payout,         \* the instalments of the payout under way
    toMark,         \* those still to be marked
    rested,         \* a new pass is due
    covers,         \* history: batch id -> the instalments it was sent for
    lostSight       \* history: instalments of a batch the keeper sent and
                    \* did not finish marking, or whose mark the sync dropped

keeperVars == <<pc, listed, payout, toMark, rested>>
historyVars == <<covers, lostSight>>
vars == <<rails, paymentVars, settlementVars, hubVars, keeperVars, historyVars>>

(* subscription-S-charge: the attempt is always the first.                 *)
SubscriptionKey(id) == <<"sub", id, {}>>
Charges == {SubscriptionKey(id) : id \in 1..MaxSubs}

ASSUME PayoutsAssumption ==
    /\ Keys = Charges \cup BatchIds
    /\ Deployments \subseteq SUBSET {"payments", "settlement"}

Init ==
    /\ rails \in Deployments
    /\ PaymentsInit /\ SettlementInit /\ HubInit
    /\ pc = "sleep" /\ listed = 0 /\ payout = {} /\ toMark = {} /\ rested = TRUE
    /\ covers = [id \in BatchIds |-> {}] /\ lostSight = {}

-----------------------------------------------------------------------------
(* Subscriptions.  The candidates are read from the chain; whether one is  *)
(* due is asked in the request that charges it.                            *)
ReadSubscriptions ==
    /\ pc = "sleep" /\ rested
    /\ listed' = IF "payments" \in rails /\ sub.status = "active" THEN subId ELSE 0
    /\ pc' = IF listed' = 0 THEN "settle" ELSE "charge"
    /\ rested' = FALSE
    /\ UNCHANGED <<rails, paymentVars, settlementVars, hubVars, payout, toMark, historyVars>>

(* The read fails, and with it the whole pass.                             *)
ReadFails ==
    /\ pc = "sleep" /\ rested /\ "payments" \in rails
    /\ Fault
    /\ rested' = FALSE
    /\ UNCHANGED <<rails, paymentVars, settlementVars, pc, listed, payout, toMark, historyVars>>

(* The listed subscription may have ended since, and another begun.        *)
StillDue == listed = subId /\ IsChargeDue

(* A known key is answered from its record.  What the answer is, and       *)
(* whether it arrives, makes no difference to what the job does next.      *)
ChargeSubscription ==
    LET key == SubscriptionKey(listed)
    IN  /\ pc = "charge"
        /\ \/ Known(key) /\ UNCHANGED <<paymentVars, hubVars>>
           \/ /\ CheckAndExecute(key, StillDue, ChargeGoes)
              /\ IF StillDue /\ ChargeGoes THEN ChargeDue ELSE UNCHANGED paymentVars
           \/ Fault /\ UNCHANGED paymentVars
        /\ pc' = "settle" /\ listed' = 0
        /\ UNCHANGED <<rails, settlementVars, payout, toMark, rested, historyVars>>

-----------------------------------------------------------------------------
(* Settlement.                                                             *)
PassEnds ==
    /\ pc' = "sleep" /\ payout' = {} /\ toMark' = {}
    /\ UNCHANGED <<rails, paymentVars, listed, rested, covers>>

LosesSight(of) == lostSight' = lostSight \cup of

FindPending ==
    /\ pc = "settle" /\ "settlement" \in rails /\ Pending # {}
    /\ payout' = Pending /\ pc' = "pay"
    /\ UNCHANGED <<rails, paymentVars, settlementVars, hubVars, listed, toMark, rested,
                   historyVars>>

NothingPending ==
    /\ pc = "settle" /\ ~("settlement" \in rails /\ Pending # {})
    /\ PassEnds
    /\ UNCHANGED <<settlementVars, hubVars, lostSight>>

(* The simulation says the batch was executed or the float is short.       *)
Refused ==
    /\ pc = "pay" /\ ~BatchGoes(BatchId(payout))
    /\ PassEnds
    /\ UNCHANGED <<settlementVars, hubVars, lostSight>>

Unreachable ==
    /\ pc = "pay" /\ Fault
    /\ PassEnds
    /\ UNCHANGED <<settlementVars, lostSight>>

Send ==
    /\ pc = "pay" /\ BatchGoes(BatchId(payout))
    /\ Submit(BatchId(payout))
    /\ covers' = [covers EXCEPT ![BatchId(payout)] = payout]
    /\ pc' = "wait"
    /\ UNCHANGED <<rails, paymentVars, settlementVars, listed, payout, toMark, rested, lostSight>>

AnsweredFailed ==
    /\ pc = "wait" /\ hub[BatchId(payout)].state = "failed"
    /\ PassEnds
    /\ UNCHANGED <<settlementVars, hubVars, lostSight>>

(* No answer in time, or no receipt to see the transfer in.                *)
NotSeenPaid ==
    /\ pc = "wait" /\ Fault
    /\ PassEnds /\ LosesSight(payout)
    /\ UNCHANGED settlementVars

SeenPaid ==
    /\ pc = "wait" /\ hub[BatchId(payout)].state = "completed"
    /\ pc' = "mark" /\ toMark' = payout
    /\ UNCHANGED <<rails, paymentVars, settlementVars, hubVars, listed, payout, rested,
                   historyVars>>

(* One instalment after the other, in the order they were read.            *)
Mark ==
    LET i == Min(toMark)
    IN  /\ pc = "mark"
        /\ MarkSettled(i)
        /\ toMark' = toMark \ {i}
        /\ IF toMark' = {} THEN pc' = "sleep" /\ payout' = {} ELSE UNCHANGED <<pc, payout>>
        /\ UNCHANGED <<rails, paymentVars, hubVars, listed, rested, historyVars>>

Crash ==
    /\ pc # "sleep" /\ Fault
    /\ pc' = "sleep" /\ listed' = 0 /\ payout' = {} /\ toMark' = {} /\ rested' = TRUE
    /\ LosesSight(CASE pc = "wait" -> payout [] pc = "mark" -> toMark [] OTHER -> {})
    /\ UNCHANGED <<rails, paymentVars, settlementVars, covers>>

-----------------------------------------------------------------------------
(* The hub runs the batch it accepted.                                     *)
Execute ==
    \E id \in BatchIds :
        /\ Finish(id, BatchGoes(id))
        /\ IF BatchGoes(id) THEN SettleBatch(id) ELSE UNCHANGED settlementVars
        /\ UNCHANGED <<rails, paymentVars, keeperVars, historyVars>>

(* Everybody else.  Anybody may call chargeDue.                            *)
OnPayments ==
    /\ "payments" \in rails /\ PaymentsNext
    /\ UNCHANGED <<rails, settlementVars, hubVars, keeperVars, historyVars>>

OnSettlement ==
    /\ "settlement" \in rails
    /\ \/ \E i \in Instalments : Collected(i) /\ UNCHANGED lostSight
       \/ Refloat /\ UNCHANGED lostSight
       \/ Resync /\ LosesSight(settledAt)
    /\ UNCHANGED <<rails, paymentVars, hubVars, keeperVars, covers>>

Tick ==
    /\ pc = "sleep" /\ Running = {}
    /\ Later /\ Age
    /\ rested' = TRUE
    /\ UNCHANGED <<rails, settlementVars, pc, listed, payout, toMark, historyVars>>

KeeperNext ==
    \/ ReadSubscriptions \/ ReadFails \/ ChargeSubscription
    \/ FindPending \/ NothingPending \/ Refused \/ Unreachable \/ Send
    \/ AnsweredFailed \/ NotSeenPaid \/ SeenPaid \/ Mark

Next == KeeperNext \/ Crash \/ Execute \/ OnPayments \/ OnSettlement \/ Tick

Fairness == WF_vars(KeeperNext) /\ WF_vars(Execute) /\ SF_vars(Tick)

FairSpec == Init /\ [][Next]_vars /\ Fairness

-----------------------------------------------------------------------------
(* What paying out must satisfy.                                           *)

(* An instalment is paid out in two batches only if the keeper lost sight  *)
(* of the first, by a missing answer or by stopping before it had marked   *)
(* it, or if a sync dropped its mark: never for a late collection, a       *)
(* refused payout, a refilled float or a lapsed record of the hub.         *)
PaidOutAgainOnlyIf ==
    \A i \in Instalments :
        Cardinality({id \in batchExecuted : i \in covers[id]}) > 1 => i \in lostSight

(* Nothing that is due waits for ever although the keeper runs: a payout   *)
(* that can be made is made (or the money for it goes away), and of a      *)
(* subscription that stays due, period after period is charged or skipped, *)
(* although its key never changes and the hub answers with yesterday's     *)
(* charge first.  (It may stay due: with periods of an hour, a backlog.)   *)
Payable == "settlement" \in rails /\ Pending # {} /\ BatchGoes(BatchId(Pending))

NothingDueWaits ==
    /\ Payable ~> ~Payable
    /\ <>[]IsChargeDue => []<><<ChargeDue>>_sub

=============================================================================
