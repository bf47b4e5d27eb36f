--------------------------- MODULE PayoutsProofs ---------------------------
(***************************************************************************)
(* No instalment is paid out twice while the keeper keeps sight of it, for *)
(* every number of instalments and orders, every amount, every life of the *)
(* hub's records and every number of faults.                               *)
(*                                                                         *)
(* A batch counts from the moment the hub runs it, not only once the chain *)
(* has paid it.  The invariant says where the instalments of such a batch  *)
(* are: marked in the book, or in the hands of the pass that sent it.      *)
(***************************************************************************)
EXTENDS Payouts, FiniteSetTheorems, TLAPS

(* The batches that are paid or may still be.                              *)
Runs(id) == hub[id].state = "running"
Committed == batchExecuted \cup {id \in BatchIds : Runs(id)}

Shape ==
    /\ hub \in [Keys -> [state : {"none", "running", "completed", "failed", "skipped"},
                         age : Int]]
    /\ covers \in [BatchIds -> SUBSET Instalments]
    /\ batchExecuted \subseteq BatchIds
    /\ collected \subseteq Instalments
    /\ payout \subseteq Instalments
    /\ pc \in {"pay", "wait", "mark"} => payout # {}

(* The hub's record of a batch and the contract do not contradict.         *)
HubAgrees ==
    \A id \in BatchIds :
        /\ hub[id].state \in {"running", "failed"} => id \notin batchExecuted
        /\ hub[id].state = "completed" => id \in batchExecuted

(* What the keeper is about to send is not marked.                         *)
NothingMarkedIsSent == pc = "pay" => payout \cap settledAt = {}

InHand(i, id) ==
    /\ pc \in {"wait", "mark"} /\ id = BatchId(payout) /\ i \in payout
    /\ pc = "mark" => i \in toMark

Watched(i) ==
    /\ \A id \in Committed : i \in covers[id] => i \in settledAt \/ InHand(i, id)
    /\ \A id, other \in Committed : i \in covers[id] /\ i \in covers[other] => id = other

IInv ==
    /\ Shape /\ HubAgrees /\ NothingMarkedIsSent
    /\ \A i \in Instalments \ lostSight : Watched(i)

-----------------------------------------------------------------------------
(* The hub and the contract.                                               *)

LEMMA BatchKeys ==
    /\ BatchIds \subseteq Keys
    /\ \A n : \A id \in BatchIds : id # SubscriptionKey(n)
    /\ \A c \in SUBSET Instalments : c # {} => BatchId(c) \in BatchIds
<1>1. \A n : SubscriptionKey(n)[1] = "sub"
    BY DEF SubscriptionKey
<1>2. ASSUME NEW id \in BatchIds
      PROVE  id[1] = "batch"
    <2>1. PICK c \in SUBSET Instalments : id = BatchId(c)
        BY DEF BatchIds
    <2> QED BY <2>1 DEF BatchId
<1>3. BatchIds \subseteq Keys
    BY PayoutsAssumption
<1>4. \A c \in SUBSET Instalments : c # {} => BatchId(c) \in BatchIds
    BY DEF BatchIds
<1> QED
    BY <1>1, <1>2, <1>3, <1>4

LEMMA HubStays ==
    ASSUME HubAgrees, UNCHANGED <<hub, batchExecuted>>
    PROVE  HubAgrees' /\ Committed' = Committed
BY DEF HubAgrees, Committed, Runs

(* A request that does not concern a batch.                                *)
LEMMA ChargeLeavesBatches ==
    ASSUME Shape, HubAgrees, NEW n, NEW met, NEW went,
           CheckAndExecute(SubscriptionKey(n), met, went), UNCHANGED batchExecuted
    PROVE  /\ hub' \in [Keys -> [state : {"none", "running", "completed", "failed", "skipped"},
                                 age : Int]]
           /\ HubAgrees' /\ Committed' = Committed
<1> DEFINE R == [state : {"none", "running", "completed", "failed", "skipped"}, age : Int]
<1>1. PICK r \in R : hub' = [hub EXCEPT ![SubscriptionKey(n)] = r]
    <2> DEFINE s == IF ~met THEN "skipped" ELSE IF went THEN "completed" ELSE "failed"
    <2>1. hub' = [hub EXCEPT ![SubscriptionKey(n)] = [state |-> s, age |-> 0]]
        BY DEF CheckAndExecute, Written
    <2>2. s \in {"completed", "failed", "skipped"}
        OBVIOUS
    <2> HIDE DEF s
    <2>3. [state |-> s, age |-> 0] \in R
        BY <2>2
    <2> QED BY <2>1, <2>3
<1>2. hub' \in [Keys -> R]
    BY <1>1 DEF Shape
<1>3. \A id \in BatchIds : hub'[id] = hub[id]
    BY <1>1, BatchKeys DEF Shape
<1> QED
    BY <1>2, <1>3 DEF HubAgrees, Committed, Runs

(* What was accepted is run.                                               *)
LEMMA RunKeepsAgreement ==
    ASSUME Shape, HubAgrees, NEW id \in BatchIds,
           Finish(id, BatchGoes(id)),
           IF BatchGoes(id) THEN SettleBatch(id) ELSE UNCHANGED settlementVars
    PROVE  /\ hub' \in [Keys -> [state : {"none", "running", "completed", "failed", "skipped"},
                                 age : Int]]
           /\ batchExecuted' \subseteq BatchIds
           /\ HubAgrees' /\ Committed' \subseteq Committed
           /\ UNCHANGED <<collected, settledAt>>
<1> DEFINE R == [state : {"none", "running", "completed", "failed", "skipped"}, age : Int]
<1>1. /\ hub[id].state = "running"
      /\ hub' = [hub EXCEPT ![id] =
            [state |-> IF BatchGoes(id) THEN "completed" ELSE "failed", age |-> 0]]
    BY DEF Finish, Written
<1>2. batchExecuted' = IF BatchGoes(id) THEN batchExecuted \cup {id} ELSE batchExecuted
    BY DEF SettleBatch, settlementVars
<1>3. UNCHANGED <<collected, settledAt>>
    BY DEF SettleBatch, settlementVars
<1>4. hub' \in [Keys -> R]
    <2>1. [state |-> IF BatchGoes(id) THEN "completed" ELSE "failed", age |-> 0] \in R
        <3>1. CASE BatchGoes(id)
            BY <3>1
        <3>2. CASE ~BatchGoes(id)
            BY <3>2
        <3> QED BY <3>1, <3>2
    <2> HIDE DEF R
    <2> QED BY <1>1, <2>1 DEF Shape, R
<1>5. /\ \A other \in BatchIds \ {id} : hub'[other] = hub[other]
      /\ hub'[id].state = IF BatchGoes(id) THEN "completed" ELSE "failed"
    BY <1>1, BatchKeys DEF Shape
<1>6. id \notin batchExecuted /\ id \in Committed
    BY <1>1 DEF HubAgrees, Committed, Runs
<1>7. HubAgrees'
    BY <1>2, <1>5, <1>6 DEF HubAgrees
<1>8. Committed' \subseteq Committed
    BY <1>2, <1>5, <1>6 DEF Committed, Runs
<1> QED
    BY <1>2, <1>3, <1>4, <1>7, <1>8 DEF Shape

(* What is forgotten was over.                                             *)
LEMMA AgeKeepsAgreement ==
    ASSUME Shape, HubAgrees, Age, UNCHANGED batchExecuted
    PROVE  /\ hub' \in [Keys -> [state : {"none", "running", "completed", "failed", "skipped"},
                                 age : Int]]
           /\ HubAgrees' /\ Committed' = Committed
<1> DEFINE R == [state : {"none", "running", "completed", "failed", "skipped"}, age : Int]
<1>1. ASSUME NEW r \in R
      PROVE  /\ Aged(r) \in R
             /\ Aged(r).state \in {r.state, "none"}
             /\ r.state = "running" => Aged(r).state = "running"
    BY DEF Aged, Absent
<1>2. hub' = [key \in Keys |-> Aged(hub[key])]
    BY DEF Age
<1>3. \A key \in Keys : hub[key] \in R /\ hub'[key] = Aged(hub[key])
    BY <1>2 DEF Shape
<1>4. hub' \in [Keys -> R]
    BY <1>1, <1>2, <1>3
<1>5. \A id \in BatchIds :
        /\ hub'[id].state \in {hub[id].state, "none"}
        /\ hub[id].state = "running" => hub'[id].state = "running"
    BY <1>1, <1>3, BatchKeys
<1>6. HubAgrees' /\ Committed' = Committed
    BY <1>5 DEF HubAgrees, Committed, Runs
<1> QED
    BY <1>4, <1>6

-----------------------------------------------------------------------------
(* The keeper and the book.                                                *)

(* A step that sends no batch: the instalments of a batch stay marked, or  *)
(* stay in hand, or are lost sight of.                                     *)
LEMMA SendingNothingKeeps ==
    ASSUME IInv, Shape', HubAgrees', NothingMarkedIsSent',
           covers' = covers, Committed' \subseteq Committed, lostSight \subseteq lostSight',
           \A i \in Instalments \ lostSight' : \A id \in Committed :
              i \in settledAt \/ InHand(i, id) => i \in settledAt' \/ InHand(i, id)'
    PROVE  IInv'
<1>1. ASSUME NEW i \in Instalments \ lostSight'
      PROVE  Watched(i)'
    <2>1. Watched(i)
        BY DEF IInv
    <2>2. \A id \in Committed' : i \in covers'[id] => i \in settledAt' \/ InHand(i, id)'
        BY <2>1 DEF Watched
    <2>3. \A id, other \in Committed' : i \in covers'[id] /\ i \in covers'[other] => id = other
        BY <2>1 DEF Watched
    <2> QED BY <2>2, <2>3 DEF Watched
<1> QED
    BY <1>1 DEF IInv

(* A step of a keeper with nothing in hand that leaves hub, contract and   *)
(* marks alone.                                                            *)
LEMMA FreeHandsKeep ==
    ASSUME IInv, pc \notin {"wait", "mark"}, pc' \notin {"wait", "mark"},
           UNCHANGED <<hub, collected, batchExecuted, settledAt, covers, lostSight>>,
           payout' \subseteq Instalments, pc' = "pay" => payout' # {} /\ payout' \cap settledAt = {}
    PROVE  IInv'
<1>1. HubAgrees' /\ Committed' = Committed
    BY HubStays DEF IInv
<1>2. Shape'
    BY DEF IInv, Shape
<1>3. NothingMarkedIsSent'
    BY DEF NothingMarkedIsSent
<1>4. \A i, id : ~InHand(i, id)
    BY DEF InHand
<1> QED
    BY <1>1, <1>2, <1>3, <1>4, SendingNothingKeeps DEF IInv

(* The end of a pass that had something in hand.                           *)
LEMMA LettingGoKeeps ==
    ASSUME IInv, pc' = "sleep", payout' = {},
           UNCHANGED <<hub, collected, batchExecuted, settledAt, covers>>,
           lostSight \subseteq lostSight',
           \A i \in Instalments \ lostSight' : \A id \in Committed :
              i \in covers[id] => ~InHand(i, id)
    PROVE  IInv'
<1>1. HubAgrees' /\ Committed' = Committed
    BY HubStays DEF IInv
<1>2. Shape' /\ NothingMarkedIsSent'
    BY DEF IInv, Shape, NothingMarkedIsSent
<1>3. ASSUME NEW i \in Instalments \ lostSight'
      PROVE  Watched(i)'
    <2>1. Watched(i)
        BY DEF IInv
    <2>2. \A id \in Committed' : i \in covers'[id] => i \in settledAt'
        BY <1>1, <2>1 DEF Watched
    <2>3. \A id, other \in Committed' : i \in covers'[id] /\ i \in covers'[other] => id = other
        BY <1>1, <2>1 DEF Watched
    <2> QED BY <2>2, <2>3 DEF Watched
<1> QED
    BY <1>1, <1>2, <1>3 DEF IInv

LEMMA SubscriptionStepsKeep ==
    ASSUME IInv, ReadSubscriptions \/ ReadFails \/ ChargeSubscription
    PROVE  IInv'
<1>1. CASE ReadSubscriptions
    <2>1. /\ pc = "sleep" /\ pc' \in {"settle", "charge"} /\ payout' = payout
          /\ UNCHANGED <<hub, collected, batchExecuted, settledAt, covers, lostSight>>
        BY <1>1 DEF ReadSubscriptions, settlementVars, hubVars, historyVars
    <2> QED BY <2>1, FreeHandsKeep DEF IInv, Shape
<1>2. CASE ReadFails
    <2>1. /\ pc = "sleep" /\ pc' = pc /\ payout' = payout
          /\ UNCHANGED <<hub, collected, batchExecuted, settledAt, covers, lostSight>>
        BY <1>2 DEF ReadFails, Fault, settlementVars, historyVars
    <2> QED BY <2>1, FreeHandsKeep DEF IInv, Shape
<1>3. CASE ChargeSubscription
    <2>1. /\ pc = "charge" /\ pc' = "settle" /\ payout' = payout
          /\ UNCHANGED <<collected, batchExecuted, settledAt, covers, lostSight>>
        BY <1>3 DEF ChargeSubscription, settlementVars, historyVars
    <2>2. CASE hub' = hub
        BY <2>1, <2>2, FreeHandsKeep DEF IInv, Shape
    <2>3. CASE hub' # hub
        <3>1. CheckAndExecute(SubscriptionKey(listed), StillDue, ChargeGoes)
            BY <1>3, <2>3 DEF ChargeSubscription, hubVars, Fault
        <3>2. /\ HubAgrees' /\ Committed' = Committed
              /\ hub' \in [Keys -> [state : {"none", "running", "completed", "failed",
                                             "skipped"}, age : Int]]
            BY <2>1, <3>1, ChargeLeavesBatches DEF IInv
        <3>3. Shape' /\ NothingMarkedIsSent'
            BY <2>1, <3>2 DEF IInv, Shape, NothingMarkedIsSent
        <3>4. \A i, id : ~InHand(i, id)
            BY <2>1 DEF InHand
        <3> QED BY <2>1, <3>2, <3>3, <3>4, SendingNothingKeeps
    <2> QED BY <2>2, <2>3
<1> QED
    BY <1>1, <1>2, <1>3

LEMMA EmptyHandedStepsKeep ==
    ASSUME IInv, FindPending \/ NothingPending \/ Refused \/ Unreachable
    PROVE  IInv'
<1>1. CASE FindPending
    <2>1. /\ pc = "settle" /\ pc' = "pay" /\ payout' = Pending /\ Pending # {}
          /\ UNCHANGED <<hub, collected, batchExecuted, settledAt, covers, lostSight>>
        BY <1>1 DEF FindPending, settlementVars, hubVars, historyVars
    <2>2. Pending \subseteq Instalments /\ Pending \cap settledAt = {}
        BY DEF Pending, Unsettled, IInv, Shape
    <2> QED BY <2>1, <2>2, FreeHandsKeep
<1>2. CASE NothingPending \/ Refused \/ Unreachable
    <2>1. /\ pc \in {"settle", "pay"} /\ pc' = "sleep" /\ payout' = {}
          /\ UNCHANGED <<hub, collected, batchExecuted, settledAt, covers, lostSight>>
        BY <1>2 DEF NothingPending, Refused, Unreachable, PassEnds, Fault, settlementVars, hubVars
    <2> QED BY <2>1, FreeHandsKeep
<1> QED
    BY <1>1, <1>2

(* Sending: what is sent was covered by no batch the keeper has in sight.  *)
LEMMA SendKeeps == ASSUME IInv, Send PROVE IInv'
<1> DEFINE new == BatchId(payout)
           R == [state : {"none", "running", "completed", "failed", "skipped"}, age : Int]
<1>1. /\ pc = "pay" /\ pc' = "wait" /\ payout' = payout
      /\ covers' = [covers EXCEPT ![new] = payout]
      /\ new \notin batchExecuted
      /\ UNCHANGED <<collected, batchExecuted, settledAt, lostSight>>
    BY DEF Send, BatchGoes, settlementVars
<1>2. new \in BatchIds /\ new \in Keys /\ payout \subseteq Instalments
    BY <1>1, BatchKeys DEF IInv, Shape
<1>3. hub' = hub \/ hub' = [hub EXCEPT ![new] = [state |-> "running", age |-> 0]]
    BY DEF Send, Submit, Written
<1> HIDE DEF new
<1>4. /\ hub' \in [Keys -> R]
      /\ \A id \in BatchIds \ {new} : hub'[id] = hub[id]
      /\ hub'[new].state = hub[new].state \/ hub'[new].state = "running"
    <2>1. [state |-> "running", age |-> 0] \in R
        OBVIOUS
    <2>2. hub \in [Keys -> R]
        BY DEF IInv, Shape
    <2> HIDE DEF R
    <2>3. CASE hub' = hub
        BY <2>2, <2>3
    <2>4. CASE hub' = [hub EXCEPT ![new] = [state |-> "running", age |-> 0]]
        <3>1. hub' \in [Keys -> R] /\ hub'[new] = [state |-> "running", age |-> 0]
            BY <1>2, <2>1, <2>2, <2>4
        <3>2. \A id \in BatchIds \ {new} : hub'[id] = hub[id]
            BY <2>2, <2>4, BatchKeys
        <3> QED BY <3>1, <3>2
    <2> QED BY <1>3, <2>3, <2>4
<1>5. HubAgrees'
    BY <1>1, <1>4 DEF IInv, HubAgrees
<1>6. Committed' \subseteq Committed \cup {new}
    BY <1>1, <1>4 DEF Committed, Runs
<1>7. Shape' /\ NothingMarkedIsSent'
    BY <1>1, <1>2, <1>4 DEF IInv, Shape, NothingMarkedIsSent
<1>8. ASSUME NEW i \in Instalments \ lostSight'
      PROVE  Watched(i)'
    <2>1. Watched(i) /\ \A id : ~InHand(i, id)
        BY <1>1 DEF IInv, InHand
    <2>2. \A id \in Committed' : id # new /\ i \in covers'[id] => i \in covers[id] /\ id \in Committed
        BY <1>1, <1>6 DEF IInv, Shape
    <2>3. \A id \in Committed' : id # new /\ i \in covers'[id] => i \in settledAt
        BY <2>1, <2>2 DEF Watched
    <2>4. i \in covers'[new] => i \in payout /\ i \notin settledAt
        <3>1. covers'[new] = payout
            BY <1>1, <1>2 DEF IInv, Shape
        <3> QED BY <1>1, <3>1 DEF IInv, NothingMarkedIsSent
    <2>5. \A id \in Committed' : i \in covers'[id] => i \in settledAt' \/ InHand(i, id)'
        BY <1>1, <2>3, <2>4 DEF InHand, new
    <2>6. \A id, other \in Committed' : i \in covers'[id] /\ i \in covers'[other] => id = other
        BY <2>1, <2>2, <2>3, <2>4 DEF Watched
    <2> QED BY <2>5, <2>6 DEF Watched
<1> QED
    BY <1>5, <1>7, <1>8 DEF IInv

LEMMA AnsweredStepsKeep ==
    ASSUME IInv, AnsweredFailed \/ NotSeenPaid \/ SeenPaid
    PROVE  IInv'
<1>1. CASE AnsweredFailed
    <2>1. /\ pc = "wait" /\ hub[BatchId(payout)].state = "failed" /\ pc' = "sleep" /\ payout' = {}
          /\ UNCHANGED <<hub, collected, batchExecuted, settledAt, covers, lostSight>>
        BY <1>1 DEF AnsweredFailed, PassEnds, settlementVars, hubVars
    <2>2. BatchId(payout) \in BatchIds
        BY <2>1, BatchKeys DEF IInv, Shape
    <2>3. BatchId(payout) \notin Committed
        BY <2>1, <2>2 DEF IInv, HubAgrees, Committed, Runs
    <2>4. \A i, id : id \in Committed => ~InHand(i, id)
        BY <2>3 DEF InHand
    <2> QED BY <2>1, <2>4, LettingGoKeeps
<1>2. CASE NotSeenPaid
    <2>1. /\ pc = "wait" /\ pc' = "sleep" /\ payout' = {} /\ lostSight' = lostSight \cup payout
          /\ UNCHANGED <<hub, collected, batchExecuted, settledAt, covers>>
        BY <1>2 DEF NotSeenPaid, PassEnds, LosesSight, Fault, settlementVars
    <2>2. \A i, id : i \notin payout => ~InHand(i, id)
        BY DEF InHand
    <2> QED BY <2>1, <2>2, LettingGoKeeps
<1>3. CASE SeenPaid
    <2>1. /\ pc = "wait" /\ pc' = "mark" /\ payout' = payout /\ toMark' = payout
          /\ UNCHANGED <<hub, collected, batchExecuted, settledAt, covers, lostSight>>
        BY <1>3 DEF SeenPaid, settlementVars, hubVars, historyVars
    <2>2. HubAgrees' /\ Committed' = Committed
        BY <2>1, HubStays DEF IInv
    <2>3. Shape' /\ NothingMarkedIsSent'
        BY <2>1 DEF IInv, Shape, NothingMarkedIsSent
    <2>4. \A i, id : InHand(i, id) => InHand(i, id)'
        BY <2>1 DEF InHand
    <2> QED BY <2>1, <2>2, <2>3, <2>4, SendingNothingKeeps
<1> QED
    BY <1>1, <1>2, <1>3

LEMMA MarkKeeps == ASSUME IInv, Mark PROVE IInv'
<1> DEFINE i == Min(toMark)
<1>1. /\ pc = "mark" /\ settledAt' = settledAt \cup {i} /\ toMark' = toMark \ {i}
      /\ IF toMark' = {} THEN pc' = "sleep" /\ payout' = {} ELSE UNCHANGED <<pc, payout>>
      /\ UNCHANGED <<hub, collected, batchExecuted, covers, lostSight>>
    BY DEF Mark, MarkSettled, hubVars, historyVars
<1> HIDE DEF i
<1>2. HubAgrees' /\ Committed' = Committed
    BY <1>1, HubStays DEF IInv
<1>3. Shape' /\ NothingMarkedIsSent'
    BY <1>1 DEF IInv, Shape, NothingMarkedIsSent
<1>4. \A j, id : InHand(j, id) => j \in settledAt' \/ InHand(j, id)'
    BY <1>1 DEF InHand
<1> QED
    BY <1>1, <1>2, <1>3, <1>4, SendingNothingKeeps

LEMMA CrashKeeps == ASSUME IInv, Crash PROVE IInv'
<1>1. /\ pc' = "sleep" /\ payout' = {}
      /\ lostSight' = lostSight \cup
            (CASE pc = "wait" -> payout [] pc = "mark" -> toMark [] OTHER -> {})
      /\ UNCHANGED <<hub, collected, batchExecuted, settledAt, covers>>
    BY DEF Crash, LosesSight, Fault, settlementVars
<1>2. \A i \in Instalments \ lostSight' : \A id : ~InHand(i, id)
    BY <1>1 DEF InHand
<1>3. lostSight \subseteq lostSight'
    BY <1>1
<1> QED
    BY <1>1, <1>2, <1>3, LettingGoKeeps

-----------------------------------------------------------------------------
(* Everybody else.                                                         *)

LEMMA HandsStay ==
    ASSUME UNCHANGED keeperVars
    PROVE  \A i, id : InHand(i, id)' <=> InHand(i, id)
BY DEF keeperVars, InHand

LEMMA ExecuteKeeps == ASSUME IInv, Execute PROVE IInv'
<1>1. PICK id \in BatchIds :
        /\ Finish(id, BatchGoes(id))
        /\ IF BatchGoes(id) THEN SettleBatch(id) ELSE UNCHANGED settlementVars
        /\ UNCHANGED <<rails, paymentVars, keeperVars, historyVars>>
    BY DEF Execute
<1>2. /\ hub' \in [Keys -> [state : {"none", "running", "completed", "failed", "skipped"},
                            age : Int]]
      /\ batchExecuted' \subseteq BatchIds /\ HubAgrees' /\ Committed' \subseteq Committed
      /\ UNCHANGED <<collected, settledAt>>
    BY <1>1, RunKeepsAgreement DEF IInv
<1>3. UNCHANGED <<pc, payout, covers, lostSight>>
    BY <1>1 DEF keeperVars, historyVars
<1>4. Shape' /\ NothingMarkedIsSent'
    BY <1>2, <1>3 DEF IInv, Shape, NothingMarkedIsSent
<1>5. \A i, other : InHand(i, other)' <=> InHand(i, other)
    BY <1>1, HandsStay
<1> QED
    BY <1>2, <1>3, <1>4, <1>5, SendingNothingKeeps

LEMMA OthersKeep == ASSUME IInv, OnPayments \/ OnSettlement \/ UNCHANGED vars PROVE IInv'
<1>1. UNCHANGED <<hub, keeperVars, covers>>
    BY DEF OnPayments, OnSettlement, hubVars, historyVars, vars
<1>2. /\ batchExecuted' = batchExecuted
      /\ collected' \subseteq Instalments
      /\ \/ settledAt' = settledAt /\ lostSight' = lostSight
         \/ settledAt' = {} /\ lostSight' = lostSight \cup settledAt
    <2>1. CASE OnPayments \/ UNCHANGED vars
        BY <2>1 DEF OnPayments, settlementVars, historyVars, vars, IInv, Shape
    <2>2. CASE OnSettlement
        BY <2>2 DEF OnSettlement, Collected, Refloat, Resync, LosesSight, IInv, Shape
    <2> QED BY <2>1, <2>2
<1>3. UNCHANGED <<pc, payout>>
    BY <1>1 DEF keeperVars
<1>4. HubAgrees' /\ Committed' = Committed
    BY <1>1, <1>2, HubStays DEF IInv
<1>5. Shape' /\ NothingMarkedIsSent'
    BY <1>1, <1>2, <1>3 DEF IInv, Shape, NothingMarkedIsSent
<1>6. \A i, id : InHand(i, id)' <=> InHand(i, id)
    BY <1>1, HandsStay
<1> QED
    BY <1>1, <1>2, <1>4, <1>5, <1>6, SendingNothingKeeps

LEMMA TickKeeps == ASSUME IInv, Tick PROVE IInv'
<1>1. /\ Age
      /\ UNCHANGED <<pc, payout, toMark, collected, batchExecuted, settledAt, covers, lostSight>>
    BY DEF Tick, settlementVars, historyVars
<1>2. /\ hub' \in [Keys -> [state : {"none", "running", "completed", "failed", "skipped"},
                            age : Int]]
      /\ HubAgrees' /\ Committed' = Committed
    BY <1>1, AgeKeepsAgreement DEF IInv
<1>3. Shape' /\ NothingMarkedIsSent'
    BY <1>1, <1>2 DEF IInv, Shape, NothingMarkedIsSent
<1>4. \A i, id : InHand(i, id) => InHand(i, id)'
    BY <1>1 DEF InHand
<1> QED
    BY <1>1, <1>2, <1>3, <1>4, SendingNothingKeeps

LEMMA InitiallyInSight == Init => IInv
<1> SUFFICES ASSUME Init PROVE IInv
    OBVIOUS
<1>1. /\ hub = [key \in Keys |-> Absent] /\ batchExecuted = {} /\ collected = {} /\ settledAt = {}
      /\ payout = {} /\ pc = "sleep" /\ covers = [id \in BatchIds |-> {}]
    BY DEF Init, HubInit, SettlementInit
<1>2. \A id \in BatchIds : hub[id].state = "none"
    BY <1>1, BatchKeys DEF Absent
<1>3. Committed = {} /\ HubAgrees
    BY <1>1, <1>2 DEF Committed, Runs, HubAgrees
<1>4. Shape /\ NothingMarkedIsSent
    BY <1>1 DEF Shape, Absent, NothingMarkedIsSent
<1> QED
    BY <1>3, <1>4 DEF IInv, Watched

LEMMA StepKeepsSight == IInv /\ [Next]_vars => IInv'
<1> SUFFICES ASSUME IInv, [Next]_vars PROVE IInv'
    OBVIOUS
<1>1. CASE KeeperNext
    BY <1>1, SubscriptionStepsKeep, EmptyHandedStepsKeep, SendKeeps, AnsweredStepsKeep, MarkKeeps
       DEF KeeperNext
<1>2. CASE Crash \/ Execute \/ Tick
    BY <1>2, CrashKeeps, ExecuteKeeps, TickKeeps
<1>3. CASE OnPayments \/ OnSettlement \/ UNCHANGED vars
    BY <1>3, OthersKeep
<1> QED
    BY <1>1, <1>2, <1>3 DEF Next

(* The settlement job (jobs.ts, settlements.ts) pays an instalment out in  *)
(* two batches only if the keeper lost sight of the first one: the marks,  *)
(* the batch ids and the hub's keys together leave no other way, however   *)
(* collections, refused payouts, refloats and lapsed records interleave.   *)
THEOREM PaidOutOnceInSight == FairSpec => []PaidOutAgainOnlyIf
<1>1. IInv => PaidOutAgainOnlyIf
    <2> SUFFICES ASSUME IInv, NEW i \in Instalments, i \notin lostSight
                 PROVE  ~(Cardinality({id \in batchExecuted : i \in covers[id]}) > 1)
        BY DEF PaidOutAgainOnlyIf
    <2> DEFINE S == {id \in batchExecuted : i \in covers[id]}
    <2>1. \A id, other \in S : id = other
        BY DEF IInv, Watched, Committed
    <2>2. CASE S = {}
        BY <2>2, FS_EmptySet
    <2>3. CASE S # {}
        <3>1. PICK id : S = {id}
            BY <2>1, <2>3
        <3>2. Cardinality(S) = 1
            BY <3>1, FS_Singleton
        <3> QED BY <3>2
    <2> QED BY <2>2, <2>3
<1> QED
    BY <1>1, InitiallyInSight, StepKeepsSight, PTL DEF FairSpec

=============================================================================
