------------------------------ MODULE Collection ------------------------------
(***************************************************************************)
(* The keeper collecting one plan: jobs.ts over the loan book, the dunning *)
(* ladder and KeeperHub, with the chain, the borrower and the chain sync   *)
(* moving in between.  A tick is the shortest back-off of the ladder       *)
(* (hours); a pass, a sync and an execution take minutes and end within    *)
(* the tick they began in, unless the keeper crashes.                      *)
(***************************************************************************)
EXTENDS LoanBook

CONSTANT
    PollFaults      \* what an accepted charge may be reported as when the
                    \* client loses sight of it

ASSUME PollAssumption == PollFaults \subseteq FaultKinds

VARIABLES
    pc,             \* what the keeper is doing
    queue,          \* the due instalments of this pass still to be seen to,
                    \* each with its attempts and last failure as read at its start
    docSeen,        \* what recordAttempt read before a "paid" write
    rested,         \* a new pass is due
    charged,        \* history: instalment -> charges that went through
    unsure,         \* history: the instalments with a charge the keeper sent
                    \* and whose outcome it never learned
    excused         \* history: the instalments a second charge of which has
                    \* become possible

keeperVars == <<pc, queue, docSeen, rested>>
historyVars == <<charged, unsure, excused>>
vars == <<loanVars, hubVars, bookVars, keeperVars, historyVars>>

LiquidationKey == <<0, 1>>       \* no instalment has the index 0
ChargeKey(i, n) == <<i, n>>

(* A key for every instalment and attempt, and one for the liquidation.    *)
ASSUME KeysAssumption ==
    Keys = {ChargeKey(i, n) : i \in Instalments, n \in 1..MaxAttempts} \cup {LiquidationKey}

Snapshot == [attempts : 0..MaxAttempts, kind : Kinds]

TypeOK ==
    /\ ChainTypeOK /\ HubTypeOK /\ BookTypeOK
    /\ pc \in {"sleep", "collect", "wait", "paid", "escalate", "liquidate"}
    /\ DOMAIN queue \subseteq Instalments /\ queue \in [DOMAIN queue -> Snapshot]
    /\ docSeen \in [state : {"scheduled", "dunning", "paid"}, total : 0..TotalOwed]
    /\ rested \in BOOLEAN
    /\ charged \in [Instalments -> Nat]
    /\ unsure \subseteq Instalments
    /\ excused \subseteq Instalments

NothingSeen == [state |-> "scheduled", total |-> 0]

Init ==
    /\ ChainInit /\ HubInit /\ BookInit
    /\ pc = "sleep" /\ queue = <<>> /\ docSeen = NothingSeen
    /\ rested = TRUE
    /\ charged = [i \in Instalments |-> 0]
    /\ unsure = {} /\ excused = {}

-----------------------------------------------------------------------------
(* A pass begins with the instalments due now.                             *)
StartPass ==
    LET due == {i \in Instalments : Collectable(i)}
    IN  /\ pc = "sleep" /\ rested
        /\ \A i \in due : book.inst[i].attempts < MaxAttempts
        /\ queue' = [i \in due |-> [attempts |-> book.inst[i].attempts, kind |-> book.inst[i].kind]]
        /\ pc' = IF due = {} THEN "liquidate" ELSE "collect"
        /\ rested' = FALSE
        /\ UNCHANGED <<loanVars, hubVars, bookVars, docSeen, historyVars>>

(* They are taken in order.                                                *)
Turn == CHOOSE i \in DOMAIN queue : \A j \in DOMAIN queue : i <= j
Current == queue[Turn]
Attempt == Current.attempts + 1

\* A slip: a fresh key for every attempt.
KeyAlwaysRotates == ChargeKey(Turn, Attempt)

(* The key advances only past a definite failure.                          *)
Key ==
    ChargeKey(Turn, IF IsIndefinite(Current.kind) THEN Current.attempts ELSE Attempt)

(* On to the next instalment, or to the liquidations.                      *)
Dropped == [i \in DOMAIN queue \ {Turn} |-> queue[i]]
Onward(rest) == IF DOMAIN rest = {} THEN "liquidate" ELSE "collect"

\* A slip: an empty wallet is left off the ladder as well.
ShortfallAbandoned(kind) == kind \in {OperatorSide, "would_revert", "insufficient_funds"}

(* What a failure does to the instalment: the ladder's next rung, the end  *)
(* of the ladder, or nothing but the count when dunning would not help.    *)
Abandoned(kind) == kind \in {OperatorSide, "would_revert"}
Exhausted == Attempt + 1 \notin Rungs

AfterFailure(inst, kind) ==
    IF Abandoned(kind) THEN [inst EXCEPT !.attempts = Attempt, !.kind = kind]
    ELSE IF Exhausted THEN [inst EXCEPT !.state = "dunning", !.attempts = Attempt, !.kind = kind]
    ELSE [state |-> "dunning", attempts |-> Attempt, kind |-> kind, wait |-> Delays[Attempt + 1]]

(* A failed attempt, recorded; past the last rung the loan is still to be  *)
(* put forward for liquidation.                                            *)
Failed(kind) ==
    /\ book' = [book EXCEPT !.inst[Turn] = AfterFailure(@, kind)]
    /\ queue' = Dropped
    /\ pc' = IF Exhausted /\ ~Abandoned(kind) THEN "escalate" ELSE Onward(Dropped)
    /\ UNCHANGED <<loanVars, syncSeen, docSeen, rested, charged>>

(* A write of its own: the process may stop before it.                     *)
MarkLiquidationCandidate ==
    /\ pc = "escalate"
    /\ book' = [book EXCEPT !.candidate = TRUE]
    /\ pc' = Onward(queue)
    /\ UNCHANGED <<loanVars, hubVars, syncSeen, queue, docSeen, rested, historyVars>>

(* After a failure of this kind the next attempt uses another key.         *)
KeyMoves(kind) == IsIndefinite(Current.kind) \/ ~IsIndefinite(kind)

(* A failure that says nothing of an earlier charge still open, and moves  *)
(* the key past it.                                                        *)
OnTop(kind) ==
    excused' = excused \cup {i \in {Turn} \cap unsure : KeyMoves(kind)}

(* The simulation says no; nothing is sent.                                *)
Refused ==
    /\ pc = "collect"
    /\ Simulated(Amount(Turn)) # "none"
    /\ Failed(Simulated(Amount(Turn)))
    /\ OnTop(Simulated(Amount(Turn)))
    /\ UNCHANGED <<hubVars, unsure>>

(* The simulation or the submission gets no proper answer, and the hub     *)
(* never saw the call.                                                     *)
Unreachable ==
    /\ pc = "collect"
    /\ \E kind \in FaultKinds : Failed(kind) /\ OnTop(kind)
    /\ Fault
    /\ UNCHANGED unsure

Send ==
    /\ pc = "collect"
    /\ Simulated(Amount(Turn)) = "none"
    /\ Submit(Key)
    /\ pc' = "wait"
    /\ UNCHANGED <<loanVars, bookVars, queue, docSeen, rested, historyVars>>

(* The execution failed, now or when the key was first used.               *)
AnsweredFailed ==
    /\ pc = "wait" /\ hub[Key].state = "failed"
    /\ Failed("reverted")
    /\ unsure' = unsure \ {Turn}
    /\ UNCHANGED <<hubVars, excused>>

(* Whatever becomes of the call, the client never learns it: no answer in  *)
(* time, a status poll refused, an answer without an execution, a receipt  *)
(* that could not be stored.  Only some of these are named as leaving the  *)
(* outcome open.                                                           *)
Unanswered ==
    /\ pc = "wait"
    /\ \E kind \in PollFaults :
          /\ Failed(kind)
          /\ excused' = excused \cup {i \in {Turn} : KeyMoves(kind)}
    /\ Fault
    /\ unsure' = unsure \cup {Turn}

(* The charge is confirmed; recordAttempt reads the document first.        *)
AnsweredPaid ==
    /\ pc = "wait" /\ hub[Key].state = "completed"
    /\ docSeen' = [state |-> book.inst[Turn].state, total |-> book.total]
    /\ pc' = "paid"
    /\ UNCHANGED <<loanVars, hubVars, bookVars, queue, rested, historyVars>>

WritePaid ==
    /\ pc = "paid"
    /\ RecordPaid(Turn, Attempt, docSeen)
    /\ docSeen' = NothingSeen
    /\ queue' = Dropped /\ pc' = Onward(Dropped)
    /\ unsure' = unsure \ {Turn}
    /\ UNCHANGED <<loanVars, hubVars, rested, charged, excused>>

(* The liquidation job, under one key that never changes: what the hub     *)
(* remembers is the answer, otherwise it checks and executes at once.      *)
PassEnds == pc' = "sleep" /\ UNCHANGED <<bookVars, queue, docSeen, rested, historyVars>>

LiquidateIfUnhealthy ==
    /\ pc = "liquidate" /\ book.candidate /\ book.status = "active"
    /\ PassEnds
    /\ \/ Known(LiquidationKey) /\ UNCHANGED <<loanVars, hubVars>>
       \/ /\ CheckAndExecute(LiquidationKey, ChainOverdue, ChainOverdue)
          /\ IF ChainOverdue THEN LiquidateOnChain ELSE UNCHANGED loanVars
       \/ ChainOverdue /\ SpoiltExecution(LiquidationKey) /\ UNCHANGED loanVars
       \/ Fault /\ UNCHANGED loanVars

NoCandidate ==
    /\ pc = "liquidate" /\ ~(book.candidate /\ book.status = "active")
    /\ PassEnds
    /\ UNCHANGED <<loanVars, hubVars>>

(* The process stops anywhere and is started again.                        *)
Crash ==
    /\ pc # "sleep" /\ Fault
    /\ pc' = "sleep" /\ queue' = <<>> /\ docSeen' = NothingSeen /\ rested' = TRUE
    /\ unsure' = IF pc \in {"wait", "paid"} THEN unsure \cup {Turn} ELSE unsure
    /\ UNCHANGED <<loanVars, bookVars, charged, excused>>

-----------------------------------------------------------------------------
(* The hub runs what it accepted: the charge pays or reverts.              *)
Execute ==
    \E i \in Instalments, n \in 1..MaxAttempts :
        /\ LET goes == Simulated(Amount(i)) = "none"
           IN  /\ Finish(ChargeKey(i, n), goes)
               /\ IF goes
                  THEN /\ RepayOnChain(Amount(i))
                       /\ charged' = [charged EXCEPT ![i] = @ + 1]
                  ELSE UNCHANGED <<loanVars, charged>>
        /\ UNCHANGED <<bookVars, keeperVars, unsure, excused>>

Borrower == BorrowerNext /\ UNCHANGED <<hubVars, bookVars, keeperVars, historyVars>>

(* The operator's sync; the rest of it follows once it is begun, unless it *)
(* is cut short.                                                           *)
BeginSync == SyncRead /\ UNCHANGED <<loanVars, hubVars, keeperVars, historyVars>>

GoOnSync ==
    \/ SyncRecall /\ UNCHANGED <<loanVars, hubVars, keeperVars, historyVars>>
    \/ /\ SyncWrite
       /\ excused' = excused \cup
             {i \in Instalments : book'.inst[i].attempts < book.inst[i].attempts}
       /\ UNCHANGED <<loanVars, hubVars, keeperVars, charged, unsure>>

CutShort ==
    /\ syncSeen.at # "idle" /\ Fault
    /\ syncSeen' = NothingRead
    /\ UNCHANGED <<loanVars, book, keeperVars, historyVars>>

Sync == BeginSync \/ GoOnSync \/ CutShort

(* Hours pass between passes.                                              *)
Tick ==
    /\ pc = "sleep" /\ Running = {} /\ syncSeen.at = "idle"
    /\ Elapse /\ Age /\ Countdown
    /\ rested' = TRUE
    /\ excused' = excused \cup
          {i \in Instalments : book.inst[i].state # "paid" /\ \E n \in 1..MaxAttempts :
              hub[ChargeKey(i, n)].state = "completed" /\ hub'[ChargeKey(i, n)] = Absent}
    /\ UNCHANGED <<pc, queue, docSeen, charged, unsure>>

KeeperNext ==
    \/ StartPass \/ Refused \/ Unreachable \/ Send
    \/ AnsweredFailed \/ Unanswered \/ AnsweredPaid \/ WritePaid
    \/ MarkLiquidationCandidate
    \/ LiquidateIfUnhealthy \/ NoCandidate

Next == KeeperNext \/ Crash \/ Execute \/ Borrower \/ Sync \/ Tick

(* The process keeps running, the hub finishes what it accepted, a sync    *)
(* that was begun goes on, and time passes.  Nobody is bound to begin a    *)
(* sync: no job does, the operator may.                                    *)
Fairness ==
    WF_vars(KeeperNext) /\ WF_vars(Execute) /\ WF_vars(GoOnSync) /\ SF_vars(Tick)

Spec == Init /\ [][Next]_vars
FairSpec == Spec /\ Fairness

-----------------------------------------------------------------------------
(* What collection must satisfy.                                           *)

(* jobs.ts promises one charge for one instalment whatever the answers.    *)
ChargedOnce == \A i \in Instalments : charged[i] <= 1

(* An instalment is charged a second time only after one of three things:  *)
(* a failure the client takes for definite, of a charge whose outcome is   *)
(* open or recorded on top of one, so that the key moves past it; a sync   *)
(* that put the ladder back; or a lapse of the hub's record of a charge    *)
(* the book does not know to be paid.  A timeout or a crash is not enough  *)
(* by itself, and neither are any number of them.                          *)
ChargedAgainOnlyIf == \A i \in Instalments : charged[i] > 1 => i \in excused

(* Where the operator runs the sync again and again, a loan that is closed *)
(* on chain is, for good, closed in the book the same way, whatever the    *)
(* sync and the keeper had read before the other wrote.                    *)
BookMatches ==
    /\ book.status = status
    /\ book.total = repaid
    /\ status = "repaid" => \A i \in Instalments : book.inst[i].state = "paid"
SyncedAgain == []<><<BeginSync>>_vars
BookCatchesUp == SyncedAgain => ((status # "active") ~> []BookMatches)

(* A plan that is overdue past the grace does not stay so: it is brought   *)
(* up to date, repaid or liquidated.  This is where syncs keep apart from  *)
(* the keeper's passes, and none is ever run or one after another is; one  *)
(* sync in a pass, or a last sync before the pass that replays a charge,   *)
(* may leave an unpaid instalment marked paid for good.                    *)
Idle == syncSeen.at = "idle"
SyncsApart == [](Idle \/ pc = "sleep")
DefaultIsResolved ==
    SyncsApart /\ ([]Idle \/ SyncedAgain) => (ChainOverdue ~> ~ChainOverdue)

=============================================================================
