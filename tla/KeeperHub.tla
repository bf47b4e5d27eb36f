------------------------------ MODULE KeeperHub ------------------------------
(***************************************************************************)
(* The transaction relay the keeper sends through, as its client sees it.  *)
(* A call is submitted under an idempotency key.  The hub keeps one record *)
(* per key: it runs the call once, answers every later request under the   *)
(* same key from the record (failures included), and forgets the record    *)
(* after a day.  The client's own request retries reuse the key, so they   *)
(* collapse into one submission; what the keeper may miss is the answer.   *)
(***************************************************************************)
EXTENDS Integers

CONSTANTS
    Keys,           \* the idempotency keys a keeper can form
    Ttl,            \* how many ticks a record outlives its call
    MaxFaults       \* bound on requests the network or the hub spoils

ASSUME HubAssumption == Ttl \in Nat \ {0} /\ MaxFaults \in Nat

VARIABLES hub, faults

hubVars == <<hub, faults>>

Absent == [state |-> "none", age |-> 0]

(* "skipped" is the answer of a check-and-execute whose condition failed.  *)
Record == [state : {"none", "running", "completed", "failed", "skipped"}, age : 0..Ttl]

HubTypeOK == hub \in [Keys -> Record] /\ faults \in 0..MaxFaults

HubInit == hub = [key \in Keys |-> Absent] /\ faults = 0

Known(key) == hub[key].state # "none"
Running == {key \in Keys : hub[key].state = "running"}

Written(key, state) == [hub EXCEPT ![key] = [state |-> state, age |-> 0]]

(* A key the hub knows starts nothing: its record is the answer.           *)
Submit(key) ==
    /\ hub' = IF Known(key) THEN hub ELSE Written(key, "running")
    /\ UNCHANGED faults

(* The call runs to its end on chain.                                      *)
Finish(key, succeeded) ==
    /\ hub[key].state = "running"
    /\ hub' = Written(key, IF succeeded THEN "completed" ELSE "failed")
    /\ UNCHANGED faults

(* Condition and call in one request: condMet decides, nothing in between. *)
CheckAndExecute(key, condMet, succeeded) ==
    /\ ~Known(key)
    /\ hub' = Written(key, IF ~condMet THEN "skipped"
                           ELSE IF succeeded THEN "completed" ELSE "failed")
    /\ UNCHANGED faults

(* The condition held and the call failed all the same: no gas, a nonce    *)
(* taken, an execution the relay gave up.                                  *)
SpoiltExecution(key) ==
    /\ ~Known(key)
    /\ faults < MaxFaults /\ faults' = faults + 1
    /\ hub' = Written(key, "failed")

(* A tick older: a record past its life is forgotten.                      *)
Aged(r) ==
    IF r.state \in {"none", "running"} THEN r
    ELSE IF r.age + 1 >= Ttl THEN Absent ELSE [r EXCEPT !.age = @ + 1]

Age == hub' = [key \in Keys |-> Aged(hub[key])] /\ UNCHANGED faults

(* A request or its answer is lost, refused or left waiting too long.      *)
Fault == faults < MaxFaults /\ faults' = faults + 1 /\ UNCHANGED hub

-----------------------------------------------------------------------------
(* How the client names what went wrong.                                   *)

(* An answer that leaves the outcome open: timeout, 5xx, still in flight.  *)
OutcomeOpen == "indefinite"
(* Credentials or the spend cap: the operator's problem.                   *)
OperatorSide == "operator"

(* What a spoilt request can be classified as; "other" stands for the rest *)
(* the client takes for definite: a rate limit, a validation error, not    *)
(* found, or an error it does not know.                                    *)
FaultKinds == {OutcomeOpen, OperatorSide, "other"}

Kinds == FaultKinds \cup {"none", "insufficient_funds", "would_revert", "reverted"}

IsIndefinite(kind) == kind = OutcomeOpen

=============================================================================
