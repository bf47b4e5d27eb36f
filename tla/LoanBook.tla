------------------------------- MODULE LoanBook -------------------------------
(***************************************************************************)
(* The database's copy of a plan, and the two programs that write it: the  *)
(* keeper recording attempts (loanbook.ts) and the chain sync rebuilding   *)
(* the document (sync-chain.ts).  Each database command is one step; what  *)
(* a program read before it is kept by the program.  Only the guarded      *)
(* write of a success and the plain one that follows where the guard does  *)
(* not hold are taken together.                                            *)
(***************************************************************************)
EXTENDS ChainLoan, KeeperHub, Sequences

CONSTANTS
    Delays,         \* attempt -> ticks to wait before it: the dunning ladder
    MaxAttempts     \* bound on the attempts one instalment is given

ASSUME LadderAssumption == MaxAttempts \in Nat \ {0} /\ Delays \in Seq(Nat) /\ Delays # <<>>

VARIABLES
    book,           \* the loan document
    syncSeen        \* what a chain sync has read, of the chain and then of
                    \* the document, and not yet written

bookVars == <<book, syncSeen>>

Rungs == DOMAIN Delays
Longest == LET S == {Delays[n] : n \in Rungs} IN CHOOSE d \in S : \A e \in S : e <= d

Instalment ==
    [state : {"scheduled", "dunning", "paid"}, attempts : 0..MaxAttempts,
     wait : 0..Longest, kind : Kinds]

Scheduled == [state |-> "scheduled", attempts |-> 0, wait |-> 0, kind |-> "none"]

Statuses == {"active", "repaid", "liquidated"}

NothingRead ==
    [at |-> "idle", repaid |-> 0, counted |-> 0, status |-> "active",
     inst |-> [i \in Instalments |-> Scheduled], candidate |-> FALSE]

BookTypeOK ==
    /\ book \in [inst : [Instalments -> Instalment], total : 0..TotalOwed,
                 status : Statuses, candidate : BOOLEAN]
    /\ syncSeen \in [at : {"idle", "chain", "document"}, repaid : 0..TotalOwed,
                     counted : 0..Count, status : Statuses,
                     inst : [Instalments -> Instalment], candidate : BOOLEAN]

BookInit ==
    /\ book = [inst |-> [i \in Instalments |-> Scheduled], total |-> 0,
               status |-> "active", candidate |-> FALSE]
    /\ syncSeen = NothingRead

Amount(i) == Threshold(i) - Threshold(i - 1)

(* What a pass finds to collect: the loan is active in the book, the       *)
(* instalment open and due, its back-off over.                             *)
Collectable(i) ==
    /\ book.status = "active"
    /\ book.inst[i].state # "paid"
    /\ IsDue(i)
    /\ book.inst[i].wait = 0

\* A slip: the collected amount is added as it is.
UncappedTotal(total, i) == total + Amount(i)

(* The total never passes what is owed, whatever is collected.             *)
RepaidAfterCollecting(total, i) == total + Lower(Amount(i), TotalOwed - total)

(* A success: the document is read, the total computed, and written only   *)
(* if the instalment is still open.  The status goes with the write either *)
(* way.                                                                    *)
RecordPaid(i, attempts, seen) ==
    LET fresh == seen.state # "paid"
        total == RepaidAfterCollecting(seen.total, i)
        open  == book.inst[i].state # "paid"
    IN  /\ book' = [book EXCEPT
              !.inst[i] = [state |-> "paid", attempts |-> attempts, wait |-> 0, kind |-> "none"],
              !.total = IF fresh /\ open THEN total ELSE @,
              !.status = IF fresh /\ total >= TotalOwed THEN "repaid" ELSE @]
        /\ UNCHANGED syncSeen

-----------------------------------------------------------------------------
(* The sync reads the chain, then the document, and overwrites the         *)
(* document with what follows from the two: three steps, with the keeper   *)
(* free to write between them.                                             *)
SyncRead ==
    /\ syncSeen.at = "idle"
    /\ syncSeen' = [syncSeen EXCEPT !.at = "chain", !.repaid = repaid,
                                    !.counted = counted, !.status = status]
    /\ UNCHANGED book

SyncRecall ==
    /\ syncSeen.at = "chain"
    /\ syncSeen' = [syncSeen EXCEPT !.at = "document", !.inst = book.inst,
                                    !.candidate = book.candidate]
    /\ UNCHANGED book

\* A slip: what is mid-ladder stays so, paid or not.
DunningKept(i) == IF syncSeen.inst[i].state = "dunning" THEN syncSeen.inst[i] ELSE Scheduled

(* Paid from the front, as many as the chain counts; of the others only an *)
(* instalment recalled in dunning keeps its ladder.                        *)
Rebuilt(i) ==
    IF i <= syncSeen.counted THEN [state |-> "paid", attempts |-> 1, wait |-> 0, kind |-> "none"]
    ELSE IF syncSeen.inst[i].state = "dunning" THEN syncSeen.inst[i] ELSE Scheduled

SyncWrite ==
    /\ syncSeen.at = "document"
    /\ book' = [inst |-> [i \in Instalments |-> Rebuilt(i)], total |-> syncSeen.repaid,
                status |-> syncSeen.status, candidate |-> syncSeen.candidate]
    /\ syncSeen' = NothingRead

(* Time passing brings the next attempt closer.                            *)
Closer(inst) == [inst EXCEPT !.wait = IF @ = 0 THEN 0 ELSE @ - 1]

Countdown ==
    /\ book' = [book EXCEPT !.inst = [i \in Instalments |-> Closer(book.inst[i])]]
    /\ UNCHANGED syncSeen

=============================================================================
