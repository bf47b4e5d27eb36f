------------------------------ MODULE Settlement ------------------------------
(***************************************************************************)
(* What one merchant is paid out: BatchSettlement.sol on the chain, and in *)
(* the database the collected instalments with their `settledAt` marks     *)
(* (settlements.ts), which the chain sync writes too (sync-chain.ts).      *)
(***************************************************************************)
EXTENDS FiniteSetsExt

CONSTANTS
    Instalments,    \* the merchant's instalments
    OrderOf,        \* instalment -> its order, by its place in the book
    AmountOf,       \* instalment -> its amount
    NamedOrders,    \* how many orders a payout names: five in the source
    MinAmount,      \* minAmountRaw: less than this is not worth a payout
    Floats          \* what the owner may leave in the contract

ASSUME SettlementAssumption ==
    /\ OrderOf \in [Instalments -> Nat]
    /\ AmountOf \in [Instalments -> Nat \ {0}]
    /\ NamedOrders \in Nat \ {0}
    /\ MinAmount \in Nat /\ Floats \subseteq Nat

VARIABLES
    collected,      \* the instalments the book has as paid
    settledAt,      \* those marked as paid out
    batchExecuted,  \* the batch ids the contract has paid
    float           \* its balance, a natural number

settlementVars == <<collected, settledAt, batchExecuted, float>>

Amount(covers) == MapThenSumSet(LAMBDA i : AmountOf[i], covers)

(* The reference lists the orders as the book has them, and is cut short.  *)
FirstOrders(orders) == {o \in orders : Cardinality({p \in orders : p < o}) < NamedOrders}

(* A batch is named by what it pays: the sum and the first orders, not the *)
(* instalments.  (The merchant and the payout address are fixed.)          *)
BatchId(covers) == <<"batch", Amount(covers), FirstOrders({OrderOf[i] : i \in covers})>>
BatchIds == {BatchId(covers) : covers \in (SUBSET Instalments) \ {{}}}

SettlementInit ==
    /\ collected = {} /\ settledAt = {} /\ batchExecuted = {}
    /\ float \in Floats

\* A slip: the marks are not looked at.
EverCollected == collected

Unsettled == collected \ settledAt

(* pendingSettlements: all that was collected and not marked, in one       *)
(* payout, or none.                                                        *)
Pending == IF Amount(Unsettled) < MinAmount THEN {} ELSE Unsettled

(* settleBatch, and what a simulation of it says.                          *)
BatchGoes(id) == id \notin batchExecuted /\ id[2] <= float

SettleBatch(id) ==
    /\ BatchGoes(id)
    /\ batchExecuted' = batchExecuted \cup {id}
    /\ float' = float - id[2]
    /\ UNCHANGED <<collected, settledAt>>

(* fund and withdraw.                                                      *)
Refloat ==
    /\ float' \in Floats
    /\ UNCHANGED <<collected, settledAt, batchExecuted>>

(* The collection job brings an instalment in.                             *)
Collected(i) ==
    /\ i \notin collected
    /\ collected' = collected \cup {i}
    /\ UNCHANGED <<settledAt, batchExecuted, float>>

(* markSettled, one update.                                                *)
MarkSettled(i) ==
    /\ settledAt' = settledAt \cup {i}
    /\ UNCHANGED <<collected, batchExecuted, float>>

(* The sync rebuilds every paid instalment without its mark.               *)
Resync ==
    /\ settledAt' = {}
    /\ UNCHANGED <<collected, batchExecuted, float>>

=============================================================================
