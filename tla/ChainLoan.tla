------------------------------ MODULE ChainLoan ------------------------------
(***************************************************************************)
(* One plan of PolarisLoanEngine.sol, as the programs around the chain see *)
(* it: money in, the status, and the borrower's spendable funds.  What the *)
(* engine does besides is in PolarisLoanEngine; the clock counts ticks     *)
(* since origination and stops once nothing depends on it any more.        *)
(***************************************************************************)
EXTENDS Integers

CONSTANTS
    Count, TotalOwed,       \* the plan
    Interval, Grace,        \* in ticks
    Opening,                \* the borrower's funds when the plan opens
    TopUps, MaxTopUps,      \* money that may arrive, and how often
    Paydays,                \* the ticks it may arrive in
    Payments                \* what the borrower may pay directly

ASSUME LoanAssumption ==
    /\ Count \in Nat \ {0} /\ TotalOwed \in Nat \ {0}
    /\ Interval \in Nat \ {0} /\ Grace \in Nat /\ Opening \in Nat
    /\ TopUps \subseteq Nat \ {0} /\ MaxTopUps \in Nat /\ Paydays \subseteq Nat
    /\ Payments \subseteq Nat \ {0}

VARIABLES repaid, counted, status, funds, topUps, clock

loanVars == <<repaid, counted, status, funds, topUps, clock>>

LastMoment == Count * Interval + Grace + 1

ChainTypeOK ==
    /\ repaid \in 0..TotalOwed /\ counted \in 0..Count
    /\ status \in {"active", "repaid", "liquidated"}
    /\ funds \in Nat /\ topUps \in 0..MaxTopUps /\ clock \in 0..LastMoment

ChainInit ==
    /\ repaid = 0 /\ counted = 0 /\ status = "active" /\ funds = Opening /\ topUps = 0 /\ clock = 0

Instalments == 1..Count

Threshold(k) ==
    IF k = 0 THEN 0
    ELSE IF k >= Count THEN TotalOwed
    ELSE (TotalOwed * k + Count - 1) \div Count

InstallmentsPaid(money) ==
    CHOOSE k \in 0..Count :
        /\ money >= Threshold(k)
        /\ k = Count \/ money < Threshold(k + 1)

DueAt(i) == i * Interval
IsDue(i) == clock >= DueAt(i)

ChainOverdue ==
    status = "active" /\ clock > DueAt(counted + 1) + Grace

Lower(a, b) == IF a <= b THEN a ELSE b

(* What a call to repay would draw, and whether it would go through.       *)
Drawn(amount) == Lower(amount, TotalOwed - repaid)
Simulated(amount) ==
    IF status # "active" THEN "would_revert"
    ELSE IF funds < Drawn(amount) THEN "insufficient_funds" ELSE "none"

RepayOnChain(amount) ==
    /\ Simulated(amount) = "none"
    /\ repaid' = repaid + Drawn(amount)
    /\ funds' = funds - Drawn(amount)
    /\ counted' = InstallmentsPaid(repaid')
    /\ status' = IF repaid' = TotalOwed THEN "repaid" ELSE status
    /\ UNCHANGED <<topUps, clock>>

(* Takes what there is; collateral and the booked loss are not seen here.  *)
LiquidateOnChain ==
    LET take == Lower(funds, TotalOwed - repaid)
    IN  /\ ChainOverdue
        /\ repaid' = repaid + take
        /\ funds' = funds - take
        /\ status' = "liquidated"
        /\ UNCHANGED <<counted, topUps, clock>>

(* What the borrower does: earn, and pay ahead of the keeper.              *)
BorrowerNext ==
    \/ \E x \in TopUps :
          /\ topUps < MaxTopUps /\ clock \in Paydays
          /\ funds' = funds + x /\ topUps' = topUps + 1
          /\ UNCHANGED <<repaid, counted, status, clock>>
    \/ \E x \in Payments : RepayOnChain(x)

Elapse ==
    /\ clock' = Lower(clock + 1, LastMoment)
    /\ UNCHANGED <<repaid, counted, status, funds, topUps>>

=============================================================================
