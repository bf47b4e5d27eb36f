------------------------------- MODULE Quote -------------------------------
(***************************************************************************)
(* PolarisEngine.quote as a checkout uses it: the shopper picks shares and *)
(* a tenor, the mark moves and the owner changes parameters, and at any    *)
(* moment the number on the merchant's screen must be one openLoan takes.  *)
(***************************************************************************)
EXTENDS CreditMath

CONSTANTS ShareAmounts, Prices, Tenors, RiskChoices, FeeChoices

ASSUME QuoteAssumption ==
    /\ ShareAmounts \subseteq Nat /\ Prices \subseteq Positive /\ Tenors \subseteq Nat
    /\ RiskChoices \subseteq RiskParams /\ FeeChoices \subseteq FeeParams

VARIABLES
    sh, tenor,          \* what the shopper asks about
    usd, marketOpen,    \* the print quote() reads
    risk, fees          \* the owner's parameters

vars == <<sh, tenor, usd, marketOpen, risk, fees>>

TypeOK ==
    /\ sh \in Nat /\ tenor \in Nat /\ usd \in Positive /\ marketOpen \in BOOLEAN
    /\ risk \in RiskParams /\ ValidRisk(risk)
    /\ fees \in FeeParams /\ ValidFees(fees)

Init ==
    /\ sh \in ShareAmounts /\ tenor \in Tenors
    /\ usd \in Prices /\ marketOpen = TRUE
    /\ risk \in {r \in RiskChoices : ValidRisk(r)}
    /\ fees \in {f \in FeeChoices : ValidFees(f)}

Ask ==
    /\ sh' \in ShareAmounts /\ tenor' \in Tenors
    /\ UNCHANGED <<usd, marketOpen, risk, fees>>

MarkMoves ==
    /\ usd' \in Prices /\ marketOpen' \in BOOLEAN
    /\ UNCHANGED <<sh, tenor, risk, fees>>

SetRisk ==
    /\ \E new \in RiskChoices : ValidRisk(new) /\ risk' = new
    /\ UNCHANGED <<sh, tenor, usd, marketOpen, fees>>

SetFees ==
    /\ \E new \in FeeChoices : ValidFees(new) /\ fees' = new
    /\ UNCHANGED <<sh, tenor, usd, marketOpen, risk>>

Next == Ask \/ MarkMoves \/ SetRisk \/ SetFees

Spec == Init /\ [][Next]_vars

-----------------------------------------------------------------------------
Quoted == MaxBorrow(sh, usd, marketOpen, tenor, risk, fees)
Ceiling == Allowed(sh, usd, marketOpen, risk)
Accepted(borrow) == WithinCeiling(borrow, sh, usd, marketOpen, tenor, risk, fees)

(* quote(): "the number quoted is always one the contract will actually    *)
(* accept" -- principal and the fee it incurs fit the ceiling of openLoan. *)
QuoteIsAccepted == Accepted(Quoted)

(* quote() is "the largest borrowable principal" up to its own rounding: a *)
(* principal three units larger is never accepted, whatever the floors of  *)
(* the fee, of k and of the ceiling do.                                    *)
QuoteIsMaximal == \A borrow \in (Quoted + 3)..(Ceiling + 1) : ~Accepted(borrow)

(* No principal openLoan accepts is below the liquidation threshold at the *)
(* same print: setRiskParams' ordering of ceiling and threshold survives   *)
(* every rounding between Allowed and HealthFactor.  Health falls with the  *)
(* principal, so the largest ones, from the quote up, are the ones to try.  *)
AcceptedIsHealthy ==
    \A borrow \in (Quoted..Ceiling) \ {0} : Accepted(borrow) =>
        HealthFactor(sh, usd, borrow + FeeFor(borrow, tenor, fees), risk) >= Wad

=============================================================================
