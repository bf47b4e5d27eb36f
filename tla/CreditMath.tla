----------------------------- MODULE CreditMath -----------------------------
(***************************************************************************)
(* The arithmetic of a stock-backed loan, as PolarisEngine.sol computes    *)
(* it: every division is Solidity's floor, in the order of the source.     *)
(* The scales (token, oracle and stablecoin decimals, the health factor's  *)
(* 1e18, the seconds of a year) are parameters.                            *)
(***************************************************************************)
EXTENDS Integers

CONSTANTS
    ShareUnit,      \* 10 ** decimals of the stock token
    PriceUnit,      \* 10 ** ORACLE_DECIMALS
    StableUnit,     \* 10 ** stableDecimals
    Wad,            \* 1e18, the scale of the health factor
    Year            \* 365 days, in the time unit of the instance

Positive == Nat \ {0}

ASSUME ScaleAssumption ==
    /\ ShareUnit \in Positive /\ PriceUnit \in Positive /\ StableUnit \in Positive
    /\ Wad \in Positive /\ Year \in Positive

Bps == 10000

(* The owner's parameters, with the bounds the setters enforce.            *)
RiskParams ==
    [maxLtvBps : Nat, closedMarketHaircutBps : Nat,
     liquidationThresholdBps : Nat, liquidationBonusBps : Nat]
FeeParams == [originationFeeBps : Nat, interestAprBps : Nat]

\* A slip: the ordering of ceiling and threshold is not enforced.
UnorderedRisk(risk) == risk.maxLtvBps # 0 /\ risk.liquidationThresholdBps <= Bps

ValidRisk(risk) ==
    /\ risk.maxLtvBps # 0 /\ risk.maxLtvBps < risk.liquidationThresholdBps
    /\ risk.liquidationThresholdBps <= Bps
    /\ risk.closedMarketHaircutBps < Bps
    /\ risk.liquidationBonusBps <= 2000

ValidFees(fees) == fees.originationFeeBps <= 500 /\ fees.interestAprBps <= 5000

CollateralValueOf(sh, usd) == ((sh * usd * StableUnit) \div ShareUnit) \div PriceUnit

EffectiveLtvBps(risk, marketOpen) ==
    IF marketOpen
    THEN risk.maxLtvBps
    ELSE (risk.maxLtvBps * (Bps - risk.closedMarketHaircutBps)) \div Bps

(* The ceiling on principal plus fee.                                      *)
Allowed(sh, usd, marketOpen, risk) ==
    (CollateralValueOf(sh, usd) * EffectiveLtvBps(risk, marketOpen)) \div Bps

FeeFor(principal, tenor, fees) ==
      (principal * fees.originationFeeBps) \div Bps
    + (principal * fees.interestAprBps * tenor) \div (Bps * Year)

(* The test openLoan makes before it writes a loan.                        *)
WithinCeiling(borrow, sh, usd, marketOpen, tenor, risk, fees) ==
    borrow + FeeFor(borrow, tenor, fees) <= Allowed(sh, usd, marketOpen, risk)

\* A slip: dividing before multiplying.
GuessFloorsFirst(allowed, tenor, fees) ==
    (allowed \div (Bps + fees.originationFeeBps + (fees.interestAprBps * tenor) \div Year)) * Bps

(* quote(): solve for the principal, then walk it back until the pair fits.*)
FirstGuess(allowed, tenor, fees) ==
    (allowed * Bps)
        \div (Bps + fees.originationFeeBps + (fees.interestAprBps * tenor) \div Year)

\* A slip: the guess is taken as it is.
NoWalk(first, allowed, tenor, fees) == first

WalkBack(first, allowed, tenor, fees) ==
    LET walk[m \in 0..first] ==
            IF m > 0 /\ m + FeeFor(m, tenor, fees) > allowed THEN walk[m-1] ELSE m
    IN  walk[first]

MaxBorrow(sh, usd, marketOpen, tenor, risk, fees) ==
    LET allowed == Allowed(sh, usd, marketOpen, risk)
    IN  WalkBack(FirstGuess(allowed, tenor, fees), allowed, tenor, fees)

HealthFactor(sh, usd, debt, risk) ==
    (CollateralValueOf(sh, usd) * risk.liquidationThresholdBps * Wad) \div (Bps * debt)

(* Shares worth the debt plus the liquidator's bonus.                      *)
SeizeValue(debt, risk) == (debt * (Bps + risk.liquidationBonusBps)) \div Bps

\* A slip: rounding the shares in the liquidator's favour.
SeizeRoundedUp(debt, usd, risk) ==
    (SeizeValue(debt, risk) * ShareUnit * PriceUnit) \div (usd * StableUnit) + 1

SharesToSeize(debt, usd, risk) ==
    (SeizeValue(debt, risk) * ShareUnit * PriceUnit) \div (usd * StableUnit)

=============================================================================
