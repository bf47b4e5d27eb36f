------------------------ MODULE CreditMathTheorems ------------------------
(***************************************************************************)
(* What the engine's integer arithmetic guarantees for every scale, price, *)
(* amount and parameter: results stay natural numbers, and what openLoan   *)
(* accepts is above the liquidation threshold despite every floor.         *)
(***************************************************************************)
EXTENDS CreditMath, TLAPS

LEMMA ProductIsNatural ==
    ASSUME NEW a \in Nat, NEW b \in Nat
    PROVE  a * b \in Nat
OBVIOUS

LEMMA ProductIsPositive ==
    ASSUME NEW a \in Positive, NEW b \in Positive
    PROVE  a * b \in Positive
BY DEF Positive

LEMMA ProductIsMonotone ==
    ASSUME NEW a \in Nat, NEW b \in Nat, NEW c \in Nat, a <= b
    PROVE  a * c <= b * c
OBVIOUS

LEMMA QuotientIsNatural ==
    ASSUME NEW a \in Nat, NEW b \in Positive
    PROVE  a \div b \in Nat
BY DEF Positive

(* Solidity's division: the largest number that times b fits into a.       *)
LEMMA QuotientBounds ==
    ASSUME NEW a \in Nat, NEW b \in Positive
    PROVE  b * (a \div b) <= a /\ a < b * (a \div b) + b
BY DEF Positive

LEMMA QuotientAtLeast ==
    ASSUME NEW a \in Nat, NEW b \in Positive, NEW w \in Nat, w * b <= a
    PROVE  w <= a \div b
BY DEF Positive

-----------------------------------------------------------------------------
(* Results stay natural numbers.                                           *)

LEMMA BpsIsPositive == Bps \in Positive
BY DEF Bps, Positive

LEMMA CollateralIsNatural ==
    ASSUME NEW sh \in Nat, NEW usd \in Nat
    PROVE  CollateralValueOf(sh, usd) \in Nat
<1>1. sh * usd * StableUnit \in Nat
    BY ScaleAssumption, ProductIsNatural DEF Positive
<1>2. (sh * usd * StableUnit) \div ShareUnit \in Nat
    BY <1>1, ScaleAssumption, QuotientIsNatural
<1> QED
    BY <1>2, ScaleAssumption, QuotientIsNatural DEF CollateralValueOf

LEMMA FeeIsNatural ==
    ASSUME NEW amount \in Nat, NEW tenor \in Nat, NEW f \in FeeParams
    PROVE  FeeFor(amount, tenor, f) \in Nat
<1>1. f.originationFeeBps \in Nat /\ f.interestAprBps \in Nat
    BY DEF FeeParams
<1>2. amount * f.originationFeeBps \in Nat /\ amount * f.interestAprBps * tenor \in Nat
    BY <1>1, ProductIsNatural
<1>3. Bps * Year \in Positive
    BY ScaleAssumption, BpsIsPositive, ProductIsPositive
<1>4. /\ (amount * f.originationFeeBps) \div Bps \in Nat
      /\ (amount * f.interestAprBps * tenor) \div (Bps * Year) \in Nat
    BY <1>2, <1>3, BpsIsPositive, QuotientIsNatural
<1> QED
    BY <1>4 DEF FeeFor

LEMMA SeizeValueIsNatural ==
    ASSUME NEW debt \in Nat, NEW r \in RiskParams
    PROVE  /\ SeizeValue(debt, r) \in Nat
           /\ Bps * SeizeValue(debt, r) <= debt * (Bps + r.liquidationBonusBps)
<1>1. Bps + r.liquidationBonusBps \in Nat
    BY BpsIsPositive DEF RiskParams, Positive
<1>2. debt * (Bps + r.liquidationBonusBps) \in Nat
    BY <1>1, ProductIsNatural
<1> QED
    BY <1>2, BpsIsPositive, QuotientIsNatural, QuotientBounds DEF SeizeValue

LEMMA HealthIsNatural ==
    ASSUME NEW sh \in Nat, NEW usd \in Nat, NEW debt \in Positive, NEW r \in RiskParams
    PROVE  HealthFactor(sh, usd, debt, r) \in Nat
<1>1. r.liquidationThresholdBps \in Nat /\ Wad \in Nat
    BY ScaleAssumption DEF RiskParams, Positive
<1>2. CollateralValueOf(sh, usd) * r.liquidationThresholdBps * Wad \in Nat
    BY <1>1, CollateralIsNatural, ProductIsNatural
<1>3. Bps * debt \in Positive
    BY BpsIsPositive, ProductIsPositive
<1> QED
    BY <1>2, <1>3, QuotientIsNatural DEF HealthFactor

(* The shares seized are worth no more than the debt plus the bonus.       *)
LEMMA SeizureIsBounded ==
    ASSUME NEW debt \in Nat, NEW usd \in Positive, NEW r \in RiskParams
    PROVE  /\ SharesToSeize(debt, usd, r) \in Nat
           /\ (usd * StableUnit) * SharesToSeize(debt, usd, r)
                 <= SeizeValue(debt, r) * ShareUnit * PriceUnit
<1>1. SeizeValue(debt, r) * ShareUnit * PriceUnit \in Nat
    BY SeizeValueIsNatural, ScaleAssumption, ProductIsNatural DEF Positive
<1>2. usd * StableUnit \in Positive
    BY ScaleAssumption, ProductIsPositive
<1> QED
    BY <1>1, <1>2, QuotientIsNatural, QuotientBounds DEF SharesToSeize

LEMMA SeizureWorth ==
    ASSUME NEW debt \in Nat, NEW usd \in Positive, NEW r \in RiskParams,
           NEW n \in Nat, n <= SharesToSeize(debt, usd, r)
    PROVE  n * usd * StableUnit * Bps
             <= debt * (Bps + r.liquidationBonusBps) * ShareUnit * PriceUnit
<1> DEFINE a      == usd * StableUnit
           u      == ShareUnit * PriceUnit
           value  == SeizeValue(debt, r)
           full   == debt * (Bps + r.liquidationBonusBps)
           wanted == SharesToSeize(debt, usd, r)
<1>1. a \in Nat /\ u \in Nat /\ Bps \in Nat
    BY ScaleAssumption, ProductIsNatural DEF Positive, Bps
<1>2. value \in Nat /\ full \in Nat /\ value * Bps <= full
    <2>1. Bps + r.liquidationBonusBps \in Nat
        BY BpsIsPositive DEF RiskParams, Positive
    <2>2. value \in Nat /\ full \in Nat /\ Bps * value <= full
        BY <2>1, SeizeValueIsNatural, ProductIsNatural
    <2> HIDE DEF value, full
    <2> QED BY <2>2 DEF Bps
<1>3. wanted \in Nat /\ a * wanted <= value * u
    <2>1. wanted \in Nat /\ a * wanted <= value * ShareUnit * PriceUnit
        BY SeizureIsBounded
    <2>2. value * ShareUnit * PriceUnit = value * u
        BY <1>2, ScaleAssumption DEF Positive
    <2> QED BY <2>1, <2>2
<1> HIDE DEF a, u, value, wanted
<1>4. n * a <= value * u
    <2>1. n * a <= wanted * a /\ wanted * a = a * wanted
        BY <1>1, <1>3, ProductIsMonotone DEF wanted
    <2>2. n * a \in Nat /\ wanted * a \in Nat /\ value * u \in Nat
        BY <1>1, <1>2, <1>3, ProductIsNatural
    <2> QED BY <1>3, <2>1, <2>2
<1>5. (n * a) * Bps <= (value * u) * Bps
    BY <1>1, <1>2, <1>4, ProductIsNatural, ProductIsMonotone
<1>6. (value * Bps) * u <= full * u
    BY <1>1, <1>2, ProductIsNatural, ProductIsMonotone
<1>7. (n * a) * Bps <= full * u
    <2>1. (value * u) * Bps = (value * Bps) * u
        BY <1>1, <1>2
    <2>2. /\ (n * a) * Bps \in Nat /\ (value * u) * Bps \in Nat /\ full * u \in Nat
        BY <1>1, <1>2, ProductIsNatural
    <2> QED BY <1>5, <1>6, <2>1, <2>2
<1>8. n * usd * StableUnit * Bps = (n * a) * Bps
    BY ScaleAssumption DEF a, Positive
<1>9. full * ShareUnit * PriceUnit = full * u
    <2> HIDE DEF full
    <2> QED BY <1>2, ScaleAssumption DEF u, Positive
<1> QED
    BY <1>7, <1>8, <1>9

-----------------------------------------------------------------------------
(* The ceiling stays below the threshold, market open or closed.           *)
LEMMA CeilingBelowThreshold ==
    ASSUME NEW r \in RiskParams, ValidRisk(r), NEW open \in BOOLEAN
    PROVE  /\ EffectiveLtvBps(r, open) \in Nat
           /\ EffectiveLtvBps(r, open) <= r.liquidationThresholdBps
<1>1. /\ r.maxLtvBps \in Nat /\ r.closedMarketHaircutBps \in Nat
      /\ r.liquidationThresholdBps \in Nat
      /\ r.maxLtvBps < r.liquidationThresholdBps /\ r.closedMarketHaircutBps < Bps
    BY DEF RiskParams, ValidRisk
<1> DEFINE cut == Bps - r.closedMarketHaircutBps
           product == r.maxLtvBps * cut
<1>2. cut \in Nat /\ cut <= Bps
    BY <1>1, BpsIsPositive DEF Positive
<1> HIDE DEF cut
<1>3. product \in Nat /\ product <= Bps * r.maxLtvBps
    <2>1. product \in Nat
        BY <1>1, <1>2, ProductIsNatural
    <2>2. cut * r.maxLtvBps <= Bps * r.maxLtvBps
        BY <1>1, <1>2, BpsIsPositive, ProductIsMonotone DEF Positive
    <2>3. product = cut * r.maxLtvBps
        BY <1>1, <1>2
    <2> QED BY <2>1, <2>2, <2>3
<1> HIDE DEF product
<1>4. product \div Bps \in Nat /\ product \div Bps <= r.maxLtvBps
    <2> DEFINE q == product \div Bps
    <2>1. q \in Nat /\ Bps * q <= product
        BY <1>3, BpsIsPositive, QuotientIsNatural, QuotientBounds
    <2> HIDE DEF q
    <2>2. q <= r.maxLtvBps
        BY <1>1, <1>3, <2>1 DEF Bps
    <2> QED BY <2>1, <2>2 DEF q
<1>5. EffectiveLtvBps(r, open) = IF open THEN r.maxLtvBps ELSE product \div Bps
    BY DEF EffectiveLtvBps, product, cut
<1> QED
    BY <1>1, <1>4, <1>5

(* A debt that fits the ceiling has a health factor of at least one, at    *)
(* the price it was written at.                                            *)
LEMMA WithinAllowedIsHealthy ==
    ASSUME NEW r \in RiskParams, ValidRisk(r), NEW open \in BOOLEAN,
           NEW sh \in Nat, NEW usd \in Nat, NEW debt \in Positive,
           debt <= Allowed(sh, usd, open, r)
    PROVE  HealthFactor(sh, usd, debt, r) >= Wad
<1> DEFINE value == CollateralValueOf(sh, usd)
           e == EffectiveLtvBps(r, open)
           T == r.liquidationThresholdBps
<1>1. value \in Nat /\ e \in Nat /\ T \in Nat /\ e <= T
    BY CollateralIsNatural, CeilingBelowThreshold DEF RiskParams
<1>2. debt <= (value * e) \div Bps
    BY DEF Allowed
<1> HIDE DEF value, e, T
<1>3. value * e \in Nat /\ value * T \in Nat /\ value * e <= value * T
    <2>1. value * e \in Nat /\ value * T \in Nat
        BY <1>1, ProductIsNatural
    <2>2. e * value <= T * value
        BY <1>1, ProductIsMonotone
    <2>3. e * value = value * e /\ T * value = value * T
        BY <1>1
    <2> QED BY <2>1, <2>2, <2>3
<1>4. Bps * debt <= value * T /\ Bps * debt \in Positive
    <2>1. Bps * debt \in Positive
        BY BpsIsPositive, ProductIsPositive
    <2> DEFINE q == (value * e) \div Bps
    <2>2. q \in Nat /\ Bps * q <= value * e /\ debt <= q
        BY <1>2, <1>3, BpsIsPositive, QuotientBounds, QuotientIsNatural
    <2> HIDE DEF q
    <2> DEFINE ve == value * e
               vT == value * T
    <2>3. ve \in Nat /\ vT \in Nat /\ ve <= vT /\ Bps * q <= ve
        BY <1>3, <2>2
    <2> HIDE DEF ve, vT
    <2>4. Bps * debt <= vT
        BY <2>2, <2>3 DEF Bps, Positive
    <2> QED BY <2>1, <2>4 DEF vT
<1>5. Wad \in Nat
    BY ScaleAssumption DEF Positive
<1>6. Wad * (Bps * debt) <= value * T * Wad /\ value * T * Wad \in Nat
    <2>1. (Bps * debt) * Wad <= (value * T) * Wad
        BY <1>3, <1>4, <1>5, ProductIsMonotone DEF Positive
    <2>2. (value * T) * Wad \in Nat
        BY <1>3, <1>5, ProductIsNatural
    <2>3. (Bps * debt) * Wad = Wad * (Bps * debt)
        BY <1>4, <1>5 DEF Positive
    <2> QED BY <2>1, <2>2, <2>3
<1>7. Wad <= (value * T * Wad) \div (Bps * debt) /\ (value * T * Wad) \div (Bps * debt) \in Nat
    BY <1>4, <1>5, <1>6, QuotientAtLeast, QuotientIsNatural
<1> QED
    BY <1>5, <1>7 DEF HealthFactor, value, T

-----------------------------------------------------------------------------
(* The health factor climbs with the mark.                                 *)

LEMMA QuotientIsMonotone ==
    ASSUME NEW a \in Nat, NEW b \in Nat, NEW c \in Positive, a <= b
    PROVE  a \div c <= b \div c
<1> DEFINE q == a \div c
<1>1. q \in Nat /\ c * q <= a
    BY QuotientIsNatural, QuotientBounds
<1> HIDE DEF q
<1>2. q * c = c * q /\ q * c \in Nat
    BY <1>1 DEF Positive
<1>3. q <= b \div c
    BY <1>1, <1>2, QuotientAtLeast
<1> QED
    BY <1>3 DEF q

LEMMA CollateralClimbs ==
    ASSUME NEW sh \in Nat, NEW usd \in Nat, NEW more \in Nat, usd <= more
    PROVE  CollateralValueOf(sh, usd) <= CollateralValueOf(sh, more)
<1> DEFINE a == sh * usd * StableUnit
           b == sh * more * StableUnit
<1>1. a \in Nat /\ b \in Nat
    BY ScaleAssumption, ProductIsNatural DEF Positive
<1>2. a <= b
    <2>1. usd * sh <= more * sh /\ usd * sh = sh * usd /\ more * sh = sh * more
        BY ProductIsMonotone
    <2>2. sh * usd \in Nat /\ sh * more \in Nat /\ StableUnit \in Nat
        BY ScaleAssumption, ProductIsNatural DEF Positive
    <2> QED BY <2>1, <2>2, ProductIsMonotone
<1> HIDE DEF a, b
<1>3. /\ a \div ShareUnit \in Nat /\ b \div ShareUnit \in Nat
      /\ a \div ShareUnit <= b \div ShareUnit
    BY <1>1, <1>2, ScaleAssumption, QuotientIsNatural, QuotientIsMonotone
<1>4. (a \div ShareUnit) \div PriceUnit <= (b \div ShareUnit) \div PriceUnit
    BY <1>3, ScaleAssumption, QuotientIsMonotone
<1> QED
    BY <1>4 DEF CollateralValueOf, a, b

LEMMA HealthClimbs ==
    ASSUME NEW sh \in Nat, NEW usd \in Nat, NEW more \in Nat, usd <= more,
           NEW debt \in Positive, NEW r \in RiskParams
    PROVE  HealthFactor(sh, usd, debt, r) <= HealthFactor(sh, more, debt, r)
<1> DEFINE v == CollateralValueOf(sh, usd)
           w == CollateralValueOf(sh, more)
           k == r.liquidationThresholdBps
<1>1. v \in Nat /\ w \in Nat /\ v <= w /\ k \in Nat /\ Wad \in Nat
    BY CollateralIsNatural, CollateralClimbs, ScaleAssumption DEF RiskParams, Positive
<1> HIDE DEF v, w, k
<1>2. v * k \in Nat /\ w * k \in Nat /\ v * k <= w * k
    BY <1>1, ProductIsNatural, ProductIsMonotone
<1>3. v * k * Wad \in Nat /\ w * k * Wad \in Nat /\ v * k * Wad <= w * k * Wad
    BY <1>1, <1>2, ProductIsNatural, ProductIsMonotone
<1>4. Bps * debt \in Positive
    BY BpsIsPositive, ProductIsPositive
<1>5. (v * k * Wad) \div (Bps * debt) <= (w * k * Wad) \div (Bps * debt)
    BY <1>3, <1>4, QuotientIsMonotone
<1> QED
    BY <1>5 DEF HealthFactor, v, w, k

=============================================================================
