---------------------------- MODULE QuoteProofs ----------------------------
(***************************************************************************)
(* The number on the checkout's screen is one openLoan takes, and one that *)
(* cannot be liquidated at the print it was quoted at, for every scale,    *)
(* price, amount, tenor and parameter.                                     *)
(***************************************************************************)
EXTENDS Quote, PrefixSumTheorems, CreditMathTheorems

(* quote()'s loop, as a function of where it starts.                       *)
Fits(m, allowed, t, f) == m + FeeFor(m, t, f) <= allowed

IsWalk(w, first, allowed, t, f) ==
    w = [m \in 0..first |-> IF m > 0 /\ m + FeeFor(m, t, f) > allowed THEN w[m-1] ELSE m]

LEMMA NothingIsFree == ASSUME NEW t \in Nat, NEW f \in FeeParams PROVE FeeFor(0, t, f) = 0
<1>1. f.originationFeeBps \in Nat /\ f.interestAprBps \in Nat
    BY DEF FeeParams
<1>2. 0 * f.originationFeeBps = 0 /\ 0 * f.interestAprBps * t = 0
    BY <1>1
<1>3. Bps * Year \in Positive
    BY ScaleAssumption, BpsIsPositive, ProductIsPositive
<1>4. \A b \in Positive : 0 \div b = 0
    BY DEF Positive
<1> QED
    BY <1>2, <1>3, <1>4, BpsIsPositive DEF FeeFor

(* Wherever the loop starts, it ends at a principal that fits.             *)
LEMMA WalkEndsWhereItFits ==
    ASSUME NEW first \in Nat, NEW allowed \in Nat, NEW t \in Nat, NEW f \in FeeParams,
           NEW w, IsWalk(w, first, allowed, t, f), NEW m \in 0..first
    PROVE  w[m] \in 0..m /\ Fits(w[m], allowed, t, f)
<1> DEFINE Good(i) == w[i] \in 0..i /\ Fits(w[i], allowed, t, f)
           T == {i \in 0..first : ~Good(i)}
<1>1. \A i \in 0..first :
        w[i] = IF i > 0 /\ i + FeeFor(i, t, f) > allowed THEN w[i-1] ELSE i
    BY DEF IsWalk
<1>2. Good(0)
    <2>1. w[0] = 0
        BY <1>1
    <2> QED BY <2>1, NothingIsFree DEF Fits
<1>3. T = {}
    <2> SUFFICES ASSUME T # {} PROVE FALSE
        OBVIOUS
    <2>1. T \in SUBSET Nat
        OBVIOUS
    <2>2. PICK i \in T : \A j \in T : i <= j
        <3> HIDE DEF T
        <3> QED BY <2>1, LeastNatural
    <2>3. i \in 0..first /\ ~Good(i)
        BY <2>2
    <2>4. i \in Nat /\ i > 0 /\ i-1 \in 0..first /\ i-1 < i
        <3> HIDE DEF Good
        <3>1. i # 0
            BY <1>2, <2>3
        <3> QED BY <2>3, <3>1
    <2>5. Good(i-1)
        <3>1. i-1 \notin T
            <4> HIDE DEF T
            <4> QED BY <2>2, <2>4
        <3> HIDE DEF Good
        <3> QED BY <2>4, <3>1
    <2>6. FeeFor(i, t, f) \in Nat
        BY <2>4, FeeIsNatural
    <2>7. CASE i + FeeFor(i, t, f) > allowed
        <3>1. w[i] = w[i-1]
            BY <1>1, <2>3, <2>4, <2>7
        <3> QED BY <2>3, <2>4, <2>5, <3>1
    <2>8. CASE ~(i + FeeFor(i, t, f) > allowed)
        <3>1. w[i] = i
            BY <1>1, <2>3, <2>8
        <3> QED BY <2>3, <2>6, <2>8, <3>1 DEF Fits
    <2> QED BY <2>7, <2>8
<1> HIDE DEF Good
<1> QED
    BY <1>3 DEF Good

(* It passes over nothing that fits.                                       *)
LEMMA WalkPassesNothing ==
    ASSUME NEW first \in Nat, NEW allowed \in Nat, NEW t \in Nat, NEW f \in FeeParams,
           NEW w, IsWalk(w, first, allowed, t, f), NEW m \in 0..first
    PROVE  \A j \in (w[m] + 1)..m : ~Fits(j, allowed, t, f)
<1> DEFINE Good(i) == \A j \in (w[i] + 1)..i : ~Fits(j, allowed, t, f)
           T == {i \in 0..first : ~Good(i)}
<1>1. \A i \in 0..first :
        w[i] = IF i > 0 /\ i + FeeFor(i, t, f) > allowed THEN w[i-1] ELSE i
    BY DEF IsWalk
<1>2. \A i \in 0..first : w[i] \in 0..i
    BY WalkEndsWhereItFits
<1>3. T = {}
    <2> SUFFICES ASSUME T # {} PROVE FALSE
        OBVIOUS
    <2>1. T \in SUBSET Nat
        OBVIOUS
    <2>2. PICK i \in T : \A j \in T : i <= j
        <3> HIDE DEF T
        <3> QED BY <2>1, LeastNatural
    <2>3. i \in 0..first /\ ~Good(i)
        BY <2>2
    <2>4. PICK j \in (w[i] + 1)..i : Fits(j, allowed, t, f)
        BY <2>3
    <2>5. w[i] \in 0..i /\ j \in Nat /\ w[i] < j /\ j <= i /\ i > 0
        BY <1>2, <2>3, <2>4
    <2>6. i + FeeFor(i, t, f) > allowed /\ w[i] = w[i-1]
        BY <1>1, <2>3, <2>5
    <2>7. FeeFor(i, t, f) \in Nat
        <3>1. i \in Nat
            BY <2>3
        <3> QED BY <3>1, FeeIsNatural
    <2>8. j # i
        BY <2>3, <2>4, <2>6, <2>7 DEF Fits
    <2>9. i-1 \in 0..first /\ i-1 < i /\ j \in (w[i-1] + 1)..(i-1)
        BY <2>3, <2>5, <2>6, <2>8
    <2>10. i-1 \in T
        BY <2>4, <2>9
    <2>11. i \in Nat /\ i <= i-1
        <3> HIDE DEF T
        <3> QED BY <2>2, <2>3, <2>10
    <2> QED BY <2>11
<1> HIDE DEF Good
<1> QED
    BY <1>3 DEF Good

(* A larger principal costs a larger fee.                                  *)
LEMMA SmallerFits ==
    ASSUME NEW m \in Nat, NEW n \in Nat, m <= n, NEW allowed \in Nat, NEW t \in Nat,
           NEW f \in FeeParams, Fits(n, allowed, t, f)
    PROVE  Fits(m, allowed, t, f)
<1> DEFINE o == f.originationFeeBps
           a == f.interestAprBps
<1>1. o \in Nat /\ a \in Nat
    BY DEF FeeParams
<1> HIDE DEF o, a
<1>2. Bps * Year \in Positive
    BY ScaleAssumption, BpsIsPositive, ProductIsPositive
<1>3. m * o \in Nat /\ n * o \in Nat /\ m * o <= n * o
    BY <1>1, ProductIsNatural, ProductIsMonotone
<1>4. m * a \in Nat /\ n * a \in Nat /\ m * a <= n * a
    BY <1>1, ProductIsNatural, ProductIsMonotone
<1>5. m * a * t \in Nat /\ n * a * t \in Nat /\ m * a * t <= n * a * t
    BY <1>4, ProductIsNatural, ProductIsMonotone
<1>6. (m * o) \div Bps <= (n * o) \div Bps
    BY <1>3, BpsIsPositive, QuotientIsMonotone
<1>7. (m * a * t) \div (Bps * Year) <= (n * a * t) \div (Bps * Year)
    BY <1>2, <1>5, QuotientIsMonotone
<1>8. /\ (m * o) \div Bps \in Nat /\ (n * o) \div Bps \in Nat
      /\ (m * a * t) \div (Bps * Year) \in Nat /\ (n * a * t) \div (Bps * Year) \in Nat
    BY <1>2, <1>3, <1>5, BpsIsPositive, QuotientIsNatural
<1> DEFINE x == (m * o) \div Bps
           y == (n * o) \div Bps
           u == (m * a * t) \div (Bps * Year)
           v == (n * a * t) \div (Bps * Year)
<1>9. n + (y + v) <= allowed
    BY DEF Fits, FeeFor, o, a
<1>10. FeeFor(m, t, f) = x + u
    BY DEF FeeFor, o, a
<1> HIDE DEF x, y, u, v
<1>11. m + (x + u) <= allowed
    BY <1>6, <1>7, <1>8, <1>9 DEF x, y, u, v
<1> QED
    BY <1>10, <1>11 DEF Fits

(* The three floors of the fee and of the guess move it by less than three.*)
LEMMA GuessIsClose ==
    ASSUME NEW m \in Nat, NEW allowed \in Nat, NEW t \in Nat, NEW f \in FeeParams,
           Fits(m, allowed, t, f)
    PROVE  m < FirstGuess(allowed, t, f) + 3
<1> DEFINE o == f.originationFeeBps
           a == f.interestAprBps
           k == (a * t) \div Year
           d == Bps + o + k
           first == (allowed * Bps) \div d
           x == (m * o) \div Bps
           u == (m * a * t) \div (Bps * Year)
<1>1. o \in Nat /\ a \in Nat /\ Year \in Positive /\ Year \in Nat
    BY ScaleAssumption DEF FeeParams, Positive
<1> HIDE DEF o, a
<1>2. k \in Nat /\ Year * k <= a * t /\ a * t \in Nat
    BY <1>1, ProductIsNatural, QuotientIsNatural, QuotientBounds
<1> HIDE DEF k
<1>3. d \in Positive /\ Bps <= d /\ d = Bps + o + k
    BY <1>1, <1>2 DEF Bps, Positive
<1> HIDE DEF d
<1>4. first \in Nat /\ allowed * Bps < d * first + d
    <2>1. allowed * Bps \in Nat
        BY ProductIsNatural DEF Bps
    <2> QED BY <1>3, <2>1, QuotientIsNatural, QuotientBounds
<1> HIDE DEF first
<1>5. x \in Nat /\ m * o < Bps * x + Bps
    <2>1. m * o \in Nat
        BY <1>1, ProductIsNatural
    <2> QED BY <2>1, BpsIsPositive, QuotientIsNatural, QuotientBounds
<1> HIDE DEF x
<1>6. u \in Nat /\ m * k < Bps * u + Bps
    <2> DEFINE full == m * a * t
               scale == Bps * Year
               part == m * k
               cap == Bps * u + Bps
    <2>1. full \in Nat /\ scale \in Positive
        BY <1>1, ProductIsNatural, BpsIsPositive, ProductIsPositive
    <2>2. u \in Nat /\ full < scale * u + scale
        <3> HIDE DEF full, scale
        <3>1. full \div scale \in Nat /\ full < scale * (full \div scale) + scale
            BY <2>1, QuotientIsNatural, QuotientBounds
        <3>2. u = full \div scale
            BY DEF u, full, scale
        <3> QED BY <3>1, <3>2
    <2> HIDE DEF u
    <2>3. part \in Nat /\ cap \in Nat
        BY <1>2, <2>2, ProductIsNatural DEF Bps
    <2>4. part * Year <= full
        <3>1. (Year * k) * m <= (a * t) * m
            <4>1. Year * k \in Nat
                BY <1>1, <1>2, ProductIsNatural
            <4> QED BY <1>2, <4>1, ProductIsMonotone
        <3>2. (Year * k) * m = part * Year /\ (a * t) * m = full
            BY <1>1, <1>2
        <3> QED BY <3>1, <3>2
    <2>5. scale * u + scale = cap * Year
        BY <1>1, <2>2 DEF Bps
    <2>6. part * Year < cap * Year /\ part * Year \in Nat
        <3> HIDE DEF part, full, scale, cap
        <3>1. part * Year \in Nat /\ cap * Year \in Nat
            BY <1>1, <2>3, ProductIsNatural
        <3> QED BY <2>1, <2>2, <2>4, <2>5, <3>1
    <2> HIDE DEF part, cap
    <2>7. ASSUME cap <= part PROVE FALSE
        <3>1. cap * Year <= part * Year
            BY <1>1, <2>3, <2>7, ProductIsMonotone
        <3>2. cap * Year \in Nat
            BY <1>1, <2>3, ProductIsNatural
        <3> QED BY <2>6, <3>1, <3>2
    <2>8. part < cap
        BY <2>3, <2>7
    <2> QED BY <2>2, <2>8 DEF part, cap
<1>7. m + x + u <= allowed
    <2>1. m + (x + u) <= allowed
        BY DEF Fits, FeeFor, x, u, o, a
    <2> HIDE DEF u
    <2> QED BY <1>5, <1>6, <2>1
<1> HIDE DEF u
<1>8. m * d = Bps * m + m * o + m * k
    BY <1>1, <1>2, <1>3 DEF Bps
<1>9. m * d < allowed * Bps + 2 * Bps
    <2> DEFINE p == m * o
               q == m * k
    <2>1. p \in Nat /\ q \in Nat
        BY <1>1, <1>2, ProductIsNatural
    <2> HIDE DEF p, q
    <2>2. Bps * m + p + q < allowed * Bps + 2 * Bps
        BY <1>5, <1>6, <1>7, <2>1 DEF p, q, Bps
    <2> QED BY <1>8, <2>2 DEF p, q
<1>10. m * d < (first + 3) * d
    <2> DEFINE z == d * first
    <2>1. z \in Nat /\ (first + 3) * d = z + 3 * d /\ m * d \in Nat
        BY <1>3, <1>4 DEF Positive
    <2> HIDE DEF z
    <2>2. allowed * Bps < z + d
        BY <1>4 DEF z
    <2> DEFINE md == m * d
    <2> HIDE DEF md
    <2>3. md < z + 3 * d
        BY <1>3, <1>9, <2>1, <2>2 DEF md, Bps, Positive
    <2> QED BY <2>1, <2>3 DEF md
<1>11. ASSUME first + 3 <= m PROVE FALSE
    <2>1. (first + 3) * d <= m * d
        BY <1>3, <1>4, <1>11, ProductIsMonotone DEF Positive
    <2>2. (first + 3) * d \in Nat /\ m * d \in Nat
        BY <1>3, <1>4, ProductIsNatural DEF Positive
    <2> QED BY <1>10, <2>1, <2>2
<1>12. FirstGuess(allowed, t, f) = first
    BY DEF FirstGuess, first, d, k, o, a
<1> QED
    BY <1>4, <1>11, <1>12

(* The loop is a function: there is one for every start.                   *)
LEMMA WalkExists ==
    ASSUME NEW first \in Nat, NEW allowed, NEW t, NEW f
    PROVE  \E w : IsWalk(w, first, allowed, t, f)
<1> DEFINE Stuck(m) == m > 0 /\ m + FeeFor(m, t, f) > allowed
           Good(n) == \E w : IsWalk(w, n, allowed, t, f)
           T == {n \in 0..first : ~Good(n)}
<1>1. Good(0)
    <2>1. IsWalk([m \in 0..0 |-> 0], 0, allowed, t, f)
        BY DEF IsWalk
    <2> QED BY <2>1
<1>2. T = {}
    <2> SUFFICES ASSUME T # {} PROVE FALSE
        OBVIOUS
    <2>1. T \in SUBSET Nat
        OBVIOUS
    <2>2. PICK n \in T : \A j \in T : n <= j
        <3> HIDE DEF T
        <3> QED BY <2>1, LeastNatural
    <2>3. n \in 0..first /\ ~Good(n)
        BY <2>2
    <2>4. n \in Nat /\ n > 0 /\ n-1 \in 0..first /\ n-1 < n
        <3> HIDE DEF Good
        <3>1. n # 0
            BY <1>1, <2>3
        <3> QED BY <2>3, <3>1
    <2>5. Good(n-1)
        <3>1. n-1 \notin T
            <4> HIDE DEF T
            <4> QED BY <2>2, <2>4
        <3> HIDE DEF Good
        <3> QED BY <2>4, <3>1
    <2>6. PICK w : IsWalk(w, n-1, allowed, t, f)
        BY <2>5
    <2> HIDE DEF Stuck
    <2> DEFINE new == [m \in 0..n |-> IF m = n THEN (IF Stuck(n) THEN w[n-1] ELSE n) ELSE w[m]]
    <2>7. \A m \in 0..(n-1) : w[m] = IF Stuck(m) THEN w[m-1] ELSE m
        BY <2>6 DEF IsWalk, Stuck
    <2>8. ASSUME NEW m \in 0..n PROVE new[m] = IF Stuck(m) THEN new[m-1] ELSE m
        <3>1. Stuck(m) => m > 0
            BY DEF Stuck
        <3>2. CASE m = n
            BY <2>4, <3>2
        <3>3. CASE m # n
            <4>1. m \in 0..(n-1) /\ new[m] = w[m]
                BY <2>4, <3>3
            <4>2. Stuck(m) => m-1 \in 0..n /\ m-1 # n /\ new[m-1] = w[m-1]
                BY <2>4, <3>1, <4>1
            <4> QED BY <2>7, <4>1, <4>2
        <3> QED BY <3>2, <3>3
    <2>9. new = [m \in 0..n |-> IF Stuck(m) THEN new[m-1] ELSE m]
        <3>1. new = [m \in 0..n |-> new[m]]
            OBVIOUS
        <3> HIDE DEF new
        <3> QED BY <2>8, <3>1
    <2>10. IsWalk(new, n, allowed, t, f)
        <3> HIDE DEF new
        <3> QED BY <2>9 DEF IsWalk, Stuck
    <2> QED BY <2>3, <2>10
<1> HIDE DEF Good
<1> QED
    BY <1>2 DEF Good

-----------------------------------------------------------------------------
LEMMA AllowedIsNatural ==
    ASSUME NEW r \in RiskParams, ValidRisk(r), NEW open \in BOOLEAN, NEW n \in Nat, NEW p \in Nat
    PROVE  Allowed(n, p, open, r) \in Nat
<1>1. CollateralValueOf(n, p) * EffectiveLtvBps(r, open) \in Nat
    BY CollateralIsNatural, CeilingBelowThreshold, ProductIsNatural
<1> QED
    BY <1>1, BpsIsPositive, QuotientIsNatural DEF Allowed

(* The quote, with the fee it incurs, is under the ceiling, and no principal*)
(* three units larger is.                                                  *)
LEMMA QuoteFits ==
    ASSUME NEW r \in RiskParams, ValidRisk(r), NEW f \in FeeParams, NEW open \in BOOLEAN,
           NEW n \in Nat, NEW p \in Nat, NEW t \in Nat
    PROVE  /\ MaxBorrow(n, p, open, t, r, f) \in Nat
           /\ WithinCeiling(MaxBorrow(n, p, open, t, r, f), n, p, open, t, r, f)
           /\ \A m \in Nat : m >= MaxBorrow(n, p, open, t, r, f) + 3 =>
                 ~WithinCeiling(m, n, p, open, t, r, f)
<1> DEFINE allowed == Allowed(n, p, open, r)
           first   == FirstGuess(allowed, t, f)
           walk    == CHOOSE w : IsWalk(w, first, allowed, t, f)
<1>1. allowed \in Nat
    BY AllowedIsNatural
<1>2. f.originationFeeBps \in Nat /\ (f.interestAprBps * t) \div Year \in Nat
    <2>1. f.originationFeeBps \in Nat /\ f.interestAprBps \in Nat
        BY DEF FeeParams
    <2>2. f.interestAprBps * t \in Nat
        BY <2>1, ProductIsNatural
    <2> QED BY <2>1, <2>2, ScaleAssumption, QuotientIsNatural
<1>3. MaxBorrow(n, p, open, t, r, f) = walk[first]
    BY DEF MaxBorrow, WalkBack, IsWalk
<1> HIDE DEF allowed
<1>4. first \in Nat
    <2>1. /\ Bps + f.originationFeeBps + (f.interestAprBps * t) \div Year \in Positive
          /\ allowed * Bps \in Nat
        BY <1>1, <1>2, ProductIsNatural DEF Bps, Positive
    <2> QED BY <2>1, QuotientIsNatural DEF FirstGuess
<1>5. IsWalk(walk, first, allowed, t, f)
    <2> HIDE DEF first
    <2> QED BY <1>4, WalkExists
<1>6. \A m \in Nat : Fits(m, allowed, t, f) => m < first + 3
    BY <1>1, GuessIsClose
<1> HIDE DEF walk, first
<1>7. first \in 0..first
    BY <1>4
<1>8. walk[first] \in 0..first /\ Fits(walk[first], allowed, t, f)
    BY <1>1, <1>4, <1>5, <1>7, WalkEndsWhereItFits
<1>9. \A j \in (walk[first] + 1)..first : ~Fits(j, allowed, t, f)
    BY <1>1, <1>4, <1>5, <1>7, WalkPassesNothing
<1>10. ASSUME NEW m \in Nat, m >= walk[first] + 3, Fits(m, allowed, t, f)
       PROVE  FALSE
    <2>1. CASE walk[first] = first
        BY <1>4, <1>6, <1>10, <2>1
    <2>2. CASE walk[first] < first
        <3>1. walk[first] + 1 \in Nat /\ walk[first] + 1 <= m
            BY <1>4, <1>8, <1>10
        <3>2. Fits(walk[first] + 1, allowed, t, f)
            BY <1>1, <1>10, <3>1, SmallerFits
        <3>3. walk[first] + 1 \in (walk[first] + 1)..first
            BY <1>4, <1>8, <2>2
        <3> QED BY <1>9, <3>2, <3>3
    <2> QED BY <1>4, <1>8, <2>1, <2>2
<1>11. \A m : Fits(m, allowed, t, f) <=> WithinCeiling(m, n, p, open, t, r, f)
    BY DEF Fits, WithinCeiling, allowed
<1> QED
    BY <1>3, <1>4, <1>8, <1>10, <1>11

-----------------------------------------------------------------------------
LEMMA QuoteTypes == Spec => []TypeOK
<1>1. Init => TypeOK
    BY QuoteAssumption DEF Init, TypeOK
<1>2. TypeOK /\ [Next]_vars => TypeOK'
    <2> SUFFICES ASSUME TypeOK, [Next]_vars PROVE TypeOK'
        OBVIOUS
    <2>1. CASE Ask
        BY <2>1, QuoteAssumption DEF Ask, TypeOK
    <2>2. CASE MarkMoves
        BY <2>2, QuoteAssumption DEF MarkMoves, TypeOK
    <2>3. CASE SetRisk
        BY <2>3, QuoteAssumption DEF SetRisk, TypeOK
    <2>4. CASE SetFees
        BY <2>4, QuoteAssumption DEF SetFees, TypeOK
    <2>5. CASE UNCHANGED vars
        BY <2>5 DEF vars, TypeOK
    <2> QED BY <2>1, <2>2, <2>3, <2>4, <2>5 DEF Next
<1> QED
    BY <1>1, <1>2, PTL DEF Spec

(* The number quoted is always one the contract will accept.               *)
THEOREM QuotedIsAccepted == Spec => []QuoteIsAccepted
<1>1. TypeOK => QuoteIsAccepted
    BY QuoteFits DEF TypeOK, QuoteIsAccepted, Accepted, Quoted, Positive
<1> QED
    BY <1>1, QuoteTypes, PTL

(* A principal three units above the quote is never accepted: the quote    *)
(* is the largest one but for its own rounding.                            *)
THEOREM QuotedIsLargest == Spec => []QuoteIsMaximal
<1>1. ASSUME TypeOK PROVE QuoteIsMaximal
    <2>1. /\ sh \in Nat /\ usd \in Nat /\ tenor \in Nat /\ marketOpen \in BOOLEAN
          /\ risk \in RiskParams /\ ValidRisk(risk) /\ fees \in FeeParams
        BY <1>1 DEF TypeOK, Positive
    <2>2. /\ Quoted \in Nat
          /\ \A m \in Nat : m >= Quoted + 3 => ~Accepted(m)
        BY <2>1, QuoteFits DEF Quoted, Accepted
    <2>3. Ceiling \in Int
        BY <2>1, AllowedIsNatural DEF Ceiling
    <2> QED BY <2>2, <2>3 DEF QuoteIsMaximal
<1> QED
    BY <1>1, QuoteTypes, PTL

(* No principal the contract accepts, between the quote and the ceiling,   *)
(* is below the liquidation threshold at the same print.                   *)
THEOREM AcceptedStartsHealthy == Spec => []AcceptedIsHealthy
<1>1. ASSUME TypeOK PROVE AcceptedIsHealthy
    <2>1. SUFFICES ASSUME NEW borrow \in (Quoted..Ceiling) \ {0}, Accepted(borrow)
                   PROVE  HealthFactor(sh, usd, borrow + FeeFor(borrow, tenor, fees), risk) >= Wad
        BY DEF AcceptedIsHealthy
    <2>2. /\ sh \in Nat /\ usd \in Nat /\ tenor \in Nat /\ marketOpen \in BOOLEAN
          /\ risk \in RiskParams /\ ValidRisk(risk) /\ fees \in FeeParams
        BY <1>1 DEF TypeOK, Positive
    <2>3. borrow \in Positive
        <3>1. Quoted \in Nat
            BY <2>2, QuoteFits DEF Quoted
        <3> QED BY <3>1 DEF Positive
    <2>4. FeeFor(borrow, tenor, fees) \in Nat
        BY <2>2, <2>3, FeeIsNatural DEF Positive
    <2>5. borrow + FeeFor(borrow, tenor, fees) \in Positive
        BY <2>3, <2>4 DEF Positive
    <2>6. borrow + FeeFor(borrow, tenor, fees) <= Allowed(sh, usd, marketOpen, risk)
        BY <2>1 DEF Accepted, WithinCeiling
    <2> QED BY <2>2, <2>5, <2>6, WithinAllowedIsHealthy
<1> QED
    BY <1>1, QuoteTypes, PTL

=============================================================================
