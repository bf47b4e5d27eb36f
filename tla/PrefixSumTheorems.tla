------------------------- MODULE PrefixSumTheorems -------------------------
(***************************************************************************)
(* What a sum over 1..n does when one summand changes, when one is added,  *)
(* and how it bounds its summands.  Each fact is proved through the table  *)
(* of partial sums, which exists and is unique by the least-number         *)
(* principle.  At the end, the book with one more entry: an append as the  *)
(* function it is.                                                         *)
(***************************************************************************)
EXTENDS PrefixSums, Sequences, WellFoundedInduction, TLAPS

(* The table of the partial sums of c.                                     *)
IsPrefixSum(acc, c, n) ==
    /\ acc \in [0..n -> Int]
    /\ acc[0] = 0
    /\ \A i \in 1..n : acc[i] = acc[i-1] + c[i]

(* Every nonempty set of naturals has a least element.                     *)
LEMMA LeastNatural ==
    ASSUME NEW T \in SUBSET Nat, T # {}
    PROVE  \E x \in T : \A y \in T : x <= y
<1>1. IsWellFoundedOn(OpToRel(<, Nat), Nat)
    BY NatLessThanWellFounded
<1>2. PICK x \in T : \A y \in T : ~ (<<y, x>> \in OpToRel(<, Nat))
    BY <1>1, WFMin
<1>3. \A y \in T : ~ (y < x)
    BY <1>2 DEF OpToRel
<1> QED
    BY <1>3

(* A table of partial sums ends in the sum.                                *)
LEMMA TableEndsInSum ==
    ASSUME NEW n \in Nat, NEW c \in [1..n -> Int], NEW acc, IsPrefixSum(acc, c, n)
    PROVE  SumTo(c, n) = acc[n]
<1> DEFINE Eq(g) == g = [i \in 0..n |-> IF i = 0 THEN 0 ELSE g[i-1] + c[i]]
           s == CHOOSE g : Eq(g)
<1>1. Eq(acc)
    BY DEF IsPrefixSum
<1>2. Eq(s)
    BY <1>1
<1>3. SumTo(c, n) = s[n]
    BY DEF SumTo
<1> HIDE DEF s
<1> DEFINE T == {i \in 0..n : s[i] # acc[i]}
<1>4. T = {}
    <2> SUFFICES ASSUME T # {} PROVE FALSE
        OBVIOUS
    <2>1. T \in SUBSET Nat
        OBVIOUS
    <2> HIDE DEF T
    <2>2. PICK i \in T : \A j \in T : i <= j
        BY <2>1, LeastNatural
    <2>3. i \in 0..n /\ s[i] # acc[i]
        BY <2>2 DEF T
    <2>4. s[0] = 0 /\ acc[0] = 0
        BY <1>1, <1>2
    <2>5. i \in 1..n /\ i-1 \in 0..n /\ i-1 \notin T
        BY <2>2, <2>3, <2>4
    <2>6. s[i-1] = acc[i-1]
        BY <2>5 DEF T
    <2>7. s[i] = s[i-1] + c[i] /\ acc[i] = acc[i-1] + c[i]
        BY <2>5, <1>1, <1>2
    <2> QED
        BY <2>3, <2>6, <2>7
<1> QED
    BY <1>3, <1>4

(* Every c has a table.                                                    *)
LEMMA TableExists ==
    ASSUME NEW n \in Nat, NEW c \in [1..n -> Int]
    PROVE  \E acc : IsPrefixSum(acc, c, n)
<1> DEFINE Good(m) == \E acc : IsPrefixSum(acc, [i \in 1..m |-> c[i]], m)
           T == {m \in 0..n : ~Good(m)}
<1>1. T = {}
    <2> SUFFICES ASSUME T # {} PROVE FALSE
        OBVIOUS
    <2>1. T \in SUBSET Nat
        OBVIOUS
    <2>2. PICK m \in T : \A j \in T : m <= j
        <3> HIDE DEF T
        <3> QED BY <2>1, LeastNatural
    <2>3. Good(0)
        <3>1. IsPrefixSum([i \in 0..0 |-> 0], [i \in 1..0 |-> c[i]], 0)
            BY DEF IsPrefixSum
        <3> QED BY <3>1
    <2>4. m \in 0..n /\ ~Good(m)
        BY <2>2
    <2>5. m \in 1..n /\ m-1 \in 0..n /\ m-1 < m
        <3> HIDE DEF Good
        <3>1. m # 0
            BY <2>3, <2>4
        <3> QED BY <2>4, <3>1
    <2>6. m-1 \notin T
        <3> HIDE DEF T
        <3> QED BY <2>2, <2>5
    <2>7. Good(m-1)
        <3> HIDE DEF Good
        <3> QED BY <2>5, <2>6
    <2>8. PICK acc : IsPrefixSum(acc, [i \in 1..m-1 |-> c[i]], m-1)
        BY <2>7
    <2> DEFINE new == [i \in 0..m |-> IF i = m THEN acc[m-1] + c[m] ELSE acc[i]]
    <2>9. IsPrefixSum(new, [i \in 1..m |-> c[i]], m)
        <3>1. acc[m-1] \in Int /\ c[m] \in Int
            BY <2>5, <2>8 DEF IsPrefixSum
        <3>2. new \in [0..m -> Int]
            BY <2>5, <2>8, <3>1 DEF IsPrefixSum
        <3>3. new[0] = 0
            BY <2>5, <2>8 DEF IsPrefixSum
        <3>4. ASSUME NEW i \in 1..m
              PROVE  new[i] = new[i-1] + [j \in 1..m |-> c[j]][i]
            <4>1. CASE i = m
                BY <4>1, <2>5
            <4>2. CASE i # m
                <5>1. i \in 1..m-1 /\ i-1 \in 0..m-1
                    BY <4>2, <2>5
                <5>2. acc[i] = acc[i-1] + c[i]
                    BY <5>1, <2>8 DEF IsPrefixSum
                <5> QED BY <5>1, <5>2, <4>2, <2>5
            <4> QED BY <4>1, <4>2
        <3> QED BY <3>2, <3>3, <3>4 DEF IsPrefixSum
    <2> QED
        BY <2>4, <2>9
<1>2. Good(n)
    BY <1>1
<1>3. [i \in 1..n |-> c[i]] = c
    OBVIOUS
<1> QED
    BY <1>2, <1>3

(* The sum has a table, and is an integer.                                 *)
LEMMA SumTable ==
    ASSUME NEW n \in Nat, NEW c \in [1..n -> Int]
    PROVE  \E acc : IsPrefixSum(acc, c, n) /\ SumTo(c, n) = acc[n] /\ SumTo(c, n) \in Int
<1>1. PICK acc : IsPrefixSum(acc, c, n)
    BY TableExists
<1>2. SumTo(c, n) = acc[n]
    BY <1>1, TableEndsInSum
<1>3. acc[n] \in Int
    BY <1>1 DEF IsPrefixSum
<1> QED
    BY <1>1, <1>2, <1>3

(* No summands, no sum; the same for nothing but zeros.                    *)
LEMMA SumOfZeros ==
    ASSUME NEW n \in Nat, NEW c \in [1..n -> Int], \A i \in 1..n : c[i] = 0
    PROVE  SumTo(c, n) = 0
<1>1. IsPrefixSum([i \in 0..n |-> 0], c, n)
    BY DEF IsPrefixSum
<1> QED
    BY <1>1, TableEndsInSum

(* Changing the k-th summand changes the sum by as much.                   *)
LEMMA SumUpdate ==
    ASSUME NEW n \in Nat, NEW c \in [1..n -> Int], NEW d \in [1..n -> Int],
           NEW k \in 1..n, \A i \in 1..n : i # k => d[i] = c[i]
    PROVE  SumTo(d, n) = SumTo(c, n) + d[k] - c[k]
<1>1. PICK acc : IsPrefixSum(acc, c, n) /\ SumTo(c, n) = acc[n]
    BY SumTable
<1> DEFINE new == [i \in 0..n |-> IF i < k THEN acc[i] ELSE acc[i] + d[k] - c[k]]
<1>2. acc \in [0..n -> Int] /\ d[k] \in Int /\ c[k] \in Int
    BY <1>1 DEF IsPrefixSum
<1>3. IsPrefixSum(new, d, n)
    <2>1. new \in [0..n -> Int]
        BY <1>2
    <2>2. new[0] = 0
        BY <1>1 DEF IsPrefixSum
    <2>3. ASSUME NEW i \in 1..n PROVE new[i] = new[i-1] + d[i]
        <3>1. acc[i] = acc[i-1] + c[i] /\ i-1 \in 0..n /\ acc[i] \in Int /\ acc[i-1] \in Int
            BY <1>1, <1>2 DEF IsPrefixSum
        <3>2. CASE i < k
            BY <3>1, <3>2
        <3>3. CASE i = k
            BY <3>1, <3>3, <1>2
        <3>4. CASE i > k
            BY <3>1, <3>4, <1>2
        <3> QED BY <3>2, <3>3, <3>4
    <2> QED BY <2>1, <2>2, <2>3 DEF IsPrefixSum
<1>4. SumTo(d, n) = new[n]
    BY <1>3, TableEndsInSum
<1> QED
    BY <1>1, <1>4

(* One more summand adds itself.                                           *)
LEMMA SumExtend ==
    ASSUME NEW n \in Nat, NEW c \in [1..n -> Int], NEW d \in [1..(n+1) -> Int],
           \A i \in 1..n : d[i] = c[i]
    PROVE  SumTo(d, n+1) = SumTo(c, n) + d[n+1]
<1>1. PICK acc : IsPrefixSum(acc, c, n) /\ SumTo(c, n) = acc[n]
    BY SumTable
<1> DEFINE new == [i \in 0..(n+1) |-> IF i = n+1 THEN acc[n] + d[n+1] ELSE acc[i]]
<1>2. acc \in [0..n -> Int] /\ d[n+1] \in Int
    BY <1>1 DEF IsPrefixSum
<1>3. IsPrefixSum(new, d, n+1)
    <2>1. new \in [0..(n+1) -> Int]
        BY <1>2
    <2>2. new[0] = 0
        BY <1>1 DEF IsPrefixSum
    <2>3. ASSUME NEW i \in 1..(n+1) PROVE new[i] = new[i-1] + d[i]
        <3>1. CASE i = n+1
            BY <3>1
        <3>2. CASE i \in 1..n
            <4>1. acc[i] = acc[i-1] + c[i]
                BY <3>2, <1>1 DEF IsPrefixSum
            <4> QED BY <4>1, <3>2
        <3> QED BY <3>1, <3>2
    <2> QED BY <2>1, <2>2, <2>3 DEF IsPrefixSum
<1>4. SumTo(d, n+1) = new[n+1]
    BY <1>3, TableEndsInSum
<1> QED
    BY <1>1, <1>4

(* A sum of naturals is a natural, and no smaller than any summand.        *)
LEMMA SumBounds ==
    ASSUME NEW n \in Nat, NEW c \in [1..n -> Nat]
    PROVE  SumTo(c, n) \in Nat /\ \A k \in 1..n : c[k] <= SumTo(c, n)
<1>1. PICK acc : IsPrefixSum(acc, c, n) /\ SumTo(c, n) = acc[n]
    <2>1. c \in [1..n -> Int]
        OBVIOUS
    <2> QED BY <2>1, SumTable
<1>2. acc \in [0..n -> Int] /\ acc[0] = 0
    BY <1>1 DEF IsPrefixSum
<1>3. \A i \in 1..n : acc[i] = acc[i-1] + c[i] /\ acc[i] \in Int /\ acc[i-1] \in Int
    BY <1>1 DEF IsPrefixSum
<1>4. ASSUME NEW k \in 0..n PROVE acc[k] <= acc[n]
    <2> DEFINE T == {j \in k..n : acc[j] < acc[k]}
    <2>1. T = {}
        <3> SUFFICES ASSUME T # {} PROVE FALSE
            OBVIOUS
        <3>1. T \in SUBSET Nat
            OBVIOUS
        <3> HIDE DEF T
        <3>2. PICK j \in T : \A i \in T : j <= i
            BY <3>1, LeastNatural
        <3>3. j \in k..n /\ acc[j] < acc[k]
            BY <3>2 DEF T
        <3>4. j # k
            BY <3>3, <1>2
        <3>5. j-1 \in k..n /\ j-1 \notin T /\ j \in 1..n
            BY <3>2, <3>3, <3>4
        <3>6. ~(acc[j-1] < acc[k])
            BY <3>5 DEF T
        <3>7. acc[j] = acc[j-1] + c[j] /\ c[j] \in Nat /\ acc[j-1] \in Int /\ acc[k] \in Int
            BY <3>5, <1>3, <1>2
        <3> QED BY <3>3, <3>6, <3>7
    <2>2. n \notin T
        BY <2>1
    <2>3. ~(acc[n] < acc[k])
        BY <2>2
    <2> QED BY <2>3, <1>2
<1>5. 0 <= acc[n] /\ acc[n] \in Int
    BY <1>4, <1>2
<1>6. ASSUME NEW k \in 1..n PROVE c[k] <= acc[n]
    <2>1. acc[k] <= acc[n] /\ acc[k-1] <= acc[n]
        BY <1>4
    <2>2. 0 <= acc[k-1]
        <3> DEFINE T == {j \in 0..n : acc[j] < 0}
        <3>1. T = {}
            <4> SUFFICES ASSUME T # {} PROVE FALSE
                OBVIOUS
            <4>1. T \in SUBSET Nat
                OBVIOUS
            <4> HIDE DEF T
            <4>2. PICK j \in T : \A i \in T : j <= i
                BY <4>1, LeastNatural
            <4>3. j \in 0..n /\ acc[j] < 0
                BY <4>2 DEF T
            <4>4. j \in 1..n /\ j-1 \in 0..n /\ j-1 \notin T
                BY <4>2, <4>3, <1>2
            <4>5. ~(acc[j-1] < 0)
                BY <4>4 DEF T
            <4> QED BY <4>3, <4>4, <4>5, <1>3
        <3>2. k-1 \in 0..n /\ k-1 \notin T
            BY <3>1
        <3>3. ~(acc[k-1] < 0)
            BY <3>2
        <3> QED BY <3>3, <1>3
    <2> QED BY <2>1, <2>2, <1>3, <1>5
<1> QED
    BY <1>1, <1>5, <1>6

-----------------------------------------------------------------------------
(* A book with one more entry.                                             *)
LEMMA AppendIs ==
    ASSUME NEW S, NEW p \in Seq(S), NEW e \in S
    PROVE  Append(p, e) = [i \in 1..Len(p) + 1 |-> IF i = Len(p) + 1 THEN e ELSE p[i]]
<1>1. /\ Append(p, e) \in Seq(S) /\ Len(Append(p, e)) = Len(p) + 1 /\ Len(p) \in Nat
      /\ \A i \in 1..Len(p) : Append(p, e)[i] = p[i]
      /\ Append(p, e)[Len(p) + 1] = e
    OBVIOUS
<1> DEFINE r == Append(p, e)
<1>2. r = [i \in 1..Len(p) + 1 |-> r[i]]
    <2>1. \A x \in Seq(S) : x = [i \in 1..Len(x) |-> x[i]]
        OBVIOUS
    <2> HIDE DEF r
    <2> QED BY <1>1, <2>1 DEF r
<1>3. \A i \in 1..Len(p) + 1 : Append(p, e)[i] = IF i = Len(p) + 1 THEN e ELSE p[i]
    BY <1>1
<1> QED
    BY <1>2, <1>3

=============================================================================
