-------------------------- MODULE CollectionProofs --------------------------
(***************************************************************************)
(* The collection job keeps its types, and charges an instalment a second  *)
(* time only after what ChargedAgainOnlyIf names, for every plan, ladder,  *)
(* life of the hub's records and number of faults.                         *)
(*                                                                         *)
(* The invariant follows the key.  Of an instalment that is not excused,   *)
(* the hub holds at most one charge that is open or went through, and it   *)
(* is under the key the next attempt would use.                            *)
(***************************************************************************)
EXTENDS Collection, FiniteSetTheorems, PrefixSumTheorems

Snap(past) == [attempts |-> past.attempts, kind |-> past.kind]

(* The number of the key an attempt would use after these.                 *)
NextKey(past) == IF IsIndefinite(past.kind) THEN past.attempts ELSE past.attempts + 1

InPass(i) == i \in DOMAIN queue
Open(i) == book.inst[i].state # "paid"
AtWork(i) == pc \in {"wait", "paid"} /\ i = Turn

(* Types, and what they need to be kept: a pass at work has an instalment  *)
(* left and took up none at the bound; nothing failed or was paid on no    *)
(* attempt, in the document or in what a sync recalls of it.               *)
PassShape ==
    /\ pc \in {"collect", "wait", "paid"} => DOMAIN queue # {}
    /\ DOMAIN queue # {} => pc \in {"collect", "wait", "paid", "escalate"}
    /\ \A i \in DOMAIN queue :
          /\ queue[i].attempts < MaxAttempts
          /\ queue[i].attempts = 0 => queue[i].kind = "none"

LadderShape ==
    \A i \in Instalments :
        book.inst[i].attempts = 0 =>
            book.inst[i].kind = "none" /\ book.inst[i].state = "scheduled"

CopyShape ==
    syncSeen.at = "document" =>
        \A i \in Instalments :
            syncSeen.inst[i].attempts = 0 =>
                syncSeen.inst[i].kind = "none" /\ syncSeen.inst[i].state = "scheduled"

Basis == TypeOK /\ PassShape /\ LadderShape /\ CopyShape

(* The charges for i the hub has open or done, and those done.             *)
Entry(i, n) == hub[ChargeKey(i, n)].state
Live(i) == {n \in 1..MaxAttempts : Entry(i, n) \in {"running", "completed"}}
Through(i) == {n \in 1..MaxAttempts : Entry(i, n) = "completed"}

(* All there is for i is under the key of the next attempt.                *)
Retried(i, past) ==
    /\ Live(i) \subseteq {NextKey(past)}
    /\ charged[i] = IF NextKey(past) \in Through(i) THEN 1 ELSE 0

(* Once the book says paid and no pass holds it, one charge at most.       *)
Settled(i) ==
    /\ charged[i] <= 1
    /\ \A n \in Live(i) \ Through(i) : charged[i] = 0 /\ Live(i) = {n}

Kept(i) ==
    /\ InPass(i) /\ Open(i) => Snap(book.inst[i]) = Snap(queue[i])
    /\ InPass(i) => Retried(i, queue[i])
    /\ ~InPass(i) /\ Open(i) => Retried(i, book.inst[i])
    /\ ~InPass(i) /\ ~Open(i) => Settled(i)
    /\ (InPass(i) \/ Open(i)) /\ Live(i) # {} => i \in unsure \/ AtWork(i)

(* What a sync recalled in dunning is what the book says, or lies behind   *)
(* an attempt recorded since: written back, it loses that attempt.         *)
Recalled(i) ==
    syncSeen.at = "document" /\ syncSeen.inst[i].state = "dunning" =>
        /\ InPass(i) => Open(i)
        /\ \/ Open(i) /\ Snap(syncSeen.inst[i]) = Snap(book.inst[i])
           \/ syncSeen.inst[i].attempts < book.inst[i].attempts

IInv == Basis /\ \A i \in Instalments \ excused : Kept(i) /\ Recalled(i)

-----------------------------------------------------------------------------
(* The numbers.                                                            *)

LEMMA QuotientIsMonotone ==
    ASSUME NEW a \in Nat, NEW b \in Nat, NEW c \in Nat \ {0}, a <= b
    PROVE  a \div c \in Nat /\ b \div c \in Nat /\ a \div c <= b \div c
<1> DEFINE q == a \div c
           r == b \div c
<1>1. q \in Nat /\ r \in Nat /\ c * q <= a /\ b < c * r + c
    OBVIOUS
<1> HIDE DEF q, r
<1>2. c * q < c * (r + 1)
    BY <1>1
<1>3. q < r + 1
    <2> SUFFICES ASSUME r + 1 <= q PROVE FALSE
        BY <1>1
    <2>1. c * (r + 1) <= c * q
        BY <1>1
    <2> QED
        BY <1>1, <1>2, <2>1
<1>4. q <= r
    BY <1>1, <1>3
<1> QED
    BY <1>1, <1>4 DEF q, r

(* A later instalment asks for no less in all.                             *)
LEMMA ThresholdsClimb ==
    ASSUME NEW k \in 1..Count
    PROVE  /\ Threshold(k - 1) \in Nat /\ Threshold(k) \in Nat
           /\ Threshold(k - 1) <= Threshold(k)
<1>0. Count \in Nat \ {0} /\ TotalOwed \in Nat \ {0}
    BY LoanAssumption
<1> DEFINE A(j) == TotalOwed * j + Count - 1
<1>1. ASSUME NEW j \in 0..Count PROVE A(j) \in Nat
    <2>1. TotalOwed * j \in Nat
        BY <1>0
    <2> QED
        BY <1>0, <2>1
<1>2. A(k - 1) <= A(k)
    BY <1>0
<1>3. /\ A(k-1) \div Count \in Nat /\ A(k) \div Count \in Nat
      /\ A(k-1) \div Count <= A(k) \div Count
    <2>1. A(k-1) \in Nat /\ A(k) \in Nat
        BY <1>0, <1>1
    <2> HIDE DEF A
    <2> QED
        BY <1>0, <1>2, <2>1, QuotientIsMonotone
<1>4. ASSUME k = Count PROVE A(k-1) \div Count <= TotalOwed
    <2>1. A(k-1) \in Nat /\ A(k-1) <= TotalOwed * Count + Count - 1
        BY <1>0, <1>1, <1>2, <1>4
    <2>2. TotalOwed * Count + Count - 1 \in Nat
        BY <1>0, <1>1
    <2>3. (TotalOwed * Count + Count - 1) \div Count <= TotalOwed
        <3> DEFINE q == (TotalOwed * Count + Count - 1) \div Count
        <3>1. q \in Nat /\ Count * q <= TotalOwed * Count + Count - 1
            BY <1>0, <2>2
        <3> HIDE DEF q
        <3>2. Count * q < Count * (TotalOwed + 1)
            BY <1>0, <3>1
        <3>3. ~(TotalOwed + 1 <= q)
            <4> SUFFICES ASSUME TotalOwed + 1 <= q PROVE FALSE
                OBVIOUS
            <4>1. Count * (TotalOwed + 1) <= Count * q
                BY <1>0, <3>1
            <4> QED
                BY <1>0, <3>1, <3>2, <4>1
        <3>4. q <= TotalOwed
            BY <1>0, <3>1, <3>3
        <3> QED
            BY <3>4 DEF q
    <2> DEFINE b == TotalOwed * Count + Count - 1
               a == A(k-1)
    <2>4. a \in Nat /\ b \in Nat /\ a <= b /\ b \div Count <= TotalOwed
        BY <2>1, <2>2, <2>3
    <2>5. a \div Count \in Nat /\ b \div Count \in Nat /\ a \div Count <= b \div Count
        <3> HIDE DEF a, b
        <3> QED
            BY <1>0, <2>4, QuotientIsMonotone
    <2>6. a \div Count <= TotalOwed
        <3> HIDE DEF a, b
        <3> QED
            BY <1>0, <2>4, <2>5
    <2> QED
        BY <2>6
<1>5. CASE k = Count
    <2>1. Threshold(k) = TotalOwed
        BY <1>0, <1>5 DEF Threshold
    <2>2. Threshold(k-1) = IF k - 1 = 0 THEN 0 ELSE A(k-1) \div Count
        BY <1>0, <1>5 DEF Threshold
    <2> HIDE DEF A
    <2> QED
        BY <1>0, <1>3, <1>4, <1>5, <2>1, <2>2
<1>6. CASE k # Count
    <2>1. Threshold(k) = A(k) \div Count
        BY <1>0, <1>6 DEF Threshold
    <2>2. Threshold(k-1) = IF k - 1 = 0 THEN 0 ELSE A(k-1) \div Count
        BY <1>0, <1>6 DEF Threshold
    <2> HIDE DEF A
    <2> QED
        BY <1>3, <2>1, <2>2
<1> QED
    BY <1>5, <1>6

LEMMA AmountIsNatural ==
    ASSUME NEW i \in Instalments
    PROVE  Amount(i) \in Nat
<1>1. /\ Threshold(i - 1) \in Nat /\ Threshold(i) \in Nat
      /\ Threshold(i - 1) <= Threshold(i)
    BY ThresholdsClimb DEF Instalments
<1> QED
    BY <1>1 DEF Amount

(* What a sum pays for is found: the first threshold it does not reach.    *)
LEMMA CountIsTyped ==
    ASSUME NEW money \in Nat
    PROVE  InstallmentsPaid(money) \in 0..Count
<1>0. Count \in Nat \ {0}
    BY LoanAssumption
<1> DEFINE T == {k \in 0..Count : k = Count \/ money < Threshold(k + 1)}
<1>1. T \in SUBSET Nat /\ T # {}
    BY <1>0
<1>2. PICK k \in T : \A j \in T : k <= j
    <2> HIDE DEF T
    <2> QED
        BY <1>1, LeastNatural
<1>3. k \in 0..Count /\ (k = Count \/ money < Threshold(k + 1))
    BY <1>2
<1>4. money >= Threshold(k)
    <2>1. CASE k = 0
        <3>1. Threshold(k) = 0
            BY <2>1 DEF Threshold
        <3> QED
            BY <3>1
    <2>2. CASE k # 0
        <3>1. k - 1 \in 0..Count /\ k - 1 # Count /\ (k - 1) + 1 = k
            BY <1>0, <1>3, <2>2
        <3>2. ~(k <= k - 1)
            BY <1>3
        <3>3. k - 1 \notin T
            BY <1>2, <3>2
        <3>4. ~(money < Threshold(k))
            BY <3>1, <3>3
        <3>5. Threshold(k) \in Nat
            BY <1>0, <1>3, <2>2, ThresholdsClimb
        <3> QED
            BY <3>4, <3>5
    <2> QED
        BY <2>1, <2>2
<1> QED
    BY <1>3, <1>4 DEF InstallmentsPaid

(* The ladder has a longest wait.                                          *)
LEMMA DelaysAreBounded ==
    /\ Longest \in Nat
    /\ \A n \in Rungs : Delays[n] \in 0..Longest
<1>0. Rungs = 1..Len(Delays) /\ Len(Delays) \in Nat \ {0} /\ \A n \in Rungs : Delays[n] \in Nat
    BY LadderAssumption DEF Rungs
<1> DEFINE Last == Len(Delays)
           Bounded(m) == \E u \in Nat : \A n \in 1..m : Delays[n] <= u
           T == {m \in 0..Last : ~Bounded(m)}
<1>1. T = {}
    <2> SUFFICES ASSUME T # {} PROVE FALSE
        OBVIOUS
    <2>1. T \in SUBSET Nat
        BY <1>0
    <2>2. PICK m \in T : \A j \in T : m <= j
        <3> HIDE DEF T
        <3> QED
            BY <2>1, LeastNatural
    <2>3. m \in 0..Last /\ ~Bounded(m)
        BY <2>2
    <2>4. Bounded(0)
        <3>1. \A n \in 1..0 : Delays[n] <= 0
            OBVIOUS
        <3> QED
            BY <3>1
    <2>5. m # 0
        BY <2>3, <2>4
    <2>6. m - 1 \in 0..Last /\ ~(m <= m - 1) /\ m \in Rungs
        BY <1>0, <2>3, <2>5
    <2>7. Bounded(m - 1)
        BY <2>2, <2>6
    <2>8. PICK u \in Nat : \A n \in 1..(m-1) : Delays[n] <= u
        BY <2>7
    <2>9. PICK v \in Nat : u <= v /\ Delays[m] <= v
        <3> DEFINE d == Delays[m]
        <3>1. u \in Nat /\ d \in Nat
            BY <1>0, <2>6, <2>8
        <3> HIDE DEF d
        <3>2. \E v \in Nat : u <= v /\ d <= v
            <4>1. u <= d \/ d <= u
                BY <3>1
            <4>2. u <= u /\ d <= d
                BY <3>1
            <4> QED
                BY <3>1, <4>1, <4>2, Zenon
        <3> QED
            BY <3>2 DEF d
    <2>10. \A n \in 1..m : Delays[n] <= v
        <3> SUFFICES ASSUME NEW n \in 1..m PROVE Delays[n] <= v
            OBVIOUS
        <3>1. CASE n = m
            BY <3>1, <2>9
        <3>2. CASE n # m
            <4>1. n \in 1..(m-1) /\ n \in Rungs
                BY <3>2, <2>3, <1>0
            <4>2. Delays[n] \in Nat /\ Delays[n] <= u
                BY <4>1, <1>0, <2>8
            <4>3. u \in Nat /\ v \in Nat /\ u <= v
                BY <2>8, <2>9
            <4> DEFINE d == Delays[n]
            <4> HIDE DEF d
            <4>4. d \in Nat /\ d <= u
                BY <4>2 DEF d
            <4>5. d <= v
                BY <4>3, <4>4
            <4> QED
                BY <4>5 DEF d
        <3> QED
            BY <3>1, <3>2
    <2> QED
        BY <2>3, <2>10
<1>2. Bounded(Last)
    <2>1. Last \in 0..Last
        BY <1>0
    <2>2. Last \notin T
        <3> HIDE DEF T
        <3> QED
            BY <1>1
    <2> QED
        BY <2>1, <2>2
<1> DEFINE U == {u \in Nat : \A n \in Rungs : Delays[n] <= u}
<1>3. U # {} /\ U \in SUBSET Nat
    BY <1>0, <1>2
<1>4. PICK u \in U : \A v \in U : u <= v
    <2> HIDE DEF U
    <2> QED
        BY <1>3, LeastNatural
<1>5. u \in Nat /\ \A n \in Rungs : Delays[n] <= u
    BY <1>4
<1> DEFINE S == {Delays[n] : n \in Rungs}
<1>6. u \in S
    <2> SUFFICES ASSUME u \notin S PROVE FALSE
        OBVIOUS
    <2>1. \A n \in Rungs : Delays[n] < u
        <3> SUFFICES ASSUME NEW n \in Rungs PROVE Delays[n] < u
            OBVIOUS
        <3>1. Delays[n] # u /\ Delays[n] \in Nat /\ Delays[n] <= u
            BY <1>0, <1>5
        <3> QED
            BY <1>5, <3>1
    <2>2. 1 \in Rungs /\ Delays[1] \in Nat
        BY <1>0
    <2>3. Delays[1] < u
        BY <2>1, <2>2
    <2>4. u - 1 \in Nat /\ ~(u <= u - 1)
        BY <1>5, <2>2, <2>3
    <2>5. \A n \in Rungs : Delays[n] <= u - 1
        <3> SUFFICES ASSUME NEW n \in Rungs PROVE Delays[n] <= u - 1
            OBVIOUS
        <3>1. Delays[n] \in Nat /\ Delays[n] < u
            BY <1>0, <2>1
        <3> QED
            BY <1>5, <3>1
    <2>6. u - 1 \in U
        BY <2>4, <2>5
    <2> QED
        BY <1>4, <2>4, <2>6
<1>7. \A d \in S : d <= u
    BY <1>5
<1>8. Longest \in S /\ \A d \in S : d <= Longest
    BY <1>6, <1>7 DEF Longest
<1> QED
    BY <1>0, <1>8

-----------------------------------------------------------------------------
(* The chain and the hub keep their types.                                 *)

LEMMA RepayTyped ==
    ASSUME ChainTypeOK, NEW amount \in Nat, RepayOnChain(amount)
    PROVE  ChainTypeOK'
<1>0. TotalOwed \in Nat
    BY LoanAssumption
<1>1. repaid \in 0..TotalOwed /\ funds \in Nat
    BY DEF ChainTypeOK
<1>2. Drawn(amount) \in 0..(TotalOwed - repaid) /\ Drawn(amount) <= funds
    <2>1. Drawn(amount) \in 0..(TotalOwed - repaid)
        BY <1>0, <1>1 DEF Drawn, Lower
    <2>2. ~(funds < Drawn(amount))
        BY DEF RepayOnChain, Simulated
    <2> QED
        BY <1>1, <2>1, <2>2
<1>3. repaid' \in 0..TotalOwed /\ funds' \in Nat
    <2> DEFINE d == Drawn(amount)
    <2>1. repaid' = repaid + d /\ funds' = funds - d
        BY DEF RepayOnChain
    <2>2. d \in 0..(TotalOwed - repaid) /\ d <= funds
        BY <1>2
    <2> HIDE DEF d
    <2> QED
        BY <1>0, <1>1, <2>1, <2>2
<1>4. counted' \in 0..Count
    BY <1>3, CountIsTyped DEF RepayOnChain
<1> QED
    BY <1>3, <1>4 DEF ChainTypeOK, RepayOnChain

LEMMA LiquidationTyped ==
    ASSUME ChainTypeOK, LiquidateOnChain
    PROVE  ChainTypeOK'
<1> DEFINE take == Lower(funds, TotalOwed - repaid)
<1>0. TotalOwed \in Nat /\ repaid \in 0..TotalOwed /\ funds \in Nat
    BY LoanAssumption DEF ChainTypeOK
<1>1. take \in 0..(TotalOwed - repaid) /\ take <= funds
    BY <1>0 DEF Lower
<1>2. repaid' = repaid + take /\ funds' = funds - take
    BY DEF LiquidateOnChain
<1> HIDE DEF take
<1>3. repaid' \in 0..TotalOwed /\ funds' \in Nat
    BY <1>0, <1>1, <1>2
<1> QED
    BY <1>3 DEF ChainTypeOK, LiquidateOnChain

LEMMA ElapseTyped ==
    ASSUME ChainTypeOK, Elapse
    PROVE  ChainTypeOK'
<1>0. Count \in Nat /\ Interval \in Nat /\ Grace \in Nat
    BY LoanAssumption
<1>1. Count * Interval \in Nat
    BY <1>0
<1>2. LastMoment \in Nat
    BY <1>0, <1>1 DEF LastMoment
<1>3. clock' \in 0..LastMoment
    BY <1>2 DEF ChainTypeOK, Elapse, Lower
<1> QED
    BY <1>3 DEF ChainTypeOK, Elapse

LEMMA BorrowerTyped ==
    ASSUME ChainTypeOK, BorrowerNext
    PROVE  ChainTypeOK'
<1>1. CASE \E x \in Payments : RepayOnChain(x)
    BY <1>1, RepayTyped, LoanAssumption
<1>2. CASE \E x \in TopUps :
                /\ topUps < MaxTopUps /\ clock \in Paydays
                /\ funds' = funds + x /\ topUps' = topUps + 1
                /\ UNCHANGED <<repaid, counted, status, clock>>
    <2>1. funds' \in Nat /\ topUps' \in 0..MaxTopUps
        BY <1>2, LoanAssumption DEF ChainTypeOK
    <2> QED
        BY <1>2, <2>1 DEF ChainTypeOK
<1> QED
    BY <1>1, <1>2 DEF BorrowerNext

LEMMA KeysAre ==
    /\ \A i \in Instalments, n \in 1..MaxAttempts : ChargeKey(i, n) \in Keys
    /\ LiquidationKey \in Keys
    /\ \A i \in Instalments : \A n : ChargeKey(i, n) # LiquidationKey
    /\ \A i, j, n, m : ChargeKey(i, n) = ChargeKey(j, m) <=> i = j /\ n = m
<1>1. \A i \in Instalments : i # 0
    BY LoanAssumption DEF Instalments
<1> QED
    BY <1>1, KeysAssumption DEF ChargeKey, LiquidationKey

LEMMA WrittenIs ==
    ASSUME HubTypeOK, NEW key \in Keys,
           NEW state \in {"running", "completed", "failed", "skipped"}
    PROVE  /\ Written(key, state) \in [Keys -> Record]
           /\ Written(key, state)[key].state = state
           /\ \A k \in Keys \ {key} : Written(key, state)[k] = hub[k]
<1>1. [state |-> state, age |-> 0] \in Record
    BY HubAssumption DEF Record
<1> QED
    BY <1>1 DEF HubTypeOK, Written

LEMMA FinishTyped ==
    ASSUME HubTypeOK, NEW key \in Keys, NEW goes \in BOOLEAN, Finish(key, goes)
    PROVE  HubTypeOK'
<1>1. (IF goes THEN "completed" ELSE "failed") \in {"running", "completed", "failed", "skipped"}
    OBVIOUS
<1>2. hub' \in [Keys -> Record]
    BY <1>1, WrittenIs DEF Finish
<1> QED
    BY <1>2 DEF Finish, HubTypeOK

LEMMA FaultTyped ==
    ASSUME HubTypeOK, Fault
    PROVE  HubTypeOK'
BY HubAssumption DEF HubTypeOK, Fault

LEMMA SpoiltTyped ==
    ASSUME HubTypeOK, NEW key \in Keys, SpoiltExecution(key)
    PROVE  HubTypeOK'
<1>1. hub' \in [Keys -> Record]
    BY WrittenIs DEF SpoiltExecution
<1>2. faults' \in 0..MaxFaults
    BY HubAssumption DEF HubTypeOK, SpoiltExecution
<1> QED
    BY <1>1, <1>2 DEF HubTypeOK

LEMMA AgedIs ==
    ASSUME NEW r \in Record
    PROVE  /\ Aged(r) \in Record
           /\ r.state = "running" => Aged(r) = r
           /\ Aged(r).state \in {r.state, "none"}
           /\ Aged(r).state = "none" /\ r.state # "none" => Aged(r) = Absent
<1>0. Ttl \in Nat \ {0} /\ r.age \in 0..Ttl
    BY HubAssumption DEF Record
<1>1. CASE r.state \in {"none", "running"}
    BY <1>1 DEF Aged
<1>2. CASE r.state \notin {"none", "running"} /\ r.age + 1 >= Ttl
    <2>1. Aged(r) = Absent
        BY <1>2 DEF Aged
    <2> QED
        BY <1>0, <1>2, <2>1 DEF Absent, Record
<1>3. CASE r.state \notin {"none", "running"} /\ ~(r.age + 1 >= Ttl)
    <2>1. Aged(r) = [r EXCEPT !.age = r.age + 1]
        BY <1>3 DEF Aged
    <2>2. r.age + 1 \in 0..Ttl
        BY <1>0, <1>3
    <2> QED
        BY <1>3, <2>1, <2>2 DEF Record
<1> QED
    BY <1>1, <1>2, <1>3

LEMMA AgeTyped ==
    ASSUME HubTypeOK, Age
    PROVE  HubTypeOK'
<1>1. \A k \in Keys : hub[k] \in Record
    BY DEF HubTypeOK
<1>2. \A k \in Keys : Aged(hub[k]) \in Record
    BY <1>1, AgedIs
<1> QED
    BY <1>2 DEF Age, HubTypeOK

-----------------------------------------------------------------------------
(* The pass and the book.                                                  *)

LEMMA TurnIsFirst ==
    ASSUME DOMAIN queue \subseteq Instalments, DOMAIN queue # {}
    PROVE  Turn \in DOMAIN queue
<1> DEFINE D == DOMAIN queue
<1>1. D \in SUBSET Nat /\ D # {}
    BY LoanAssumption DEF Instalments
<1>2. \E i \in D : \A j \in D : i <= j
    <2> HIDE DEF D
    <2> QED
        BY <1>1, LeastNatural
<1> QED
    BY <1>2 DEF Turn

LEMMA TurnIs ==
    ASSUME Basis, DOMAIN queue # {}
    PROVE  /\ Turn \in DOMAIN queue /\ Turn \in Instalments
           /\ Current \in Snapshot
           /\ Attempt \in 1..MaxAttempts /\ Current.attempts + 1 = Attempt
           /\ NextKey(Current) \in 1..MaxAttempts
           /\ Key = ChargeKey(Turn, NextKey(Current))
           /\ Key \in Keys
<1>1. Turn \in DOMAIN queue /\ Turn \in Instalments
    BY TurnIsFirst DEF Basis, TypeOK
<1>2. Current \in Snapshot
    BY <1>1 DEF Basis, TypeOK, Current
<1>3. Current.attempts < MaxAttempts /\ (Current.attempts = 0 => Current.kind = "none")
    BY <1>1 DEF Basis, PassShape, Current
<1>4. Attempt \in 1..MaxAttempts /\ NextKey(Current) \in 1..MaxAttempts
    <2>1. Current.attempts \in 0..MaxAttempts
        BY <1>2 DEF Snapshot
    <2> QED
        BY <1>3, <2>1, LadderAssumption DEF Attempt, NextKey, IsIndefinite, OutcomeOpen
<1>5. Key = ChargeKey(Turn, NextKey(Current))
    BY DEF Key, NextKey, Attempt
<1> QED
    BY <1>1, <1>2, <1>4, <1>5, KeysAre DEF Attempt

LEMMA BookIs ==
    ASSUME BookTypeOK, NEW i \in Instalments
    PROVE  /\ book.inst[i] \in Instalment
           /\ book.inst[i].state \in {"scheduled", "dunning", "paid"}
           /\ book.inst[i].attempts \in 0..MaxAttempts
           /\ book.inst[i].wait \in 0..Longest
           /\ book.inst[i].kind \in Kinds
BY DEF BookTypeOK, Instalment

(* The document as a failure leaves it.                                    *)
LEMMA AfterFailureIs ==
    ASSUME Basis, DOMAIN queue # {}, NEW kind \in Kinds
    PROVE  /\ AfterFailure(book.inst[Turn], kind) \in Instalment
           /\ AfterFailure(book.inst[Turn], kind).attempts = Attempt
           /\ AfterFailure(book.inst[Turn], kind).kind = kind
<1> DEFINE inst == book.inst[Turn]
<1>1. Turn \in Instalments /\ Attempt \in 1..MaxAttempts
    BY TurnIs
<1>2. inst \in [state : {"scheduled", "dunning", "paid"}, attempts : 0..MaxAttempts,
                wait : 0..Longest, kind : Kinds]
    BY <1>1, BookIs DEF Basis, TypeOK, Instalment
<1>3. MaxAttempts \in Nat
    BY LadderAssumption
<1> HIDE DEF inst
<1> DEFINE after == AfterFailure(inst, kind)
           Result == after \in Instalment /\ after.attempts = Attempt /\ after.kind = kind
<1>4. ASSUME Abandoned(kind) PROVE Result
    <2>1. after = [inst EXCEPT !.attempts = Attempt, !.kind = kind]
        BY <1>4 DEF AfterFailure
    <2> HIDE DEF after
    <2>2. after = [state |-> inst.state, attempts |-> Attempt, wait |-> inst.wait, kind |-> kind]
        BY <1>2, <2>1
    <2> QED
        BY <1>1, <1>2, <1>3, <2>2 DEF Instalment
<1>5. ASSUME ~Abandoned(kind), Exhausted PROVE Result
    <2>1. after = [inst EXCEPT !.state = "dunning", !.attempts = Attempt, !.kind = kind]
        BY <1>5 DEF AfterFailure
    <2> HIDE DEF after
    <2>2. after = [state |-> "dunning", attempts |-> Attempt, wait |-> inst.wait, kind |-> kind]
        BY <1>2, <2>1
    <2> QED
        BY <1>1, <1>2, <1>3, <2>2 DEF Instalment
<1>6. ASSUME ~Abandoned(kind), ~Exhausted PROVE Result
    <2>1. AfterFailure(inst, kind)
            = [state |-> "dunning", attempts |-> Attempt, kind |-> kind,
               wait |-> Delays[Attempt + 1]]
        BY <1>6 DEF AfterFailure
    <2>2. Delays[Attempt + 1] \in 0..Longest
        BY <1>6, DelaysAreBounded DEF Exhausted
    <2> QED
        BY <1>1, <1>3, <2>1, <2>2 DEF Instalment
<1> QED
    BY <1>4, <1>5, <1>6 DEF inst

LEMMA DroppedIs ==
    ASSUME Basis, DOMAIN queue # {}, queue' = Dropped, pc' \in {"escalate", Onward(Dropped)}
    PROVE  /\ DOMAIN queue' = DOMAIN queue \ {Turn}
           /\ \A i \in DOMAIN queue' : queue'[i] = queue[i]
           /\ queue' \in [DOMAIN queue' -> Snapshot] /\ DOMAIN queue' \subseteq Instalments
           /\ PassShape'
           /\ pc' \in {"collect", "escalate", "liquidate"}
<1>1. queue' = [i \in DOMAIN queue \ {Turn} |-> queue[i]]
    BY DEF Dropped
<1>2. /\ DOMAIN queue' = DOMAIN queue \ {Turn}
      /\ \A i \in DOMAIN queue' : queue'[i] = queue[i]
    BY <1>1
<1>3. queue \in [DOMAIN queue -> Snapshot] /\ DOMAIN queue \subseteq Instalments
    BY DEF Basis, TypeOK
<1>4. pc' = "escalate" \/ pc' = IF DOMAIN queue' = {} THEN "liquidate" ELSE "collect"
    BY DEF Onward
<1> QED
    BY <1>1, <1>2, <1>3, <1>4 DEF Basis, PassShape

LEMMA FailedIs ==
    ASSUME Basis, DOMAIN queue # {}, NEW kind \in Kinds, Failed(kind)
    PROVE  /\ BookTypeOK' /\ LadderShape'
           /\ book'.inst[Turn].attempts = Attempt /\ book'.inst[Turn].kind = kind
           /\ \A i \in Instalments \ {Turn} : book'.inst[i] = book.inst[i]
<1> DEFINE after == AfterFailure(book.inst[Turn], kind)
<1>1. Turn \in Instalments /\ Attempt \in 1..MaxAttempts
    BY TurnIs
<1>2. after \in Instalment /\ after.attempts = Attempt /\ after.kind = kind
    BY AfterFailureIs
<1>3. book' = [book EXCEPT !.inst[Turn] = after]
    BY DEF Failed
<1> HIDE DEF after
<1>4. book \in [inst : [Instalments -> Instalment], total : 0..TotalOwed,
                status : Statuses, candidate : BOOLEAN]
    BY DEF Basis, TypeOK, BookTypeOK
<1>6. book' \in [inst : [Instalments -> Instalment], total : 0..TotalOwed,
                 status : Statuses, candidate : BOOLEAN]
    BY <1>1, <1>2, <1>3, <1>4
<1>7. /\ book'.inst[Turn] = after
      /\ \A i \in Instalments \ {Turn} : book'.inst[i] = book.inst[i]
    BY <1>1, <1>3, <1>4
<1>8. LadderShape'
    <2>1. Attempt # 0
        BY <1>1
    <2> QED
        BY <1>1, <1>2, <1>7, <2>1 DEF Basis, LadderShape
<1>9. BookTypeOK'
    BY <1>6 DEF Failed, Basis, TypeOK, BookTypeOK
<1> QED
    BY <1>2, <1>7, <1>8, <1>9

-----------------------------------------------------------------------------
(* What the other writers leave of the document.                           *)

LEMMA RecordPaidIs ==
    ASSUME Basis, DOMAIN queue # {}, RecordPaid(Turn, Attempt, docSeen)
    PROVE  /\ BookTypeOK' /\ LadderShape'
           /\ book'.inst[Turn].state = "paid" /\ book'.inst[Turn].attempts = Attempt
           /\ \A i \in Instalments \ {Turn} : book'.inst[i] = book.inst[i]
<1> DEFINE total == RepaidAfterCollecting(docSeen.total, Turn)
           done  == [state |-> "paid", attempts |-> Attempt, wait |-> 0, kind |-> "none"]
           money == IF docSeen.state # "paid" /\ book.inst[Turn].state # "paid"
                    THEN total ELSE book.total
           now   == IF docSeen.state # "paid" /\ total >= TotalOwed THEN "repaid" ELSE book.status
<1>1. Turn \in Instalments /\ Attempt \in 1..MaxAttempts
    BY TurnIs
<1>2. TotalOwed \in Nat /\ MaxAttempts \in Nat /\ Longest \in Nat
    BY LoanAssumption, LadderAssumption, DelaysAreBounded
<1>3. total \in 0..TotalOwed
    <2>1. docSeen.total \in 0..TotalOwed
        BY DEF Basis, TypeOK
    <2>2. Amount(Turn) \in Nat
        BY <1>1, AmountIsNatural
    <2> QED
        BY <1>2, <2>1, <2>2 DEF RepaidAfterCollecting, Lower
<1>4. book \in [inst : [Instalments -> Instalment], total : 0..TotalOwed,
                status : Statuses, candidate : BOOLEAN]
    BY DEF Basis, TypeOK, BookTypeOK
<1>5. book' = [book EXCEPT !.inst[Turn] = done, !.total = money, !.status = now]
    BY DEF RecordPaid
<1>6. done \in Instalment
    BY <1>1, <1>2 DEF Instalment, Kinds
<1>7. money \in 0..TotalOwed /\ now \in Statuses
    BY <1>3, <1>4 DEF Statuses
<1>8. done.state = "paid" /\ done.attempts = Attempt
    OBVIOUS
<1> HIDE DEF done, money, now, total
<1>9. book' \in [inst : [Instalments -> Instalment], total : 0..TotalOwed,
                 status : Statuses, candidate : BOOLEAN]
    BY <1>1, <1>4, <1>5, <1>6, <1>7
<1>10. /\ book'.inst[Turn] = done
       /\ \A i \in Instalments \ {Turn} : book'.inst[i] = book.inst[i]
    BY <1>1, <1>4, <1>5
<1>11. LadderShape'
    <2>1. Attempt # 0
        BY <1>1
    <2> QED
        BY <1>8, <1>10, <2>1 DEF Basis, LadderShape
<1>12. BookTypeOK'
    BY <1>9 DEF RecordPaid, Basis, TypeOK, BookTypeOK
<1> QED
    BY <1>8, <1>10, <1>11, <1>12

LEMMA NothingReadTyped ==
    NothingRead \in [at : {"idle", "chain", "document"}, repaid : 0..TotalOwed,
                     counted : 0..Count, status : Statuses,
                     inst : [Instalments -> Instalment], candidate : BOOLEAN]
<1>1. Longest \in Nat /\ MaxAttempts \in Nat \ {0} /\ TotalOwed \in Nat /\ Count \in Nat
    BY DelaysAreBounded, LadderAssumption, LoanAssumption
<1>2. Scheduled \in Instalment
    BY <1>1 DEF Scheduled, Instalment, Kinds
<1>3. [i \in Instalments |-> Scheduled] \in [Instalments -> Instalment]
    BY <1>2
<1> QED
    BY <1>1, <1>3 DEF NothingRead, Statuses

LEMMA SyncReadTyped ==
    ASSUME ChainTypeOK, BookTypeOK, SyncRead
    PROVE  BookTypeOK' /\ syncSeen'.at = "chain"
<1>1. /\ repaid \in 0..TotalOwed /\ counted \in 0..Count /\ status \in Statuses
    BY DEF ChainTypeOK, Statuses
<1>2. syncSeen' = [syncSeen EXCEPT !.at = "chain", !.repaid = repaid,
                                   !.counted = counted, !.status = status]
    BY DEF SyncRead
<1>3. syncSeen \in [at : {"idle", "chain", "document"}, repaid : 0..TotalOwed,
                    counted : 0..Count, status : Statuses,
                    inst : [Instalments -> Instalment], candidate : BOOLEAN]
    BY DEF BookTypeOK
<1> QED
    BY <1>1, <1>2, <1>3 DEF SyncRead, BookTypeOK

LEMMA SyncRecallIs ==
    ASSUME BookTypeOK, SyncRecall
    PROVE  BookTypeOK' /\ book' = book /\ syncSeen'.inst = book.inst
<1>1. syncSeen' = [syncSeen EXCEPT !.at = "document", !.inst = book.inst,
                                   !.candidate = book.candidate]
    BY DEF SyncRecall
<1>2. syncSeen \in [at : {"idle", "chain", "document"}, repaid : 0..TotalOwed,
                    counted : 0..Count, status : Statuses,
                    inst : [Instalments -> Instalment], candidate : BOOLEAN]
    BY DEF BookTypeOK
<1>3. book.inst \in [Instalments -> Instalment] /\ book.candidate \in BOOLEAN
    BY DEF BookTypeOK
<1> QED
    BY <1>1, <1>2, <1>3 DEF SyncRecall, BookTypeOK

(* An instalment the sync leaves open is as it was recalled, or starts     *)
(* afresh.                                                                 *)
LEMMA SyncWriteIs ==
    ASSUME Basis, SyncWrite
    PROVE  /\ BookTypeOK' /\ LadderShape'
           /\ \A i \in Instalments :
                 book'.inst[i].state # "paid" =>
                    \/ /\ syncSeen.inst[i].state = "dunning"
                       /\ book'.inst[i] = syncSeen.inst[i]
                    \/ book'.inst[i].attempts = 0 /\ book'.inst[i].kind = "none"
<1> DEFINE inst == [i \in Instalments |-> Rebuilt(i)]
<1>1. syncSeen \in [at : {"idle", "chain", "document"}, repaid : 0..TotalOwed,
                    counted : 0..Count, status : Statuses,
                    inst : [Instalments -> Instalment], candidate : BOOLEAN]
    BY DEF Basis, TypeOK, BookTypeOK
<1>2. syncSeen.at = "document"
    BY DEF SyncWrite
<1>3. MaxAttempts \in Nat /\ Longest \in Nat /\ TotalOwed \in Nat
    BY LadderAssumption, DelaysAreBounded, LoanAssumption
<1>4. ASSUME NEW i \in Instalments
      PROVE  /\ Rebuilt(i) \in Instalment
             /\ Rebuilt(i).attempts = 0 => Rebuilt(i).kind = "none" /\ Rebuilt(i).state = "scheduled"
             /\ Rebuilt(i).state # "paid" =>
                   \/ syncSeen.inst[i].state = "dunning" /\ Rebuilt(i) = syncSeen.inst[i]
                   \/ Rebuilt(i).attempts = 0 /\ Rebuilt(i).kind = "none"
    <2>0. /\ syncSeen.inst[i] \in Instalment
          /\ syncSeen.inst[i].attempts = 0 =>
                syncSeen.inst[i].kind = "none" /\ syncSeen.inst[i].state = "scheduled"
        BY <1>1, <1>2 DEF Basis, CopyShape
    <2>1. CASE i <= syncSeen.counted
        <3>1. Rebuilt(i) = [state |-> "paid", attempts |-> 1, wait |-> 0, kind |-> "none"]
            BY <2>1 DEF Rebuilt
        <3>2. 1 \in 0..MaxAttempts
            BY LadderAssumption
        <3> QED
            BY <1>3, <3>1, <3>2 DEF Instalment, Kinds
    <2>2. CASE ~(i <= syncSeen.counted) /\ syncSeen.inst[i].state = "dunning"
        <3>1. Rebuilt(i) = syncSeen.inst[i]
            BY <2>2 DEF Rebuilt
        <3> QED
            BY <2>0, <2>2, <3>1
    <2>3. CASE ~(i <= syncSeen.counted) /\ syncSeen.inst[i].state # "dunning"
        <3>1. Rebuilt(i) = [state |-> "scheduled", attempts |-> 0, wait |-> 0, kind |-> "none"]
            BY <2>3 DEF Rebuilt, Scheduled
        <3> QED
            BY <1>3, <3>1 DEF Instalment, Kinds
    <2> QED
        BY <2>1, <2>2, <2>3
<1>5. book' = [inst |-> inst, total |-> syncSeen.repaid, status |-> syncSeen.status,
               candidate |-> syncSeen.candidate]
    BY DEF SyncWrite
<1>6. \A i \in Instalments : book'.inst[i] = Rebuilt(i)
    BY <1>5
<1>7. inst \in [Instalments -> Instalment]
    BY <1>4
<1> HIDE DEF inst
<1>8. book' \in [inst : [Instalments -> Instalment], total : 0..TotalOwed,
                 status : Statuses, candidate : BOOLEAN]
    BY <1>1, <1>5, <1>7
<1>9. syncSeen' = NothingRead
    BY DEF SyncWrite
<1>10. BookTypeOK'
    BY <1>8, <1>9, NothingReadTyped DEF BookTypeOK
<1>11. LadderShape'
    BY <1>4, <1>6 DEF LadderShape
<1> QED
    BY <1>4, <1>6, <1>10, <1>11

LEMMA CountdownIs ==
    ASSUME BookTypeOK, Countdown
    PROVE  /\ BookTypeOK'
           /\ \A i \in Instalments :
                 /\ book'.inst[i].state = book.inst[i].state
                 /\ book'.inst[i].attempts = book.inst[i].attempts
                 /\ book'.inst[i].kind = book.inst[i].kind
<1> DEFINE inst == [i \in Instalments |-> Closer(book.inst[i])]
<1>1. book \in [inst : [Instalments -> Instalment], total : 0..TotalOwed,
                status : Statuses, candidate : BOOLEAN]
    BY DEF BookTypeOK
<1>2. ASSUME NEW r \in Instalment
      PROVE  /\ Closer(r) \in Instalment
             /\ Closer(r).state = r.state /\ Closer(r).attempts = r.attempts /\ Closer(r).kind = r.kind
    <2> DEFINE w == IF r.wait = 0 THEN 0 ELSE r.wait - 1
    <2>1. w \in 0..Longest
        BY <1>2, DelaysAreBounded DEF Instalment
    <2>2. Closer(r) = [r EXCEPT !.wait = w]
        BY DEF Closer
    <2> HIDE DEF w
    <2> QED
        BY <1>2, <2>1, <2>2 DEF Instalment
<1>3. inst \in [Instalments -> Instalment]
    BY <1>1, <1>2
<1>4. book' = [book EXCEPT !.inst = inst]
    BY DEF Countdown
<1>5. \A i \in Instalments : inst[i] = Closer(book.inst[i])
    OBVIOUS
<1> HIDE DEF inst
<1>6. book' \in [inst : [Instalments -> Instalment], total : 0..TotalOwed,
                 status : Statuses, candidate : BOOLEAN]
    BY <1>1, <1>3, <1>4
<1>7. \A i \in Instalments : book'.inst[i] = Closer(book.inst[i])
    BY <1>1, <1>4, <1>5
<1>8. BookTypeOK'
    BY <1>6 DEF Countdown, BookTypeOK
<1> QED
    BY <1>1, <1>2, <1>7, <1>8

-----------------------------------------------------------------------------
(* The basis is kept.                                                      *)

LEMMA BasisInit ==
    ASSUME Init
    PROVE  Basis
<1>1. Longest \in Nat /\ MaxAttempts \in Nat \ {0} /\ TotalOwed \in Nat /\ Count \in Nat
    BY DelaysAreBounded, LadderAssumption, LoanAssumption
<1>2. LastMoment \in Nat
    <2>1. Count * Interval \in Nat
        BY <1>1, LoanAssumption
    <2> QED
        BY <2>1, LoanAssumption DEF LastMoment
<1>3. ChainTypeOK
    BY <1>1, <1>2, LoanAssumption DEF Init, ChainInit, ChainTypeOK
<1>4. HubTypeOK
    <2>1. Absent \in Record
        BY HubAssumption DEF Absent, Record
    <2> QED
        BY <2>1, HubAssumption DEF Init, HubInit, HubTypeOK
<1>5. BookTypeOK /\ LadderShape /\ CopyShape
    <2>1. Scheduled \in Instalment
        BY <1>1 DEF Scheduled, Instalment, Kinds
    <2>2. book = [inst |-> [i \in Instalments |-> Scheduled], total |-> 0,
                  status |-> "active", candidate |-> FALSE] /\ syncSeen = NothingRead
        BY DEF Init, BookInit
    <2>3. BookTypeOK
        <3>1. [i \in Instalments |-> Scheduled] \in [Instalments -> Instalment]
            BY <2>1
        <3> QED
            BY <1>1, <2>2, <3>1, NothingReadTyped DEF BookTypeOK, Statuses
    <2>4. CopyShape
        BY <2>2 DEF CopyShape, NothingRead
    <2> QED
        BY <2>2, <2>3, <2>4 DEF LadderShape, Scheduled
<1>6. queue = <<>> /\ DOMAIN queue = {}
    BY DEF Init
<1>7. PassShape
    BY <1>6 DEF Init, PassShape
<1>8. queue \in [DOMAIN queue -> Snapshot]
    BY <1>6
<1>9. docSeen \in [state : {"scheduled", "dunning", "paid"}, total : 0..TotalOwed]
    BY <1>1 DEF Init, NothingSeen
<1>10. charged \in [Instalments -> Nat]
    BY DEF Init
<1> QED
    BY <1>3, <1>4, <1>5, <1>6, <1>7, <1>8, <1>9, <1>10 DEF Basis, TypeOK, Init

LEMMA StartPassKeeps ==
    ASSUME Basis, StartPass
    PROVE  Basis'
<1> DEFINE due == {i \in Instalments : Collectable(i)}
           snaps == [i \in due |-> [attempts |-> book.inst[i].attempts, kind |-> book.inst[i].kind]]
<1>1. /\ queue' = snaps /\ pc' = (IF due = {} THEN "liquidate" ELSE "collect")
      /\ rested' = FALSE
      /\ \A i \in due : book.inst[i].attempts < MaxAttempts
    BY DEF StartPass
<1>2. \A i \in Instalments : book.inst[i].attempts \in 0..MaxAttempts /\ book.inst[i].kind \in Kinds
    BY BookIs DEF Basis, TypeOK
<1>3. DOMAIN snaps = due /\ due \subseteq Instalments /\ snaps \in [due -> Snapshot]
    BY <1>2 DEF Snapshot
<1>4. \A i \in due : snaps[i].attempts = book.inst[i].attempts /\ snaps[i].kind = book.inst[i].kind
    OBVIOUS
<1> HIDE DEF due, snaps
<1>5. PassShape'
    BY <1>1, <1>3, <1>4 DEF PassShape, Basis, LadderShape
<1>6. /\ queue' \in [DOMAIN queue' -> Snapshot] /\ DOMAIN queue' \subseteq Instalments
      /\ pc' \in {"collect", "liquidate"}
    BY <1>1, <1>3
<1>7. /\ UNCHANGED <<repaid, counted, status, funds, topUps, clock>>
      /\ UNCHANGED <<hub, faults, book, syncSeen, docSeen, charged, unsure, excused>>
    BY DEF StartPass, loanVars, hubVars, bookVars, historyVars
<1> QED
    BY <1>1, <1>5, <1>6, <1>7
    DEF Basis, TypeOK, LadderShape, CopyShape, ChainTypeOK, HubTypeOK, BookTypeOK

LEMMA AtWorkHasItem ==
    ASSUME Basis, pc \in {"collect", "wait", "paid"}
    PROVE  DOMAIN queue # {}
BY DEF Basis, PassShape

LEMMA RefusalIsNamed ==
    ASSUME NEW amount, Simulated(amount) # "none"
    PROVE  Simulated(amount) \in Kinds /\ Simulated(amount) # "none"
BY DEF Simulated, Kinds

(* The four ways an attempt fails share what they do to pass and book.     *)
LEMMA FailedKeeps ==
    ASSUME Basis, DOMAIN queue # {}, NEW kind \in Kinds, Failed(kind), HubTypeOK',
           unsure' \subseteq Instalments, excused' \subseteq Instalments
    PROVE  Basis'
<1>1. BookTypeOK' /\ LadderShape'
    BY FailedIs
<1>2. /\ queue' \in [DOMAIN queue' -> Snapshot] /\ DOMAIN queue' \subseteq Instalments
      /\ PassShape'
      /\ pc' \in {"collect", "escalate", "liquidate"}
    BY DroppedIs DEF Failed
<1>3. UNCHANGED <<repaid, counted, status, funds, topUps, clock, syncSeen, docSeen, rested, charged>>
    BY DEF Failed, loanVars
<1> QED
    BY <1>1, <1>2, <1>3 DEF Basis, TypeOK, ChainTypeOK, CopyShape

LEMMA RefusedKeeps ==
    ASSUME Basis, Refused
    PROVE  Basis'
<1> DEFINE kind == Simulated(Amount(Turn))
<1>1. DOMAIN queue # {} /\ Turn \in Instalments
    BY AtWorkHasItem, TurnIs DEF Refused
<1>2. kind \in Kinds /\ Failed(kind)
    BY RefusalIsNamed DEF Refused
<1> HIDE DEF kind
<1>3. HubTypeOK' /\ unsure' \subseteq Instalments /\ excused' \subseteq Instalments
    BY <1>1 DEF Refused, OnTop, hubVars, Basis, TypeOK, HubTypeOK
<1> QED
    BY <1>1, <1>2, <1>3, FailedKeeps

LEMMA UnreachableKeeps ==
    ASSUME Basis, Unreachable
    PROVE  Basis'
<1>1. DOMAIN queue # {} /\ Turn \in Instalments
    BY AtWorkHasItem, TurnIs DEF Unreachable
<1>2. PICK kind \in FaultKinds : Failed(kind) /\ OnTop(kind)
    BY DEF Unreachable
<1>3. kind \in Kinds
    BY <1>2 DEF Kinds
<1>4. HubTypeOK' /\ unsure' \subseteq Instalments /\ excused' \subseteq Instalments
    BY <1>1, <1>2, FaultTyped DEF Unreachable, OnTop, Basis, TypeOK
<1> QED
    BY <1>1, <1>2, <1>3, <1>4, FailedKeeps

LEMMA AnsweredFailedKeeps ==
    ASSUME Basis, AnsweredFailed
    PROVE  Basis'
<1>1. DOMAIN queue # {} /\ Turn \in Instalments
    BY AtWorkHasItem, TurnIs DEF AnsweredFailed
<1>2. "reverted" \in Kinds /\ Failed("reverted")
    BY DEF AnsweredFailed, Kinds
<1>3. HubTypeOK' /\ unsure' \subseteq Instalments /\ excused' \subseteq Instalments
    BY <1>1 DEF AnsweredFailed, hubVars, Basis, TypeOK, HubTypeOK
<1> QED
    BY <1>1, <1>2, <1>3, FailedKeeps

LEMMA UnansweredKeeps ==
    ASSUME Basis, Unanswered
    PROVE  Basis'
<1>1. DOMAIN queue # {} /\ Turn \in Instalments
    BY AtWorkHasItem, TurnIs DEF Unanswered
<1>2. PICK kind \in PollFaults :
          Failed(kind) /\ excused' = excused \cup {i \in {Turn} : KeyMoves(kind)}
    BY DEF Unanswered
<1>3. kind \in Kinds
    BY <1>2, PollAssumption DEF Kinds
<1>4. HubTypeOK' /\ unsure' \subseteq Instalments /\ excused' \subseteq Instalments
    BY <1>1, <1>2, FaultTyped DEF Unanswered, Basis, TypeOK
<1> QED
    BY <1>1, <1>2, <1>3, <1>4, FailedKeeps

LEMMA MarkLiquidationCandidateKeeps ==
    ASSUME Basis, MarkLiquidationCandidate
    PROVE  Basis'
<1>1. /\ UNCHANGED <<repaid, counted, status, funds, topUps, clock>>
      /\ UNCHANGED <<hub, faults, syncSeen, queue, docSeen, rested, charged, unsure, excused>>
      /\ book' = [book EXCEPT !.candidate = TRUE]
      /\ pc' = IF DOMAIN queue = {} THEN "liquidate" ELSE "collect"
    BY DEF MarkLiquidationCandidate, Onward, loanVars, hubVars, historyVars
<1>2. BookTypeOK' /\ book'.inst = book.inst
    <2>1. book \in [inst : [Instalments -> Instalment], total : 0..TotalOwed,
                    status : Statuses, candidate : BOOLEAN]
        BY DEF Basis, TypeOK, BookTypeOK
    <2>2. book' \in [inst : [Instalments -> Instalment], total : 0..TotalOwed,
                     status : Statuses, candidate : BOOLEAN] /\ book'.inst = book.inst
        BY <1>1, <2>1
    <2> QED
        BY <1>1, <2>2 DEF Basis, TypeOK, BookTypeOK
<1>3. PassShape'
    BY <1>1 DEF Basis, PassShape
<1>4. LadderShape' /\ CopyShape'
    BY <1>1, <1>2 DEF Basis, LadderShape, CopyShape
<1> QED
    BY <1>1, <1>2, <1>3, <1>4 DEF Basis, TypeOK, ChainTypeOK, HubTypeOK

LEMMA SendKeeps ==
    ASSUME Basis, Send
    PROVE  Basis'
<1>1. DOMAIN queue # {} /\ Key \in Keys
    BY AtWorkHasItem, TurnIs DEF Send
<1>2. hub' \in [Keys -> Record] /\ faults' = faults
    <2>1. Written(Key, "running") \in [Keys -> Record]
        BY <1>1, WrittenIs DEF Basis, TypeOK
    <2> QED
        BY <2>1 DEF Send, Submit, Basis, TypeOK, HubTypeOK
<1>3. HubTypeOK'
    BY <1>2 DEF Basis, TypeOK, HubTypeOK
<1>4. /\ UNCHANGED <<repaid, counted, status, funds, topUps, clock>>
      /\ UNCHANGED <<book, syncSeen, queue, docSeen, rested, charged, unsure, excused>>
      /\ pc = "collect" /\ pc' = "wait"
    BY DEF Send, loanVars, bookVars, historyVars
<1>5. PassShape'
    BY <1>4 DEF Basis, PassShape
<1> QED
    BY <1>3, <1>4, <1>5 DEF Basis, TypeOK, ChainTypeOK, BookTypeOK, LadderShape, CopyShape

LEMMA AnsweredPaidKeeps ==
    ASSUME Basis, AnsweredPaid
    PROVE  Basis'
<1>1. Turn \in Instalments
    BY AtWorkHasItem, TurnIs DEF AnsweredPaid
<1>2. /\ UNCHANGED <<repaid, counted, status, funds, topUps, clock>>
      /\ UNCHANGED <<hub, faults, book, syncSeen, queue, rested, charged, unsure, excused>>
      /\ pc = "wait" /\ pc' = "paid"
      /\ docSeen' = [state |-> book.inst[Turn].state, total |-> book.total]
    BY DEF AnsweredPaid, loanVars, hubVars, bookVars, historyVars
<1>3. docSeen' \in [state : {"scheduled", "dunning", "paid"}, total : 0..TotalOwed]
    <2>1. book.inst[Turn].state \in {"scheduled", "dunning", "paid"}
        BY <1>1, BookIs DEF Basis, TypeOK
    <2>2. book.total \in 0..TotalOwed
        BY DEF Basis, TypeOK, BookTypeOK
    <2> QED
        BY <1>2, <2>1, <2>2
<1>4. PassShape'
    BY <1>2 DEF Basis, PassShape
<1> QED
    BY <1>2, <1>3, <1>4 DEF Basis, TypeOK, ChainTypeOK, HubTypeOK, BookTypeOK, LadderShape, CopyShape

LEMMA WritePaidKeeps ==
    ASSUME Basis, WritePaid
    PROVE  Basis'
<1>1. DOMAIN queue # {}
    BY AtWorkHasItem DEF WritePaid
<1>2. BookTypeOK' /\ LadderShape'
    BY <1>1, RecordPaidIs DEF WritePaid
<1>3. /\ queue' \in [DOMAIN queue' -> Snapshot] /\ DOMAIN queue' \subseteq Instalments
      /\ PassShape'
      /\ pc' \in {"collect", "escalate", "liquidate"}
    BY <1>1, DroppedIs DEF WritePaid
<1>4. /\ UNCHANGED <<repaid, counted, status, funds, topUps, clock>>
      /\ UNCHANGED <<hub, faults, syncSeen, rested, charged, excused>>
      /\ docSeen' = NothingSeen /\ unsure' = unsure \ {Turn}
    BY DEF WritePaid, RecordPaid, loanVars, hubVars
<1>5. docSeen' \in [state : {"scheduled", "dunning", "paid"}, total : 0..TotalOwed]
    BY <1>4, LoanAssumption DEF NothingSeen
<1> QED
    BY <1>2, <1>3, <1>4, <1>5 DEF Basis, TypeOK, ChainTypeOK, HubTypeOK, CopyShape

LEMMA PassEndsKeeps ==
    ASSUME Basis, pc = "liquidate", PassEnds, ChainTypeOK', HubTypeOK'
    PROVE  Basis'
<1>1. UNCHANGED <<book, syncSeen, queue, docSeen, rested, charged, unsure, excused>> /\ pc' = "sleep"
    BY DEF PassEnds, bookVars, historyVars
<1>2. PassShape'
    BY <1>1 DEF Basis, PassShape
<1> QED
    BY <1>1, <1>2 DEF Basis, TypeOK, BookTypeOK, LadderShape, CopyShape

LEMMA LiquidateKeeps ==
    ASSUME Basis, LiquidateIfUnhealthy
    PROVE  Basis'
<1>0. pc = "liquidate" /\ PassEnds /\ ChainTypeOK /\ HubTypeOK
    BY DEF LiquidateIfUnhealthy, Basis, TypeOK
<1>1. CASE Known(LiquidationKey) /\ UNCHANGED <<loanVars, hubVars>>
    <2>1. ChainTypeOK' /\ HubTypeOK'
        BY <1>0, <1>1 DEF loanVars, hubVars, ChainTypeOK, HubTypeOK
    <2> QED
        BY <1>0, <2>1, PassEndsKeeps
<1>2. CASE /\ CheckAndExecute(LiquidationKey, ChainOverdue, ChainOverdue)
           /\ IF ChainOverdue THEN LiquidateOnChain ELSE UNCHANGED loanVars
    <2>1. ChainTypeOK'
        BY <1>0, <1>2, LiquidationTyped DEF loanVars, ChainTypeOK
    <2>2. hub' \in [Keys -> Record] /\ faults' = faults
        <3> DEFINE s == IF ~ChainOverdue THEN "skipped"
                        ELSE IF ChainOverdue THEN "completed" ELSE "failed"
        <3>1. s \in {"running", "completed", "failed", "skipped"}
            OBVIOUS
        <3>2. hub' = Written(LiquidationKey, s) /\ faults' = faults
            BY <1>2 DEF CheckAndExecute
        <3> HIDE DEF s
        <3> QED
            BY <1>0, <3>1, <3>2, WrittenIs, KeysAre
    <2>3. HubTypeOK'
        BY <1>0, <2>2 DEF HubTypeOK
    <2> QED
        BY <1>0, <2>1, <2>3, PassEndsKeeps
<1>3. CASE Fault /\ UNCHANGED loanVars
    <2>1. ChainTypeOK' /\ HubTypeOK'
        BY <1>0, <1>3, FaultTyped DEF loanVars, ChainTypeOK
    <2> QED
        BY <1>0, <2>1, PassEndsKeeps
<1>4. CASE ChainOverdue /\ SpoiltExecution(LiquidationKey) /\ UNCHANGED loanVars
    <2>1. ChainTypeOK' /\ HubTypeOK'
        BY <1>0, <1>4, SpoiltTyped, KeysAre DEF loanVars, ChainTypeOK
    <2> QED
        BY <1>0, <2>1, PassEndsKeeps
<1> QED
    BY <1>1, <1>2, <1>3, <1>4 DEF LiquidateIfUnhealthy

LEMMA NoCandidateKeeps ==
    ASSUME Basis, NoCandidate
    PROVE  Basis'
<1>1. ChainTypeOK' /\ HubTypeOK'
    BY DEF NoCandidate, loanVars, hubVars, Basis, TypeOK, ChainTypeOK, HubTypeOK
<1> QED
    BY <1>1, PassEndsKeeps DEF NoCandidate

LEMMA CrashKeeps ==
    ASSUME Basis, Crash
    PROVE  Basis'
<1>1. /\ UNCHANGED <<repaid, counted, status, funds, topUps, clock>>
      /\ UNCHANGED <<book, syncSeen, charged, excused>>
      /\ pc' = "sleep" /\ queue' = <<>> /\ docSeen' = NothingSeen /\ rested' = TRUE
    BY DEF Crash, loanVars, bookVars
<1>2. HubTypeOK'
    BY FaultTyped DEF Crash, Basis, TypeOK
<1>3. DOMAIN queue' = {} /\ queue' \in [DOMAIN queue' -> Snapshot]
    BY <1>1
<1>4. PassShape'
    BY <1>1, <1>3 DEF PassShape
<1>5. docSeen' \in [state : {"scheduled", "dunning", "paid"}, total : 0..TotalOwed]
    BY <1>1, LoanAssumption DEF NothingSeen
<1>6. unsure' \subseteq Instalments
    <2>1. CASE pc \in {"wait", "paid"}
        BY <2>1, AtWorkHasItem, TurnIs DEF Crash, Basis, TypeOK
    <2>2. CASE pc \notin {"wait", "paid"}
        BY <2>2 DEF Crash, Basis, TypeOK
    <2> QED
        BY <2>1, <2>2
<1> QED
    BY <1>1, <1>2, <1>3, <1>4, <1>5, <1>6
    DEF Basis, TypeOK, ChainTypeOK, BookTypeOK, LadderShape, CopyShape

LEMMA ExecuteKeeps ==
    ASSUME Basis, Execute
    PROVE  Basis'
<1>1. PICK i \in Instalments, n \in 1..MaxAttempts :
          /\ Finish(ChargeKey(i, n), Simulated(Amount(i)) = "none")
          /\ IF Simulated(Amount(i)) = "none"
             THEN RepayOnChain(Amount(i)) /\ charged' = [charged EXCEPT ![i] = @ + 1]
             ELSE UNCHANGED <<loanVars, charged>>
          /\ UNCHANGED <<bookVars, keeperVars, unsure, excused>>
    BY DEF Execute
<1>2. HubTypeOK'
    <2>1. ChargeKey(i, n) \in Keys
        BY KeysAre
    <2>2. (Simulated(Amount(i)) = "none") \in BOOLEAN
        OBVIOUS
    <2> QED
        BY <1>1, <2>1, <2>2, FinishTyped DEF Basis, TypeOK
<1>3. ChainTypeOK' /\ charged' \in [Instalments -> Nat]
    BY <1>1, RepayTyped, AmountIsNatural DEF Basis, TypeOK, loanVars, ChainTypeOK
<1>4. UNCHANGED <<book, syncSeen, pc, queue, docSeen, rested, unsure, excused>>
    BY <1>1 DEF bookVars, keeperVars
<1>5. PassShape'
    BY <1>4 DEF Basis, PassShape
<1> QED
    BY <1>2, <1>3, <1>4, <1>5 DEF Basis, TypeOK, BookTypeOK, LadderShape, CopyShape

LEMMA BorrowerKeeps ==
    ASSUME Basis, Borrower
    PROVE  Basis'
<1>1. ChainTypeOK'
    BY BorrowerTyped DEF Borrower, Basis, TypeOK
<1>2. UNCHANGED <<hub, faults, book, syncSeen, pc, queue, docSeen, rested, charged, unsure, excused>>
    BY DEF Borrower, hubVars, bookVars, keeperVars, historyVars
<1>3. PassShape'
    BY <1>2 DEF Basis, PassShape
<1> QED
    BY <1>1, <1>2, <1>3 DEF Basis, TypeOK, HubTypeOK, BookTypeOK, LadderShape, CopyShape

LEMMA SyncKeeps ==
    ASSUME Basis, Sync
    PROVE  Basis'
<1>1. UNCHANGED <<repaid, counted, status, funds, topUps, clock,
                  pc, queue, docSeen, rested, charged, unsure>>
    BY DEF Sync, BeginSync, GoOnSync, CutShort, loanVars, keeperVars, historyVars
<1>2. PassShape'
    BY <1>1 DEF Basis, PassShape
<1>3. HubTypeOK'
    BY FaultTyped DEF Sync, BeginSync, GoOnSync, CutShort, hubVars, Basis, TypeOK, HubTypeOK
<1>4. BookTypeOK' /\ LadderShape' /\ CopyShape' /\ excused' \subseteq Instalments
    <2>1. CASE BeginSync
        BY <2>1, SyncReadTyped
        DEF BeginSync, SyncRead, historyVars, Basis, TypeOK, LadderShape, CopyShape
    <2>2. CASE SyncRecall /\ UNCHANGED historyVars
        BY <2>2, SyncRecallIs DEF historyVars, Basis, TypeOK, LadderShape, CopyShape
    <2>3. CASE SyncWrite /\ excused' = excused \cup
                 {i \in Instalments : book'.inst[i].attempts < book.inst[i].attempts}
        BY <2>3, SyncWriteIs DEF SyncWrite, NothingRead, Basis, TypeOK, CopyShape
    <2>4. CASE CutShort
        BY <2>4, NothingReadTyped
        DEF CutShort, NothingRead, historyVars, Basis, TypeOK, BookTypeOK, LadderShape, CopyShape
    <2> QED
        BY <2>1, <2>2, <2>3, <2>4 DEF Sync, GoOnSync
<1> QED
    BY <1>1, <1>2, <1>3, <1>4 DEF Basis, TypeOK, ChainTypeOK

LEMMA TickKeeps ==
    ASSUME Basis, Tick
    PROVE  Basis'
<1>1. ChainTypeOK' /\ HubTypeOK' /\ BookTypeOK'
    BY ElapseTyped, AgeTyped, CountdownIs DEF Tick, Basis, TypeOK
<1>2. LadderShape' /\ CopyShape'
    BY CountdownIs DEF Tick, Countdown, Basis, TypeOK, LadderShape, CopyShape
<1>3. UNCHANGED <<pc, queue, docSeen, charged, unsure>> /\ rested' = TRUE
      /\ excused' \subseteq Instalments
    BY DEF Tick, Basis, TypeOK
<1>4. PassShape'
    BY <1>3 DEF Basis, PassShape
<1> QED
    BY <1>1, <1>2, <1>3, <1>4 DEF Basis, TypeOK

LEMMA BasisStep ==
    ASSUME Basis, [Next]_vars
    PROVE  Basis'
<1>1. CASE UNCHANGED vars
    BY <1>1 DEF vars, loanVars, hubVars, bookVars, keeperVars, historyVars,
                Basis, TypeOK, PassShape, LadderShape, CopyShape, ChainTypeOK, HubTypeOK, BookTypeOK
<1>2. CASE KeeperNext
    BY <1>2, StartPassKeeps, RefusedKeeps, UnreachableKeeps, SendKeeps, AnsweredFailedKeeps,
       UnansweredKeeps, AnsweredPaidKeeps, WritePaidKeeps, MarkLiquidationCandidateKeeps,
       LiquidateKeeps, NoCandidateKeeps
    DEF KeeperNext
<1> QED
    BY <1>1, <1>2, CrashKeeps, ExecuteKeeps, BorrowerKeeps, SyncKeeps, TickKeeps DEF Next

(* Whatever fails, is lost, lapses or crashes, book, hub, pass and chain   *)
(* stay within their types: what is collected never passes what is owed,   *)
(* no attempt passes the bound, no wait the longest of the ladder.         *)
THEOREM CollectionTypes == Spec => []TypeOK
<1>1. Init => Basis
    BY BasisInit
<1>2. Basis /\ [Next]_vars => Basis'
    BY BasisStep
<1>3. Basis => TypeOK
    BY DEF Basis
<1> QED
    BY <1>1, <1>2, <1>3, PTL DEF Spec

-----------------------------------------------------------------------------
(* The key is kept.                                                        *)

LEMMA SameEntries ==
    ASSUME NEW i, \A n \in 1..MaxAttempts : Entry(i, n)' = Entry(i, n)
    PROVE  Live(i)' = Live(i) /\ Through(i)' = Through(i)
BY DEF Live, Through

LEMMA RetriedAlike ==
    ASSUME NEW i, NEW past, NEW other, Snap(past) = Snap(other), Retried(i, past)
    PROVE  Retried(i, other)
<1>1. past.attempts = other.attempts /\ past.kind = other.kind
    BY DEF Snap
<1> QED
    BY <1>1 DEF Retried, NextKey

LEMMA RetriedIsSettled ==
    ASSUME NEW i, NEW past, Retried(i, past)
    PROVE  Settled(i)
<1>1. \A n \in Live(i) \ Through(i) :
          NextKey(past) \notin Through(i) /\ Live(i) = {n}
    BY DEF Retried
<1> QED
    BY <1>1 DEF Retried, Settled

(* Nothing that concerns i has changed.                                    *)
LEMMA KeptAlike ==
    ASSUME NEW i \in Instalments, Kept(i),
           Live(i)' = Live(i), Through(i)' = Through(i), charged'[i] = charged[i],
           InPass(i)' <=> InPass(i), InPass(i) => queue'[i] = queue[i],
           Open(i)' <=> Open(i), Snap(book.inst[i])' = Snap(book.inst[i]),
           i \in unsure \/ AtWork(i) => i \in unsure' \/ AtWork(i)'
    PROVE  Kept(i)'
<1>1. \A past : Retried(i, past) => /\ Live(i)' \subseteq {NextKey(past)}
                                    /\ charged'[i] = IF NextKey(past) \in Through(i)' THEN 1 ELSE 0
    BY DEF Retried
<1>2. InPass(i) => Retried(i, queue[i])'
    BY <1>1 DEF Kept, Retried, NextKey
<1>3. ~InPass(i) /\ Open(i) => Retried(i, book.inst[i])'
    <2>1. book'.inst[i].attempts = book.inst[i].attempts /\ book'.inst[i].kind = book.inst[i].kind
        BY DEF Snap
    <2> QED
        BY <1>1, <2>1 DEF Kept, Retried, NextKey
<1>4. ~InPass(i) /\ ~Open(i) => Settled(i)'
    BY DEF Kept, Settled
<1>5. InPass(i) /\ Open(i) => (Snap(book.inst[i]) = Snap(queue[i]))'
    BY DEF Kept, Snap
<1> QED
    BY <1>2, <1>3, <1>4, <1>5 DEF Kept

LEMMA StartPassKept ==
    ASSUME Basis, NEW i \in Instalments, Kept(i), StartPass
    PROVE  Kept(i)'
<1> DEFINE due == {j \in Instalments : Collectable(j)}
<1>1. /\ queue' = [j \in due |-> [attempts |-> book.inst[j].attempts, kind |-> book.inst[j].kind]]
      /\ pc = "sleep"
      /\ UNCHANGED <<hub, book, charged, unsure>>
    BY DEF StartPass, hubVars, bookVars, historyVars
<1>2. DOMAIN queue = {}
    BY <1>1 DEF Basis, PassShape
<1>3. Live(i)' = Live(i) /\ Through(i)' = Through(i)
    BY <1>1 DEF Live, Through, Entry
<1>4. CASE i \in due
    <2>1. InPass(i)' /\ Open(i) /\ Open(i)' /\ ~InPass(i)
        BY <1>1, <1>2, <1>4 DEF InPass, Open, Collectable
    <2>2. queue'[i] = [attempts |-> book.inst[i].attempts, kind |-> book.inst[i].kind]
        BY <1>1, <1>4
    <2>3. Retried(i, book.inst[i])
        BY <2>1 DEF Kept
    <2>4. Retried(i, queue[i])'
        <3>1. NextKey(queue[i])' = NextKey(book.inst[i])
            BY <2>2 DEF NextKey
        <3> QED
            BY <1>1, <1>3, <2>3, <3>1 DEF Retried
    <2>5. (Snap(book.inst[i]) = Snap(queue[i]))'
        BY <1>1, <2>2 DEF Snap
    <2>6. Live(i) # {} => i \in unsure'
        BY <1>1, <2>1 DEF Kept, AtWork
    <2> QED
        BY <1>3, <2>1, <2>4, <2>5, <2>6 DEF Kept
<1>5. CASE i \notin due
    <2>1. ~InPass(i) /\ ~InPass(i)'
        BY <1>1, <1>2, <1>5 DEF InPass
    <2> QED
        BY <1>1, <1>3, <2>1, KeptAlike DEF Open, Snap, AtWork
<1> QED
    BY <1>4, <1>5

(* A failed attempt: either the key stays, or nothing is left under it.    *)
LEMMA FailedKept ==
    ASSUME Basis, DOMAIN queue # {}, NEW kind \in Kinds, Failed(kind),
           NEW i \in Instalments, Kept(i),
           hub' = hub,
           i # Turn => (i \in unsure => i \in unsure'),
           i = Turn => Live(i) = {} \/ (~KeyMoves(kind) /\ i \in unsure')
    PROVE  Kept(i)'
<1>1. Live(i)' = Live(i) /\ Through(i)' = Through(i) /\ charged' = charged
    BY DEF Live, Through, Entry, Failed
<1>2. /\ DOMAIN queue' = DOMAIN queue \ {Turn}
      /\ \A j \in DOMAIN queue' : queue'[j] = queue[j]
    BY DroppedIs DEF Failed
<1>3. CASE i # Turn
    <2>1. book'.inst[i] = book.inst[i]
        BY <1>3, FailedIs
    <2> QED
        BY <1>1, <1>2, <1>3, <2>1, KeptAlike DEF InPass, Open, Snap, AtWork
<1>4. CASE i = Turn
    <2>1. InPass(i) /\ ~InPass(i)' /\ Current = queue[i]
        BY <1>2, <1>4, TurnIs DEF InPass, Current
    <2>2. Retried(i, Current)
        BY <2>1 DEF Kept
    <2>3. book'.inst[i].attempts = Current.attempts + 1 /\ book'.inst[i].kind = kind
        BY <1>4, FailedIs, TurnIs
    <2>4. Current.attempts \in Nat
        BY TurnIs, LadderAssumption DEF Snapshot
    <2>5. ~KeyMoves(kind) => NextKey(book.inst[i])' = NextKey(Current)
        BY <2>3, <2>4 DEF KeyMoves, NextKey
    <2>6. Live(i) = {} => charged[i] = 0
        BY <2>2 DEF Retried, Live, Through
    <2>7. Retried(i, book.inst[i])'
        <3>1. CASE Live(i) = {}
            <4>1. Through(i) = {}
                BY <3>1 DEF Live, Through
            <4> QED
                BY <1>1, <2>6, <3>1, <4>1 DEF Retried
        <3>2. CASE ~KeyMoves(kind)
            BY <1>1, <2>2, <2>5, <3>2 DEF Retried
        <3> QED
            BY <1>4, <3>1, <3>2
    <2>8. Settled(i)'
        <3>1. Settled(i)
            BY <2>2, RetriedIsSettled
        <3> QED
            BY <1>1, <3>1 DEF Settled
    <2> QED
        BY <1>1, <1>4, <2>1, <2>7, <2>8 DEF Kept
<1> QED
    BY <1>3, <1>4

LEMMA RefusedKept ==
    ASSUME Basis, NEW i \in Instalments, i \notin excused', Kept(i), Refused
    PROVE  Kept(i)'
<1> DEFINE kind == Simulated(Amount(Turn))
<1>1. DOMAIN queue # {} /\ pc = "collect"
    BY AtWorkHasItem DEF Refused
<1>2. kind \in Kinds /\ Failed(kind) /\ OnTop(kind) /\ hub' = hub /\ unsure' = unsure
    BY RefusalIsNamed DEF Refused, hubVars
<1> HIDE DEF kind
<1>3. i = Turn => Live(i) = {} \/ (~KeyMoves(kind) /\ i \in unsure')
    <2> SUFFICES ASSUME i = Turn, Live(i) # {} PROVE ~KeyMoves(kind) /\ i \in unsure'
        OBVIOUS
    <2>1. i \in unsure
        BY <1>1, TurnIs DEF Kept, InPass, AtWork
    <2> QED
        BY <1>2, <2>1 DEF OnTop
<1> QED
    BY <1>1, <1>2, <1>3, FailedKept

LEMMA UnreachableKept ==
    ASSUME Basis, NEW i \in Instalments, i \notin excused', Kept(i), Unreachable
    PROVE  Kept(i)'
<1>1. DOMAIN queue # {} /\ pc = "collect" /\ hub' = hub /\ unsure' = unsure
    BY AtWorkHasItem DEF Unreachable, Fault
<1>2. PICK kind \in FaultKinds : Failed(kind) /\ OnTop(kind)
    BY DEF Unreachable
<1>3. kind \in Kinds
    BY <1>2 DEF Kinds
<1>4. i = Turn => Live(i) = {} \/ (~KeyMoves(kind) /\ i \in unsure')
    <2> SUFFICES ASSUME i = Turn, Live(i) # {} PROVE ~KeyMoves(kind) /\ i \in unsure'
        OBVIOUS
    <2>1. i \in unsure
        BY <1>1, TurnIs DEF Kept, InPass, AtWork
    <2> QED
        BY <1>1, <1>2, <2>1 DEF OnTop
<1> QED
    BY <1>1, <1>2, <1>3, <1>4, FailedKept

LEMMA AnsweredFailedKept ==
    ASSUME Basis, NEW i \in Instalments, Kept(i), AnsweredFailed
    PROVE  Kept(i)'
<1>1. DOMAIN queue # {}
    BY AtWorkHasItem DEF AnsweredFailed
<1>2. /\ hub[Key].state = "failed" /\ Failed("reverted") /\ "reverted" \in Kinds
      /\ hub' = hub /\ unsure' = unsure \ {Turn}
    BY DEF AnsweredFailed, hubVars, Kinds
<1>3. i = Turn => Live(i) = {}
    <2> SUFFICES ASSUME i = Turn PROVE Live(i) = {}
        OBVIOUS
    <2>1. Entry(i, NextKey(Current)) = "failed"
        BY <1>1, <1>2, TurnIs DEF Entry
    <2>2. Live(i) \subseteq {NextKey(Current)}
        BY <1>1, TurnIs DEF Kept, InPass, Current, Retried
    <2> QED
        BY <2>1, <2>2 DEF Live
<1> QED
    BY <1>1, <1>2, <1>3, FailedKept

LEMMA UnansweredKept ==
    ASSUME Basis, NEW i \in Instalments, i \notin excused', Kept(i), Unanswered
    PROVE  Kept(i)'
<1>1. DOMAIN queue # {}
    BY AtWorkHasItem DEF Unanswered
<1>2. hub' = hub /\ unsure' = unsure \cup {Turn}
    BY DEF Unanswered, Fault
<1>3. PICK kind \in PollFaults :
          Failed(kind) /\ excused' = excused \cup {j \in {Turn} : KeyMoves(kind)}
    BY DEF Unanswered
<1>4. kind \in Kinds
    BY <1>3, PollAssumption DEF Kinds
<1>5. i = Turn => ~KeyMoves(kind) /\ i \in unsure'
    BY <1>2, <1>3
<1> QED
    BY <1>1, <1>2, <1>3, <1>4, <1>5, FailedKept

LEMMA SendKept ==
    ASSUME Basis, NEW i \in Instalments, Kept(i), Send
    PROVE  Kept(i)'
<1>1. DOMAIN queue # {}
    BY AtWorkHasItem DEF Send
<1>2. /\ UNCHANGED <<book, queue, charged, unsure>> /\ pc' = "wait" /\ pc = "collect"
      /\ hub' = IF Known(Key) THEN hub ELSE Written(Key, "running")
    BY DEF Send, Submit, bookVars, historyVars
<1>3. /\ Key \in Keys /\ Key = ChargeKey(Turn, NextKey(Current))
      /\ NextKey(Current) \in 1..MaxAttempts
    BY <1>1, TurnIs
<1>4. CASE Known(Key)
    <2>1. Live(i)' = Live(i) /\ Through(i)' = Through(i)
        BY <1>2, <1>4 DEF Live, Through, Entry
    <2> QED
        BY <1>2, <2>1, KeptAlike DEF InPass, Open, Snap, AtWork, Turn
<1>5. CASE ~Known(Key) /\ i # Turn
    <2>1. \A n \in 1..MaxAttempts : Entry(i, n)' = Entry(i, n)
        <3>1. \A n \in 1..MaxAttempts : ChargeKey(i, n) \in Keys \ {Key}
            BY <1>3, <1>5, KeysAre
        <3> QED
            BY <1>2, <1>3, <1>5, <3>1, WrittenIs DEF Entry, Basis, TypeOK
    <2>2. Live(i)' = Live(i) /\ Through(i)' = Through(i)
        BY <2>1, SameEntries
    <2> QED
        BY <1>2, <2>2, KeptAlike DEF InPass, Open, Snap, AtWork, Turn
<1>6. CASE ~Known(Key) /\ i = Turn
    <2>0. PICK k \in 1..MaxAttempts : k = NextKey(Current)
        BY <1>3
    <2>1. Entry(i, k) = "none" /\ Entry(i, k)' = "running"
        <3>1. Written(Key, "running")[Key].state = "running"
            BY <1>3, WrittenIs DEF Basis, TypeOK
        <3>2. Key = ChargeKey(i, k) /\ hub' = Written(Key, "running") /\ hub[Key].state = "none"
            BY <1>2, <1>3, <1>6, <2>0 DEF Known
        <3> QED
            BY <3>1, <3>2 DEF Entry
    <2>2. \A n \in 1..MaxAttempts \ {k} : Entry(i, n)' = Entry(i, n)
        <3>1. \A n \in 1..MaxAttempts \ {k} : ChargeKey(i, n) \in Keys \ {Key}
            BY <1>3, <2>0, KeysAre
        <3> QED
            BY <1>2, <1>3, <1>6, <3>1, WrittenIs DEF Entry, Basis, TypeOK
    <2>3. InPass(i) /\ InPass(i)' /\ Current = queue[i] /\ queue'[i] = queue[i]
        BY <1>1, <1>2, <1>6, TurnIs DEF InPass, Current
    <2>4. Retried(i, Current)
        BY <2>3 DEF Kept
    <2>5. Live(i)' \subseteq Live(i) \cup {k} /\ Through(i)' = Through(i) /\ k \notin Through(i)
        <3>1. Entry(i, k) # "completed" /\ Entry(i, k)' # "completed"
            BY <2>1
        <3>2. \A n \in 1..MaxAttempts : n # k => Entry(i, n)' = Entry(i, n)
            BY <2>2
        <3>3. \A n \in 1..MaxAttempts : Entry(i, n)' = "completed" <=> Entry(i, n) = "completed"
            BY <3>1, <3>2
        <3> QED
            BY <3>1, <3>2, <3>3 DEF Live, Through
    <2>6. Retried(i, queue[i])'
        <3>1. NextKey(queue[i])' = k
            BY <2>0, <2>3 DEF NextKey
        <3> QED
            BY <1>2, <2>0, <2>4, <2>5, <3>1 DEF Retried
    <2>7. AtWork(i)'
        BY <1>2, <1>6 DEF AtWork, Turn
    <2>8. (InPass(i) /\ Open(i) => Snap(book.inst[i]) = Snap(queue[i]))'
        BY <1>2, <2>3 DEF Kept, Open, Snap
    <2> QED
        BY <2>3, <2>6, <2>7, <2>8 DEF Kept
<1> QED
    BY <1>4, <1>5, <1>6

LEMMA AnsweredPaidKept ==
    ASSUME Basis, NEW i \in Instalments, Kept(i), AnsweredPaid
    PROVE  Kept(i)'
<1>1. UNCHANGED <<hub, book, queue, charged, unsure>> /\ pc = "wait" /\ pc' = "paid"
    BY DEF AnsweredPaid, hubVars, bookVars, historyVars
<1>2. Live(i)' = Live(i) /\ Through(i)' = Through(i)
    BY <1>1 DEF Live, Through, Entry
<1> QED
    BY <1>1, <1>2, KeptAlike DEF InPass, Open, Snap, AtWork, Turn

LEMMA WritePaidKept ==
    ASSUME Basis, NEW i \in Instalments, Kept(i), WritePaid
    PROVE  Kept(i)'
<1>1. DOMAIN queue # {}
    BY AtWorkHasItem DEF WritePaid
<1>2. hub' = hub /\ charged' = charged /\ unsure' = unsure \ {Turn}
    BY DEF WritePaid, hubVars
<1>3. Live(i)' = Live(i) /\ Through(i)' = Through(i)
    BY <1>2 DEF Live, Through, Entry
<1>4. /\ DOMAIN queue' = DOMAIN queue \ {Turn}
      /\ \A j \in DOMAIN queue' : queue'[j] = queue[j]
    BY <1>1, DroppedIs DEF WritePaid
<1>5. /\ book'.inst[Turn].state = "paid"
      /\ \A j \in Instalments \ {Turn} : book'.inst[j] = book.inst[j]
    BY <1>1, RecordPaidIs DEF WritePaid
<1>6. CASE i # Turn
    <2>1. book'.inst[i] = book.inst[i]
        BY <1>5, <1>6
    <2> QED
        BY <1>2, <1>3, <1>4, <1>6, <2>1, KeptAlike DEF InPass, Open, Snap, AtWork
<1>7. CASE i = Turn
    <2>1. InPass(i) /\ ~InPass(i)' /\ ~Open(i)'
        BY <1>1, <1>4, <1>5, <1>7, TurnIs DEF InPass, Open
    <2>2. Settled(i)
        BY <2>1, RetriedIsSettled DEF Kept
    <2> QED
        BY <1>2, <1>3, <2>1, <2>2 DEF Kept, Settled
<1> QED
    BY <1>6, <1>7

LEMMA MarkLiquidationCandidateKept ==
    ASSUME Basis, NEW i \in Instalments, Kept(i), MarkLiquidationCandidate
    PROVE  Kept(i)'
<1>1. UNCHANGED <<hub, queue, charged, unsure>> /\ pc = "escalate"
    BY DEF MarkLiquidationCandidate, hubVars, historyVars
<1>2. book'.inst = book.inst
    BY DEF MarkLiquidationCandidate, Basis, TypeOK, BookTypeOK
<1>3. Live(i)' = Live(i) /\ Through(i)' = Through(i)
    BY <1>1 DEF Live, Through, Entry
<1> QED
    BY <1>1, <1>2, <1>3, KeptAlike DEF InPass, Open, Snap, AtWork

LEMMA LiquidationKept ==
    ASSUME Basis, NEW i \in Instalments, Kept(i), LiquidateIfUnhealthy \/ NoCandidate
    PROVE  Kept(i)'
<1>1. UNCHANGED <<book, queue, charged, unsure>> /\ pc = "liquidate" /\ pc' = "sleep"
    BY DEF LiquidateIfUnhealthy, NoCandidate, PassEnds, bookVars, historyVars
<1>2. \A n \in 1..MaxAttempts : Entry(i, n)' = Entry(i, n)
    <2>1. CASE hub' = hub
        BY <2>1 DEF Entry
    <2>2. CASE CheckAndExecute(LiquidationKey, ChainOverdue, ChainOverdue)
        <3> DEFINE s == IF ~ChainOverdue THEN "skipped"
                        ELSE IF ChainOverdue THEN "completed" ELSE "failed"
        <3>1. s \in {"running", "completed", "failed", "skipped"}
            OBVIOUS
        <3>2. hub' = Written(LiquidationKey, s)
            BY <2>2 DEF CheckAndExecute
        <3> HIDE DEF s
        <3>3. \A n \in 1..MaxAttempts : ChargeKey(i, n) \in Keys \ {LiquidationKey}
            BY KeysAre
        <3> QED
            BY <3>1, <3>2, <3>3, WrittenIs, KeysAre DEF Entry, Basis, TypeOK
    <2>3. CASE SpoiltExecution(LiquidationKey)
        <3>1. hub' = Written(LiquidationKey, "failed")
            BY <2>3 DEF SpoiltExecution
        <3>2. \A n \in 1..MaxAttempts : ChargeKey(i, n) \in Keys \ {LiquidationKey}
            BY KeysAre
        <3> QED
            BY <3>1, <3>2, WrittenIs, KeysAre DEF Entry, Basis, TypeOK
    <2> QED
        BY <2>1, <2>2, <2>3 DEF LiquidateIfUnhealthy, NoCandidate, hubVars, Fault
<1>3. Live(i)' = Live(i) /\ Through(i)' = Through(i)
    BY <1>2, SameEntries
<1> QED
    BY <1>1, <1>3, KeptAlike DEF InPass, Open, Snap, AtWork

LEMMA CrashKept ==
    ASSUME Basis, NEW i \in Instalments, Kept(i), Crash
    PROVE  Kept(i)'
<1>1. /\ UNCHANGED <<hub, book, charged>> /\ queue' = <<>> /\ pc' = "sleep"
      /\ unsure' = IF pc \in {"wait", "paid"} THEN unsure \cup {Turn} ELSE unsure
    BY DEF Crash, Fault, bookVars
<1>2. Live(i)' = Live(i) /\ Through(i)' = Through(i)
    BY <1>1 DEF Live, Through, Entry
<1>3. ~InPass(i)'
    BY <1>1 DEF InPass
<1>4. Open(i)' <=> Open(i)
    BY <1>1 DEF Open
<1>5. Open(i) => Retried(i, book.inst[i])
    BY RetriedAlike DEF Kept
<1>6. ~Open(i) => Settled(i)
    BY RetriedIsSettled DEF Kept
<1>7. i \in unsure \/ AtWork(i) => i \in unsure'
    BY <1>1 DEF AtWork
<1>8. Open(i) => Retried(i, book.inst[i])'
    BY <1>1, <1>2, <1>5 DEF Retried, NextKey
<1>9. ~Open(i) => Settled(i)'
    BY <1>1, <1>2, <1>6 DEF Settled
<1> QED
    BY <1>2, <1>3, <1>4, <1>7, <1>8, <1>9 DEF Kept

(* A call that ends under a key was the only one.                          *)
LEMMA ExecuteKept ==
    ASSUME Basis, NEW i \in Instalments, Kept(i), Execute
    PROVE  Kept(i)'
<1>1. PICK j \in Instalments, n \in 1..MaxAttempts :
          /\ Finish(ChargeKey(j, n), Simulated(Amount(j)) = "none")
          /\ IF Simulated(Amount(j)) = "none"
             THEN RepayOnChain(Amount(j)) /\ charged' = [charged EXCEPT ![j] = @ + 1]
             ELSE UNCHANGED <<loanVars, charged>>
          /\ UNCHANGED <<bookVars, keeperVars, unsure, excused>>
    BY DEF Execute
<1> DEFINE goes == Simulated(Amount(j)) = "none"
           s == IF goes THEN "completed" ELSE "failed"
<1>2. /\ Entry(j, n) = "running" /\ hub' = Written(ChargeKey(j, n), s)
      /\ charged \in [Instalments -> Nat]
      /\ charged' = IF goes THEN [charged EXCEPT ![j] = @ + 1] ELSE charged
      /\ UNCHANGED <<book, pc, queue, unsure>>
    BY <1>1 DEF Finish, Entry, Basis, TypeOK, bookVars, keeperVars
<1>3. ChargeKey(j, n) \in Keys /\ HubTypeOK
    BY KeysAre DEF Basis, TypeOK
<1>4. s \in {"running", "completed", "failed", "skipped"}
    OBVIOUS
<1>5. s = "completed" <=> goes
    OBVIOUS
<1>6. s # "running"
    OBVIOUS
<1> HIDE DEF s, goes
<1>7. Entry(j, n)' = s
    BY <1>2, <1>3, <1>4, WrittenIs DEF Entry
<1>8. \A k \in Instalments, m \in 1..MaxAttempts :
          <<k, m>> # <<j, n>> => Entry(k, m)' = Entry(k, m)
    <2>1. \A k \in Instalments, m \in 1..MaxAttempts :
             <<k, m>> # <<j, n>> => ChargeKey(k, m) \in Keys \ {ChargeKey(j, n)}
        BY KeysAre
    <2> QED
        BY <1>2, <1>3, <1>4, <2>1, WrittenIs DEF Entry
<1>9. CASE i # j
    <2>1. \A m \in 1..MaxAttempts : Entry(i, m)' = Entry(i, m)
        BY <1>8, <1>9
    <2>2. Live(i)' = Live(i) /\ Through(i)' = Through(i) /\ charged'[i] = charged[i]
        BY <1>2, <1>9, <2>1, SameEntries
    <2> QED
        BY <1>2, <2>2, KeptAlike DEF InPass, Open, Snap, AtWork, Turn
<1>10. CASE i = j
    <2>1. n \in Live(i) \ Through(i)
        BY <1>2, <1>10 DEF Live, Through
    <2>2. \A m \in 1..MaxAttempts \ {n} : Entry(i, m)' = Entry(i, m)
        BY <1>8, <1>10
    <2>3. goes => Live(i)' = Live(i) /\ Through(i)' = Through(i) \cup {n} /\ charged'[i] = charged[i] + 1
        BY <1>2, <1>5, <1>7, <1>10, <2>2 DEF Live, Through
    <2>4. ~goes => Live(i)' = Live(i) \ {n} /\ Through(i)' = Through(i) /\ charged'[i] = charged[i]
        <3>1. ~goes => Entry(i, n)' \notin {"running", "completed"} /\ Entry(i, n) # "completed"
            BY <1>2, <1>5, <1>6, <1>7, <1>10
        <3> QED
            BY <1>2, <2>2, <3>1 DEF Live, Through
    <2>5. ASSUME NEW past, Retried(i, past)
          PROVE  /\ Live(i)' \subseteq {NextKey(past)}
                 /\ charged'[i] = IF NextKey(past) \in Through(i)' THEN 1 ELSE 0
        <3>1. n = NextKey(past) /\ charged[i] = 0
            BY <2>1, <2>5 DEF Retried
        <3> QED
            BY <2>1, <2>3, <2>4, <2>5, <3>1 DEF Retried
    <2>6. Settled(i) => Settled(i)'
        <3> SUFFICES ASSUME Settled(i) PROVE Settled(i)'
            OBVIOUS
        <3>1. charged[i] = 0 /\ Live(i) = {n}
            BY <2>1 DEF Settled
        <3>2. charged'[i] <= 1 /\ Live(i)' \ Through(i)' = {}
            BY <2>3, <2>4, <3>1
        <3> QED
            BY <3>2 DEF Settled
    <2>7. InPass(i) => Retried(i, queue[i])'
        BY <1>2, <2>5 DEF Kept, Retried, NextKey
    <2>8. ~InPass(i) /\ Open(i) => Retried(i, book.inst[i])'
        BY <1>2, <2>5 DEF Kept, Retried, NextKey
    <2>9. /\ InPass(i)' <=> InPass(i)
          /\ Open(i)' <=> Open(i)
          /\ AtWork(i)' <=> AtWork(i)
          /\ InPass(i) /\ Open(i) => (Snap(book.inst[i]) = Snap(queue[i]))'
        BY <1>2 DEF InPass, Open, AtWork, Turn, Kept, Snap
    <2>10. Live(i)' # {} => Live(i) # {}
        BY <2>1
    <2> QED
        BY <1>2, <2>6, <2>7, <2>8, <2>9, <2>10 DEF Kept
<1> QED
    BY <1>9, <1>10

LEMMA BorrowerKept ==
    ASSUME NEW i \in Instalments, Kept(i), Borrower
    PROVE  Kept(i)'
<1>1. UNCHANGED <<hub, book, pc, queue, charged, unsure>>
    BY DEF Borrower, hubVars, bookVars, keeperVars, historyVars
<1>2. Live(i)' = Live(i) /\ Through(i)' = Through(i)
    BY <1>1 DEF Live, Through, Entry
<1> QED
    BY <1>1, <1>2, KeptAlike DEF InPass, Open, Snap, AtWork, Turn

LEMMA SyncKept ==
    ASSUME Basis, NEW i \in Instalments, i \notin excused', Kept(i), Recalled(i), Sync
    PROVE  Kept(i)'
<1>1. UNCHANGED <<hub, pc, queue, charged, unsure>>
    BY DEF Sync, BeginSync, GoOnSync, CutShort, Fault, hubVars, keeperVars, historyVars
<1>2. Live(i)' = Live(i) /\ Through(i)' = Through(i)
    BY <1>1 DEF Live, Through, Entry
<1>3. CASE book' = book
    BY <1>1, <1>2, <1>3, KeptAlike DEF InPass, Open, Snap, AtWork, Turn
<1>4. CASE /\ SyncWrite
           /\ excused' = excused \cup
                 {j \in Instalments : book'.inst[j].attempts < book.inst[j].attempts}
    <2>0. /\ InPass(i)' <=> InPass(i)
          /\ AtWork(i)' <=> AtWork(i)
          /\ ~(book'.inst[i].attempts < book.inst[i].attempts)
        BY <1>1, <1>4 DEF InPass, AtWork, Turn
    <2>1. CASE Open(i)'
        <3>1. Open(i) /\ Snap(book.inst[i])' = Snap(book.inst[i])
            <4>1. CASE /\ syncSeen.inst[i].state = "dunning"
                       /\ book'.inst[i] = syncSeen.inst[i]
                <5>1. syncSeen.at = "document"
                    BY <1>4 DEF SyncWrite
                <5> QED
                    BY <2>0, <4>1, <5>1 DEF Recalled, Snap
            <4>2. CASE book'.inst[i].attempts = 0 /\ book'.inst[i].kind = "none"
                <5>1. book.inst[i].attempts \in Nat
                    BY BookIs, LadderAssumption DEF Basis, TypeOK
                <5>2. book.inst[i].attempts = 0
                    BY <2>0, <4>2, <5>1
                <5>3. book.inst[i].kind = "none" /\ book.inst[i].state = "scheduled"
                    BY <5>2 DEF Basis, LadderShape
                <5> QED
                    BY <4>2, <5>2, <5>3 DEF Open, Snap
            <4> QED
                BY <1>4, <2>1, <4>1, <4>2, SyncWriteIs DEF Open
        <3> QED
            BY <1>1, <1>2, <2>0, <2>1, <3>1, KeptAlike
    <2>2. CASE ~Open(i)'
        <3>1. InPass(i) => Retried(i, queue[i])'
            BY <1>1, <1>2 DEF Kept, Retried, NextKey
        <3>2. ~InPass(i) => Settled(i)
            BY RetriedIsSettled DEF Kept
        <3>3. ~InPass(i) => Settled(i)'
            BY <1>1, <1>2, <3>2 DEF Settled
        <3> QED
            BY <1>1, <1>2, <2>0, <2>2, <3>1, <3>3 DEF Kept
    <2> QED
        BY <2>1, <2>2
<1> QED
    BY <1>3, <1>4
    DEF Sync, BeginSync, GoOnSync, CutShort, SyncRead, SyncRecall

LEMMA TickKept ==
    ASSUME Basis, NEW i \in Instalments, i \notin excused', Kept(i), Tick
    PROVE  Kept(i)'
<1>1. /\ UNCHANGED <<pc, queue, charged, unsure>> /\ pc = "sleep" /\ Running = {}
      /\ hub' = [k \in Keys |-> Aged(hub[k])]
      /\ Countdown
      /\ excused' = excused \cup
          {j \in Instalments : book.inst[j].state # "paid" /\ \E n \in 1..MaxAttempts :
              hub[ChargeKey(j, n)].state = "completed" /\ hub'[ChargeKey(j, n)] = Absent}
    BY DEF Tick, Age
<1>2. \A n \in 1..MaxAttempts :
          /\ ChargeKey(i, n) \in Keys
          /\ hub[ChargeKey(i, n)] \in Record
          /\ hub'[ChargeKey(i, n)] = Aged(hub[ChargeKey(i, n)])
    BY <1>1, KeysAre DEF Basis, TypeOK, HubTypeOK
<1>3. \A n \in 1..MaxAttempts :
          /\ Entry(i, n) # "running"
          /\ Entry(i, n)' \in {Entry(i, n), "none"}
          /\ Entry(i, n)' = "none" /\ Entry(i, n) # "none" => hub'[ChargeKey(i, n)] = Absent
    BY <1>1, <1>2, AgedIs DEF Running, Entry
<1>4. /\ book'.inst[i].state = book.inst[i].state
      /\ Snap(book.inst[i])' = Snap(book.inst[i])
    BY <1>1, CountdownIs DEF Basis, TypeOK, Snap
<1>5. /\ ~InPass(i) /\ ~InPass(i)'
      /\ Open(i)' <=> Open(i)
    BY <1>1, <1>4 DEF Basis, PassShape, InPass, Open
<1>6. CASE Open(i)
    <2>1. \A n \in 1..MaxAttempts :
              ~(hub[ChargeKey(i, n)].state = "completed" /\ hub'[ChargeKey(i, n)] = Absent)
        BY <1>1, <1>6 DEF Open
    <2>2. Live(i)' = Live(i) /\ Through(i)' = Through(i)
        <3>1. \A n \in 1..MaxAttempts : Entry(i, n) = "completed" => Entry(i, n)' = "completed"
            BY <1>3, <2>1 DEF Entry
        <3> QED
            BY <1>3, <3>1 DEF Live, Through
    <2> QED
        BY <1>1, <1>4, <1>5, <2>2, KeptAlike DEF AtWork
<1>7. CASE ~Open(i)
    <2>1. Live(i)' \ Through(i)' = {}
        BY <1>3 DEF Live, Through
    <2>2. Settled(i)
        BY <1>5, <1>7 DEF Kept
    <2>3. Settled(i)'
        BY <1>1, <2>1, <2>2 DEF Settled
    <2> QED
        BY <1>5, <1>7, <2>3 DEF Kept
<1> QED
    BY <1>6, <1>7

LEMMA KeptInit ==
    ASSUME Init, NEW i \in Instalments
    PROVE  Kept(i)
<1>1. \A n \in 1..MaxAttempts : Entry(i, n) = "none"
    BY KeysAre DEF Init, HubInit, Entry, Absent
<1>2. Live(i) = {} /\ Through(i) = {}
    BY <1>1 DEF Live, Through
<1>3. DOMAIN queue = {} /\ charged[i] = 0
    BY DEF Init
<1> QED
    BY <1>2, <1>3 DEF Kept, InPass, Retried, Settled

LEMMA KeptStutters ==
    ASSUME NEW i \in Instalments, Kept(i), UNCHANGED vars
    PROVE  Kept(i)'
<1>1. UNCHANGED <<hub, book, pc, queue, charged, unsure>>
    BY DEF vars, hubVars, bookVars, keeperVars, historyVars
<1>2. Live(i)' = Live(i) /\ Through(i)' = Through(i)
    BY <1>1 DEF Live, Through, Entry
<1> QED
    BY <1>1, <1>2, KeptAlike DEF InPass, Open, Snap, AtWork, Turn

(* An excuse is for good.                                                  *)
LEMMA ExcusesStay ==
    ASSUME [Next]_vars
    PROVE  excused \subseteq excused'
<1>1. CASE UNCHANGED vars
    BY <1>1 DEF vars, historyVars
<1>2. CASE KeeperNext
    BY <1>2 DEF KeeperNext, StartPass, Refused, Unreachable, Send, AnsweredFailed, Unanswered,
                AnsweredPaid, WritePaid, MarkLiquidationCandidate, LiquidateIfUnhealthy,
                NoCandidate, PassEnds,
                OnTop, historyVars
<1>3. CASE Crash \/ Execute \/ Borrower \/ Sync \/ Tick
    BY <1>3 DEF Crash, Execute, Borrower, Sync, BeginSync, GoOnSync, CutShort, Tick, historyVars
<1> QED
    BY <1>1, <1>2, <1>3 DEF Next

LEMMA KeptStep ==
    ASSUME Basis, NEW i \in Instalments, i \notin excused', Kept(i), Recalled(i), [Next]_vars
    PROVE  Kept(i)'
<1>1. CASE KeeperNext
    BY <1>1, StartPassKept, RefusedKept, UnreachableKept, SendKept, AnsweredFailedKept,
       UnansweredKept, AnsweredPaidKept, WritePaidKept, MarkLiquidationCandidateKept,
       LiquidationKept
    DEF KeeperNext
<1>2. CASE UNCHANGED vars
    BY <1>2, KeptStutters
<1> QED
    BY <1>1, <1>2, CrashKept, ExecuteKept, BorrowerKept, SyncKept, TickKept DEF Next

-----------------------------------------------------------------------------
(* What a sync recalled is kept up with.                                   *)

(* Nothing that concerns i has changed.                                    *)
LEMMA RecalledAlike ==
    ASSUME NEW i, Recalled(i), syncSeen' = syncSeen,
           InPass(i)' => InPass(i), Open(i)' <=> Open(i),
           Snap(book.inst[i])' = Snap(book.inst[i])
    PROVE  Recalled(i)'
BY DEF Recalled, Snap

(* An attempt is recorded: a copy made before lies behind it.              *)
LEMMA AttemptIsAhead ==
    ASSUME Basis, DOMAIN queue # {}, NEW i \in Instalments, Kept(i), Recalled(i),
           syncSeen' = syncSeen, queue' = Dropped,
           book'.inst[Turn].attempts = Attempt,
           \A j \in Instalments \ {Turn} : book'.inst[j] = book.inst[j]
    PROVE  Recalled(i)'
<1>1. /\ Turn \in DOMAIN queue /\ Current = queue[Turn] /\ Current.attempts + 1 = Attempt
      /\ Current.attempts \in Nat
    BY TurnIs, LadderAssumption DEF Current, Snapshot
<1>2. DOMAIN queue' = DOMAIN queue \ {Turn}
    BY DEF Dropped
<1>3. CASE i # Turn
    BY <1>2, <1>3, RecalledAlike DEF InPass, Open, Snap
<1>4. CASE i = Turn
    <2>1. InPass(i) /\ ~InPass(i)'
        BY <1>1, <1>2, <1>4 DEF InPass
    <2> SUFFICES ASSUME syncSeen.at = "document", syncSeen.inst[i].state = "dunning"
                 PROVE  syncSeen.inst[i].attempts < Attempt
        BY <1>4, <2>1 DEF Recalled
    <2>2. syncSeen.inst[i].attempts \in Nat
        BY LadderAssumption DEF Basis, TypeOK, BookTypeOK, Instalment
    <2>3. Open(i) /\ book.inst[i].attempts = Current.attempts
        BY <1>1, <1>4, <2>1 DEF Recalled, Kept, Snap
    <2>4. syncSeen.inst[i].attempts <= Current.attempts
        BY <1>1, <2>2, <2>3 DEF Recalled, Snap
    <2> QED
        BY <1>1, <2>2, <2>4
<1> QED
    BY <1>3, <1>4

LEMMA RecalledByKeeper ==
    ASSUME Basis, NEW i \in Instalments, Kept(i), Recalled(i), KeeperNext
    PROVE  Recalled(i)'
<1>1. CASE StartPass
    <2>1. /\ DOMAIN queue' = {j \in Instalments : Collectable(j)}
          /\ UNCHANGED <<book, syncSeen>>
        BY <1>1 DEF StartPass, bookVars
    <2>2. InPass(i)' => Open(i)'
        BY <2>1 DEF InPass, Open, Collectable
    <2> QED
        BY <2>1, <2>2 DEF Recalled, Open, Snap
<1>2. ASSUME NEW kind \in Kinds, Failed(kind), pc \in {"collect", "wait"} PROVE Recalled(i)'
    <2>1. DOMAIN queue # {}
        BY <1>2, AtWorkHasItem
    <2>2. syncSeen' = syncSeen /\ queue' = Dropped
        BY <1>2 DEF Failed
    <2> QED
        BY <1>2, <2>1, <2>2, FailedIs, AttemptIsAhead
<1>3. CASE Refused
    BY <1>2, <1>3, RefusalIsNamed DEF Refused
<1>4. CASE Unreachable
    BY <1>2, <1>4 DEF Unreachable, Kinds
<1>5. CASE AnsweredFailed
    BY <1>2, <1>5 DEF AnsweredFailed, Kinds
<1>6. CASE Unanswered
    BY <1>2, <1>6, PollAssumption DEF Unanswered, Kinds
<1>7. CASE WritePaid
    <2>1. DOMAIN queue # {}
        BY <1>7, AtWorkHasItem DEF WritePaid
    <2>2. syncSeen' = syncSeen /\ queue' = Dropped /\ RecordPaid(Turn, Attempt, docSeen)
        BY <1>7 DEF WritePaid, RecordPaid
    <2> QED
        BY <2>1, <2>2, RecordPaidIs, AttemptIsAhead
<1>8. CASE Send \/ AnsweredPaid \/ LiquidateIfUnhealthy \/ NoCandidate
    <2>1. UNCHANGED <<book, syncSeen, queue>>
        BY <1>8 DEF Send, AnsweredPaid, LiquidateIfUnhealthy, NoCandidate, PassEnds, bookVars
    <2> QED
        BY <2>1, RecalledAlike DEF InPass, Open, Snap
<1>9. CASE MarkLiquidationCandidate
    <2>1. UNCHANGED <<syncSeen, queue>> /\ book'.inst = book.inst
        BY <1>9 DEF MarkLiquidationCandidate, Basis, TypeOK, BookTypeOK
    <2> QED
        BY <2>1, RecalledAlike DEF InPass, Open, Snap
<1> QED
    BY <1>1, <1>3, <1>4, <1>5, <1>6, <1>7, <1>8, <1>9 DEF KeeperNext

LEMMA RecalledStep ==
    ASSUME Basis, NEW i \in Instalments, Kept(i), Recalled(i), [Next]_vars
    PROVE  Recalled(i)'
<1>1. CASE Execute \/ Borrower \/ UNCHANGED vars
    <2>1. UNCHANGED <<book, syncSeen, queue>>
        BY <1>1 DEF Execute, Borrower, vars, bookVars, keeperVars
    <2> QED
        BY <2>1, RecalledAlike DEF InPass, Open, Snap
<1>2. CASE Crash
    <2>1. UNCHANGED <<book, syncSeen>> /\ queue' = <<>>
        BY <1>2 DEF Crash, bookVars
    <2>2. ~InPass(i)'
        BY <2>1 DEF InPass
    <2> QED
        BY <2>1, <2>2, RecalledAlike DEF Open, Snap
<1>3. CASE Sync
    <2>1. CASE SyncRecall
        <3>1. book' = book /\ syncSeen'.inst = book.inst
            BY <2>1, SyncRecallIs DEF Basis, TypeOK
        <3> QED
            BY <3>1 DEF Recalled, Open, Snap
    <2>2. CASE SyncRead \/ SyncWrite \/ CutShort
        <3>1. syncSeen'.at # "document"
            BY <2>2, SyncReadTyped DEF SyncWrite, CutShort, NothingRead, Basis, TypeOK
        <3> QED
            BY <3>1 DEF Recalled
    <2> QED
        BY <1>3, <2>1, <2>2 DEF Sync, BeginSync, GoOnSync
<1>4. CASE Tick
    <2>1. syncSeen' = syncSeen /\ syncSeen.at = "idle"
        BY <1>4 DEF Tick, Countdown
    <2> QED
        BY <2>1 DEF Recalled
<1> QED
    BY <1>1, <1>2, <1>3, <1>4, RecalledByKeeper DEF Next

(* The keeper charges an instalment once, whatever the hub answers, unless *)
(* one of the three things the property names has happened to it; more     *)
(* faults, longer passes and other ladders open no further way.            *)
THEOREM ChargedAgainOnlyWhenExcused == Spec => []ChargedAgainOnlyIf
<1>1. Init => IInv
    <2> SUFFICES ASSUME Init PROVE IInv
        OBVIOUS
    <2>1. \A i : Recalled(i)
        BY DEF Init, BookInit, NothingRead, Recalled
    <2> QED
        BY <2>1, BasisInit, KeptInit DEF IInv
<1>2. IInv /\ [Next]_vars => IInv'
    <2> SUFFICES ASSUME IInv, [Next]_vars PROVE IInv'
        OBVIOUS
    <2>1. Basis'
        BY BasisStep DEF IInv
    <2>2. ASSUME NEW i \in Instalments \ excused' PROVE Kept(i)' /\ Recalled(i)'
        <3>1. Basis /\ Kept(i) /\ Recalled(i)
            BY ExcusesStay DEF IInv
        <3> QED
            BY <3>1, KeptStep, RecalledStep
    <2> QED
        BY <2>1, <2>2 DEF IInv
<1>3. IInv => ChargedAgainOnlyIf
    <2> SUFFICES ASSUME IInv, NEW i \in Instalments, charged[i] > 1, i \notin excused
                 PROVE  FALSE
        BY DEF ChargedAgainOnlyIf
    <2>1. Kept(i)
        BY DEF IInv
    <2>2. Settled(i)
        BY <2>1, RetriedIsSettled DEF Kept
    <2>3. charged[i] \in Nat
        BY DEF IInv, Basis, TypeOK
    <2> QED
        BY <2>2, <2>3 DEF Settled
<1> QED
    BY <1>1, <1>2, <1>3, PTL DEF Spec

=============================================================================
