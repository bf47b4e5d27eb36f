----------------------------- MODULE SolanaProofs -----------------------------
(***************************************************************************)
(* What the Polaris program keeps for the wallet behind one delegated      *)
(* account and for the pool, for every amount, period, schedule and number *)
(* of loans, with the keeper and anybody else sending the permissionless   *)
(* instructions: a subscription is charged for begun periods only; the     *)
(* delegation, as long as it covers the debt, is not left short by the     *)
(* credit line; the books balance; collections keep to the schedule; the   *)
(* score is the record; and a loan is an instalment plan as its parties    *)
(* understand one.                                                         *)
(***************************************************************************)
EXTENDS SolanaKeeper, PrefixSumTheorems, SequenceTheorems

-----------------------------------------------------------------------------
(* Subscriptions.                                                          *)

(* A due time never falls behind the periods charged, and the last period  *)
(* charged has begun.                                                      *)
PeriodsKept(s, period, t) ==
    /\ s.charged >= 1
    /\ s.status = "active" => s.missed < MaxMisses
    /\ s.started + s.charged * period <= s.next
    /\ s.started + (s.charged - 1) * period <= t

BillingInv ==
    /\ now \in Nat
    /\ plan \in Plan
    /\ plan.created => plan.period >= 1
    /\ plan.active => plan.created
    /\ sub \in Subscription
    /\ sub.status # "none" => plan.created /\ PeriodsKept(sub, plan.period, now)

LEMMA SubscriptionFields ==
    ASSUME NEW s \in Subscription
    PROVE  /\ s.started \in Int /\ s.next \in Int /\ s.charged \in Nat
           /\ s.missed \in 0..MaxMisses
           /\ s.status \in {"none", "active", "cancelled", "lapsed"}
BY DEF Subscription

LEMMA OneMorePeriod ==
    ASSUME NEW n \in Nat, NEW p \in Nat
    PROVE  /\ n * p \in Nat
           /\ (n + 1) * p = n * p + p
           /\ ((n + 1) - 1) * p = n * p
OBVIOUS

LEMMA QuotientFloor ==
    ASSUME NEW a \in Nat, NEW b \in Nat \ {0}
    PROVE  /\ a \div b \in Nat
           /\ \A w \in Nat : w * b <= a => w <= a \div b
OBVIOUS

LEMMA OpenedKeeps ==
    ASSUME NEW t \in Nat, NEW p \in Nat
    PROVE  /\ Opened(t, p) \in Subscription
           /\ PeriodsKept(Opened(t, p), p, t)
BY DEF Opened, Subscription, PeriodsKept, MaxMisses

LEMMA ChargedKeeps ==
    ASSUME NEW s \in Subscription, NEW t \in Nat, NEW p \in Nat,
           PeriodsKept(s, p, t), ChargeDueAt(s, t)
    PROVE  /\ Charged(s, t, p) \in Subscription
           /\ PeriodsKept(Charged(s, t, p), p, t)
<1> DEFINE c == Charged(s, t, p)
           x == s.charged * p
<1>1. /\ s.started \in Int /\ s.next \in Int /\ s.charged \in Nat /\ s.missed \in 0..MaxMisses
      /\ s.status = "active"
      /\ s.started + x <= s.next /\ t >= s.next
    BY SubscriptionFields DEF PeriodsKept, ChargeDueAt
<1>2. c = [s EXCEPT !.charged = s.charged + 1, !.missed = 0, !.next = s.next + p,
                    !.status = s.status]
    BY <1>1 DEF Charged, Subscription
<1>3. s.charged + 1 \in Nat /\ 0 \in 0..MaxMisses /\ 0 < MaxMisses /\ s.next + p \in Int
    BY <1>1 DEF MaxMisses
<1> HIDE DEF c
<1>4. /\ c \in Subscription
      /\ c.started = s.started /\ c.charged = s.charged + 1 /\ c.missed = 0
      /\ c.next = s.next + p /\ c.status = "active"
    BY <1>1, <1>2, <1>3 DEF Subscription
<1>5. x \in Nat /\ c.charged * p = x + p /\ (c.charged - 1) * p = x
    <2>1. x \in Nat /\ (s.charged + 1) * p = x + p /\ ((s.charged + 1) - 1) * p = x
        BY <1>1, OneMorePeriod
    <2> HIDE DEF x
    <2> QED BY <1>4, <2>1
<1> HIDE DEF x
<1>6. c.started + c.charged * p <= c.next /\ c.started + (c.charged - 1) * p <= t
    BY <1>1, <1>4, <1>5
<1> QED
    BY <1>1, <1>3, <1>4, <1>6 DEF PeriodsKept, c

LEMMA SkippedKeeps ==
    ASSUME NEW s \in Subscription, NEW t \in Nat, NEW p \in Nat \ {0},
           PeriodsKept(s, p, t), ChargeDueAt(s, t)
    PROVE  /\ Skipped(s, t, p) \in Subscription
           /\ PeriodsKept(Skipped(s, t, p), p, t)
<1> DEFINE c == Skipped(s, t, p)
           d == ((t - s.next) \div p + 1) * p
           m == s.missed + 1
           st == IF m >= MaxMisses THEN "lapsed" ELSE "active"
<1>1. /\ s.started \in Int /\ s.next \in Int /\ s.charged \in Nat /\ s.missed \in 0..MaxMisses
      /\ s.status = "active" /\ s.missed < MaxMisses
      /\ s.charged >= 1 /\ t >= s.next
      /\ s.started + s.charged * p <= s.next
      /\ s.started + (s.charged - 1) * p <= t
    BY SubscriptionFields DEF PeriodsKept, ChargeDueAt
<1>2. d \in Nat
    <2>1. t - s.next \in Nat
        BY <1>1
    <2>2. (t - s.next) \div p + 1 \in Nat
        BY <2>1, QuotientFloor
    <2> QED BY <2>2, OneMorePeriod
<1>3. c = [s EXCEPT !.charged = s.charged, !.missed = m, !.next = s.next + d, !.status = st]
    BY <1>1 DEF Skipped, Subscription
<1>4. /\ m \in 0..MaxMisses /\ s.next + d \in Int
      /\ st \in {"none", "active", "cancelled", "lapsed"}
      /\ st = "active" => m < MaxMisses
    BY <1>1, <1>2 DEF MaxMisses
<1> HIDE DEF c, d, m, st
<1>5. /\ c \in Subscription
      /\ c.started = s.started /\ c.charged = s.charged /\ c.missed = m
      /\ c.next = s.next + d /\ c.status = st
    BY <1>1, <1>3, <1>4 DEF Subscription
<1>6. s.charged * p \in Nat
    BY <1>1, OneMorePeriod
<1>7. c.started + c.charged * p <= c.next /\ c.started + (c.charged - 1) * p <= t
    BY <1>1, <1>2, <1>5, <1>6
<1> QED
    BY <1>1, <1>4, <1>5, <1>7 DEF PeriodsKept, c

(* What leaves plan and subscription alone keeps the periods, time passing *)
(* or not.                                                                 *)
LEMMA QuietKeepsPeriods ==
    ASSUME BillingInv, plan' = plan, sub' = sub, now' = now \/ now' = now + 1
    PROVE  BillingInv'
<1>1. now' \in Nat /\ now' >= now
    BY DEF BillingInv
<1>2. ASSUME PeriodsKept(sub, plan.period, now) PROVE PeriodsKept(sub, plan.period, now')
    <2>1. /\ sub.started \in Int /\ sub.charged \in Nat /\ plan.period \in Nat
        BY SubscriptionFields DEF BillingInv, Plan
    <2>2. sub.charged >= 1
        BY <1>2 DEF PeriodsKept
    <2>3. sub.charged - 1 \in Nat
        BY <2>1, <2>2
    <2>4. (sub.charged - 1) * plan.period \in Nat
        BY <2>1, <2>3, OneMorePeriod
    <2> DEFINE x == (sub.charged - 1) * plan.period
    <2>5. sub.started + x <= now
        BY <1>2 DEF PeriodsKept
    <2>6. sub.started + x <= now'
        <3> HIDE DEF x
        <3>1. x \in Nat
            BY <2>4 DEF x
        <3>2. now \in Nat
            BY DEF BillingInv
        <3> QED BY <1>1, <2>1, <2>5, <3>1, <3>2
    <2> QED BY <1>2, <2>6 DEF PeriodsKept
<1> QED
    BY <1>1, <1>2 DEF BillingInv

LEMMA CreditLeavesBilling ==
    ASSUME CreditNext
    PROVE  now' = now
<1>1. CASE \E e \in Evidence : Underwrite(e)
    BY <1>1 DEF Underwrite, clusterVars
<1>2. CASE \E amount \in LockAmounts : LockCollateral(amount) \/ WithdrawCollateral(amount)
    BY <1>2 DEF LockCollateral, WithdrawCollateral
<1>3. CASE \E order \in Orders, principal \in Principals, count \in Counts,
              interval \in Intervals : CreateLoan(order, principal, count, interval)
    BY <1>3 DEF CreateLoan, clusterVars
<1>4. CASE \E id \in LoanIds, asked \in RepayAmounts : Repay(id, asked)
    BY <1>4 DEF Repay
<1>5. CASE \E id \in LoanIds : Collect(id) \/ Liquidate(id)
    BY <1>5 DEF Collect, Liquidate
<1> QED
    BY <1>1, <1>2, <1>3, <1>4, <1>5 DEF CreditNext

LEMMA CreatePlanKeepsPeriods ==
    ASSUME BillingInv, NEW price \in Prices, NEW period \in Periods, CreatePlan(price, period)
    PROVE  BillingInv'
<1>1. price \in Nat /\ period \in Nat /\ period >= 1
    BY BillingAssumption, ProtocolAssumption DEF CreatePlan
<1>2. sub.status = "none"
    BY DEF BillingInv, CreatePlan
<1> QED
    BY <1>1, <1>2 DEF BillingInv, CreatePlan, Plan, clusterVars

LEMMA DeactivateKeepsPeriods ==
    ASSUME BillingInv, DeactivatePlan
    PROVE  BillingInv'
<1>1. /\ plan' \in Plan /\ plan'.period = plan.period
      /\ plan'.created = plan.created /\ plan'.active = FALSE
    BY DEF BillingInv, DeactivatePlan, Plan
<1> QED
    BY <1>1 DEF BillingInv, DeactivatePlan, clusterVars

LEMMA SubscribeKeepsPeriods ==
    ASSUME BillingInv, Subscribe
    PROVE  BillingInv'
<1>1. now \in Nat /\ plan.period \in Nat /\ plan.active
    BY DEF BillingInv, Plan, Subscribe
<1>2. /\ sub' = Opened(now, plan.period) /\ now' = now /\ plan' = plan
    BY DEF Subscribe
<1>3. sub' \in Subscription /\ PeriodsKept(sub', plan.period, now)
    BY <1>1, <1>2, OpenedKeeps
<1> QED
    BY <1>1, <1>2, <1>3 DEF BillingInv

LEMMA ChargeKeepsPeriods ==
    ASSUME BillingInv, ChargeDue
    PROVE  BillingInv'
<1>1. /\ ChargeDueAt(sub, now) /\ now' = now /\ plan' = plan
    BY DEF ChargeDue, Chargeable
<1>2. /\ sub \in Subscription /\ now \in Nat /\ plan.created
      /\ PeriodsKept(sub, plan.period, now)
    BY <1>1 DEF BillingInv, ChargeDueAt
<1>3. plan.period \in Nat \ {0}
    BY <1>2 DEF BillingInv, Plan
<1>4. sub' = Skipped(sub, now, plan.period) \/ sub' = Charged(sub, now, plan.period)
    BY DEF ChargeDue
<1>5. sub' \in Subscription /\ PeriodsKept(sub', plan.period, now)
    BY <1>1, <1>2, <1>3, <1>4, ChargedKeeps, SkippedKeeps
<1> QED
    BY <1>1, <1>2, <1>5 DEF BillingInv

LEMMA CancelKeepsPeriods ==
    ASSUME BillingInv, CancelSubscription
    PROVE  BillingInv'
<1>1. /\ sub' = [sub EXCEPT !.status = "cancelled"] /\ now' = now /\ plan' = plan
      /\ sub.status = "active"
    BY DEF CancelSubscription, clusterVars
<1>2. sub \in Subscription
    BY DEF BillingInv
<1>3. /\ sub' \in Subscription
      /\ sub'.started = sub.started /\ sub'.next = sub.next
      /\ sub'.charged = sub.charged /\ sub'.status = "cancelled"
    BY <1>1, <1>2 DEF Subscription
<1>4. PeriodsKept(sub, plan.period, now) /\ plan.created
    BY <1>1 DEF BillingInv
<1>5. PeriodsKept(sub', plan.period, now)
    BY <1>3, <1>4 DEF PeriodsKept
<1> QED
    BY <1>1, <1>3, <1>4, <1>5 DEF BillingInv

LEMMA StepKeepsPeriods == BillingInv /\ [Next]_vars => BillingInv'
<1> SUFFICES ASSUME BillingInv, [Next]_vars PROVE BillingInv'
    OBVIOUS
<1>1. CASE Tick /\ UNCHANGED billingVars
    BY <1>1, QuietKeepsPeriods DEF Tick, billingVars
<1>2. CASE OwnerMoves /\ UNCHANGED billingVars
    BY <1>2, QuietKeepsPeriods DEF OwnerMoves, billingVars
<1>3. CASE UNCHANGED <<clusterVars, billingVars>>
    BY <1>3, QuietKeepsPeriods DEF clusterVars, billingVars
<1>4. CASE CreditNext /\ UNCHANGED billingVars
    BY <1>4, QuietKeepsPeriods, CreditLeavesBilling DEF billingVars
<1>5. CASE BillingNext
    <2>1. CASE \E order \in Orders, amount \in Prices : Pay(order, amount)
        BY <1>5, <2>1, QuietKeepsPeriods DEF Pay
    <2>2. CASE \E price \in Prices, period \in Periods : CreatePlan(price, period)
        BY <2>2, CreatePlanKeepsPeriods
    <2> QED
        BY <1>5, <2>1, <2>2, DeactivateKeepsPeriods, SubscribeKeepsPeriods,
           ChargeKeepsPeriods, CancelKeepsPeriods DEF BillingNext
<1>6. CASE \E id \in batch : Execute(id)
    <2> PICK id \in batch : Execute(id)
        BY <1>6
    <2>1. CASE UNCHANGED programVars
        BY <2>1, <1>3 DEF programVars
    <2>2. CASE Collect(id) /\ UNCHANGED billingVars
        BY <2>2, QuietKeepsPeriods DEF Collect, billingVars
    <2>3. CASE Liquidate(id) /\ UNCHANGED billingVars
        BY <2>3, QuietKeepsPeriods DEF Liquidate, billingVars
    <2> QED
        BY <2>1, <2>2, <2>3, ChargeKeepsPeriods DEF Execute, Instruction
<1>7. CASE UNCHANGED programVars
    BY <1>3, <1>7 DEF programVars
<1> QED
    BY <1>1, <1>2, <1>3, <1>4, <1>5, <1>6, <1>7
       DEF Next, Program, KeeperNext, Outage, vars

LEMMA BillingAlwaysKept == Spec => []BillingInv
<1>1. Init => BillingInv
    BY DEF Init, ProgramInit, ClusterInit, BillingInit, BillingInv, Plan, NoSubscription,
           Subscription, MaxMisses
<1> QED
    BY <1>1, StepKeepsPeriods, PTL DEF Spec

(* A subscriber never pays for more periods than have begun, for every     *)
(* period, window and order of charges, skips and cancellations.           *)
THEOREM ChargesAlwaysFollow == Spec => []ChargesFollowPeriods
<1>1. BillingInv => ChargesFollowPeriods
    <2> SUFFICES ASSUME BillingInv, sub.status # "none"
                 PROVE  sub.charged <= (now - sub.started) \div plan.period + 1
        BY DEF ChargesFollowPeriods
    <2>1. /\ plan.period \in Nat \ {0} /\ now \in Nat
          /\ sub.started \in Int /\ sub.charged \in Nat /\ sub.charged - 1 \in Nat
          /\ sub.started + (sub.charged - 1) * plan.period <= now
        BY SubscriptionFields DEF BillingInv, PeriodsKept, Plan
    <2> DEFINE w == sub.charged - 1
               x == w * plan.period
               a == now - sub.started
    <2>2. x \in Nat /\ sub.started + x <= now
        BY <2>1, OneMorePeriod
    <2>3. a \in Nat /\ x <= a
        <3> HIDE DEF x
        <3> QED BY <2>1, <2>2
    <2>4. w <= a \div plan.period /\ a \div plan.period \in Nat
        <3> HIDE DEF a, w
        <3>1. w \in Nat
            BY <2>1 DEF w
        <3> QED BY <2>1, <2>3, <3>1, QuotientFloor
    <2> HIDE DEF x
    <2> QED BY <2>1, <2>4
<1> QED
    BY <1>1, BillingAlwaysKept, PTL

-----------------------------------------------------------------------------
(* The delegation.                                                         *)

Loan ==
    [order : Orders, principal : Nat, owed : Nat, repaid : Int,
     count : Nat \ {0}, paid : Nat, started : Nat, interval : Nat,
     status : {"active", "repaid", "liquidated"}]

Account == [open : BOOLEAN, amount : Int, delegated : Nat, elsewhere : Int]

HasCredit(p) == {"debt", "locked"} \subseteq DOMAIN p /\ p.debt \in Nat /\ p.locked \in Int

WalletInv == acct \in Account /\ HasCredit(profile) /\ loans \in Seq(Loan)

(* What a step of the credit line leaves covered.                          *)
KeepsBacking == acct.delegated >= profile.debt => acct'.delegated >= profile'.debt

LEMMA SmallNumbers ==
    ASSUME NEW a \in Int, NEW b \in Int
    PROVE  /\ Less(a, b) \in Nat /\ Less(a, b) >= a - b
           /\ (a >= 0 /\ b >= 0 => Less(a, b) <= a)
           /\ Lower(a, b) \in Int /\ Lower(a, b) <= a /\ Lower(a, b) <= b
BY DEF Less, Lower

LEMMA AccountMoves ==
    ASSUME NEW a \in Account, NEW n \in Int
    PROVE  /\ a.amount \in Int /\ a.delegated \in Nat /\ a.elsewhere \in Int
           /\ [a EXCEPT !.amount = @ - n] \in Account
           /\ [a EXCEPT !.amount = @ - n].delegated = a.delegated
           /\ n <= a.delegated =>
                 /\ [a EXCEPT !.amount = @ - n, !.delegated = @ - n] \in Account
                 /\ [a EXCEPT !.amount = @ - n, !.delegated = @ - n].delegated
                       = a.delegated - n
<1>1. a.amount \in Int /\ a.delegated \in Nat /\ a.elsewhere \in Int
    BY DEF Account
<1> DEFINE x == a.amount - n
           d == a.delegated - n
<1>2. x \in Int /\ (n <= a.delegated => d \in Nat)
    BY <1>1
<1>3. /\ [a EXCEPT !.amount = @ - n] = [a EXCEPT !.amount = x]
      /\ [a EXCEPT !.amount = @ - n, !.delegated = @ - n]
            = [a EXCEPT !.amount = x, !.delegated = d]
    BY DEF Account
<1> HIDE DEF x, d
<1>4. /\ [a EXCEPT !.amount = x] \in Account
      /\ [a EXCEPT !.amount = x].delegated = a.delegated
    BY <1>1, <1>2 DEF Account
<1>5. ASSUME d \in Nat
      PROVE  /\ [a EXCEPT !.amount = x, !.delegated = d] \in Account
             /\ [a EXCEPT !.amount = x, !.delegated = d].delegated = d
    BY <1>1, <1>2, <1>5 DEF Account
<1> QED
    BY <1>1, <1>2, <1>3, <1>4, <1>5 DEF d

LEMMA LoanFields ==
    ASSUME WalletInv, NEW id \in LoanIds
    PROVE  /\ loans[id] \in Loan
           /\ loans[id].owed \in Nat /\ loans[id].repaid \in Int
           /\ loans[id].count \in Nat \ {0} /\ loans[id].paid \in Nat
           /\ Remaining(loans[id]) \in Nat
<1>1. loans[id] \in Loan
    BY DEF WalletInv, LoanIds
<1>2. loans[id].owed \in Nat /\ loans[id].repaid \in Int
      /\ loans[id].count \in Nat \ {0} /\ loans[id].paid \in Nat
    BY <1>1 DEF Loan
<1> QED
    BY <1>1, <1>2 DEF Remaining, Less

LEMMA ThresholdIsInteger ==
    ASSUME NEW l \in Loan, NEW k \in Nat
    PROVE  Threshold(l, k) \in Int
<1>1. l.owed \in Nat /\ l.count \in Nat \ {0}
    BY DEF Loan
<1>2. l.owed * k \in Nat
    BY <1>1, OneMorePeriod
<1>3. l.owed * k + l.count - 1 \in Nat
    BY <1>1, <1>2
<1>4. (l.owed * k + l.count - 1) \div l.count \in Nat
    BY <1>1, <1>3, QuotientFloor
<1> QED
    BY <1>1, <1>4 DEF Threshold

(* Where the walk up the ladder stops.                                     *)
LEMMA WalkStops ==
    ASSUME NEW l \in Loan
    PROVE  LET k == InstallmentsEarned(l)
           IN  /\ k \in 0..l.count
               /\ \A j \in 1..k : l.repaid >= Threshold(l, j)
               /\ k = l.count \/ l.repaid < Threshold(l, k + 1)
<1> DEFINE T == {k \in Nat : k >= l.count \/ l.repaid < Threshold(l, k + 1)}
           Stop(k) == /\ \A j \in 1..k : l.repaid >= Threshold(l, j)
                      /\ k = l.count \/ l.repaid < Threshold(l, k + 1)
<1>1. l.count \in Nat /\ l.repaid \in Int
    BY DEF Loan
<1>2. T \in SUBSET Nat /\ l.count \in T
    BY <1>1
<1>3. PICK k \in T : \A y \in T : k <= y
    <2> HIDE DEF T
    <2> QED BY <1>2, LeastNatural
<1>4. k \in Nat /\ k <= l.count
    BY <1>2, <1>3
<1>5. ASSUME NEW j \in 1..k PROVE l.repaid >= Threshold(l, j)
    <2>1. j \in Nat /\ j - 1 \in Nat /\ j - 1 < k /\ (j - 1) + 1 = j
        BY <1>4
    <2>2. j - 1 \notin T
        BY <1>3, <1>4, <2>1
    <2>3. ~(l.repaid < Threshold(l, (j - 1) + 1))
        BY <2>1, <2>2
    <2> QED BY <1>1, <2>1, <2>3, ThresholdIsInteger
<1>6. k = l.count \/ l.repaid < Threshold(l, k + 1)
    BY <1>1, <1>3, <1>4
<1>7. k \in 0..l.count /\ Stop(k)
    BY <1>1, <1>4, <1>5, <1>6
<1>8. InstallmentsEarned(l) = CHOOSE m \in 0..l.count : Stop(m)
    BY DEF InstallmentsEarned
<1> HIDE DEF Stop
<1>9. InstallmentsEarned(l) \in 0..l.count /\ Stop(InstallmentsEarned(l))
    BY <1>7, <1>8
<1> QED
    BY <1>9 DEF Stop

(* The account and the debt after the settlement both payment paths share. *)
LEMMA PaymentSettles ==
    ASSUME WalletInv, NEW id \in LoanIds, NEW amount \in Int, amount > 0,
           ApplyRepayment(id, amount)
    PROVE  /\ HasCredit(profile') /\ loans' \in Seq(Loan)
           /\ profile'.debt = Less(profile.debt, amount)
<1> DEFINE l == loans[id]
           later == [l EXCEPT !.repaid = @ + amount]
           earned == InstallmentsEarned(later)
           end == [later EXCEPT !.paid = earned,
                                !.status = IF later.repaid >= l.owed THEN "repaid" ELSE @]
           p == [profile EXCEPT !.debt = Less(@, amount)]
<1>1. l \in Loan
    BY LoanFields
<1>2. later \in Loan
    BY <1>1 DEF Loan
<1>3. earned \in Nat
    <2>1. earned \in 0..later.count /\ later.count \in Nat
        BY <1>2, WalkStops DEF Loan
    <2> HIDE DEF earned
    <2> QED BY <2>1
<1>4. end \in Loan
    <2> HIDE DEF earned, later
    <2>1. (IF later.repaid >= l.owed THEN "repaid" ELSE later.status)
              \in {"active", "repaid", "liquidated"}
        BY <1>2 DEF Loan
    <2> QED BY <1>2, <1>3, <2>1 DEF Loan
<1>5. loans' = [loans EXCEPT ![id] = end]
    BY DEF ApplyRepayment
<1>6. loans' \in Seq(Loan)
    <2> HIDE DEF end
    <2> QED BY <1>4, <1>5 DEF WalletInv, LoanIds
<1>7. profile' = Scored(p, now <= DueAt(l, l.paid) + Grace, earned > l.paid)
    BY DEF ApplyRepayment
<1>8. profile.debt \in Nat /\ Less(profile.debt, amount) \in Nat
    BY SmallNumbers DEF WalletInv, HasCredit
<1>9. HasCredit(p) /\ p.debt = Less(profile.debt, amount)
    BY <1>8 DEF WalletInv, HasCredit
<1> HIDE DEF p, earned, l
<1>10. HasCredit(profile') /\ profile'.debt = p.debt
    BY <1>7, <1>9 DEF Scored, HasCredit
<1> QED
    BY <1>6, <1>9, <1>10

LEMMA CollectKeepsBacking ==
    ASSUME WalletInv, NEW id \in LoanIds, Collect(id)
    PROVE  WalletInv' /\ KeepsBacking
<1> DEFINE amount == InstallmentAmount(loans[id])
<1>1. amount \in Int
    <2>1. /\ loans[id] \in Loan /\ loans[id].paid + 1 \in Nat /\ loans[id].repaid \in Int
        BY LoanFields
    <2>2. Threshold(loans[id], loans[id].paid + 1) \in Int
        BY <2>1, ThresholdIsInteger
    <2> QED BY <2>1, <2>2 DEF InstallmentAmount, Less
<1>2. /\ amount > 0 /\ amount <= acct.delegated
      /\ acct' = [acct EXCEPT !.amount = @ - amount, !.delegated = @ - amount]
      /\ ApplyRepayment(id, amount)
    BY DEF Collect, Collectable, Pullable, Pulled
<1> HIDE DEF amount
<1>3. /\ HasCredit(profile') /\ loans' \in Seq(Loan)
      /\ profile'.debt = Less(profile.debt, amount)
    BY <1>1, <1>2, PaymentSettles
<1>4. acct' \in Account /\ acct'.delegated = acct.delegated - amount
    BY <1>1, <1>2, AccountMoves DEF WalletInv
<1>5. acct.delegated \in Nat /\ profile.debt \in Nat
    BY DEF WalletInv, Account, HasCredit
<1> QED
    BY <1>1, <1>2, <1>3, <1>4, <1>5 DEF WalletInv, KeepsBacking, Less

LEMMA RepayKeepsBacking ==
    ASSUME WalletInv, NEW id \in LoanIds, NEW asked \in RepayAmounts, Repay(id, asked)
    PROVE  WalletInv' /\ KeepsBacking
<1> DEFINE amount == Lower(asked, Remaining(loans[id]))
<1>1. amount \in Int
    BY LoanFields, SmallNumbers, CreditAssumption
<1>2. amount > 0 /\ acct' = [acct EXCEPT !.amount = @ - amount] /\ ApplyRepayment(id, amount)
    BY DEF Repay, Sent
<1> HIDE DEF amount
<1>3. /\ HasCredit(profile') /\ loans' \in Seq(Loan)
      /\ profile'.debt = Less(profile.debt, amount)
    BY <1>1, <1>2, PaymentSettles
<1>4. acct' \in Account /\ acct'.delegated = acct.delegated
    BY <1>1, <1>2 DEF WalletInv, Account
<1>5. acct.delegated \in Nat /\ profile.debt \in Nat
    BY DEF WalletInv, Account, HasCredit
<1> QED
    BY <1>1, <1>2, <1>3, <1>4, <1>5 DEF WalletInv, KeepsBacking, Less

LEMMA LiquidateKeepsBacking ==
    ASSUME WalletInv, NEW id \in LoanIds, Liquidate(id)
    PROVE  WalletInv' /\ KeepsBacking
<1> DEFINE rest == Remaining(loans[id])
           take == Lower(Recoverable, rest)
           seized == Lower(rest - take, profile.locked)
           gone == take + seized
<1>1. /\ rest \in Nat /\ loans[id] \in Loan
      /\ acct.amount \in Int /\ acct.delegated \in Nat
      /\ profile.debt \in Nat /\ profile.locked \in Int
      /\ "debt" \in DOMAIN profile /\ "locked" \in DOMAIN profile
    BY LoanFields DEF WalletInv, Account, HasCredit
<1>2. /\ take \in Int /\ take <= rest /\ take <= acct.delegated
    <2> HIDE DEF rest
    <2>1. Recoverable \in Int /\ Recoverable <= acct.delegated
        BY <1>1 DEF Recoverable, Lower
    <2> QED BY <1>1, <2>1 DEF Lower
<1>3. seized \in Int
    <2> HIDE DEF rest, take
    <2> QED BY <1>1, <1>2, SmallNumbers
<1>4. gone \in Int
    <2> HIDE DEF take, seized
    <2> QED BY <1>2, <1>3
<1>5. /\ loans' = [loans EXCEPT ![id].status = "liquidated", ![id].repaid = @ + take + seized]
      /\ acct' = [acct EXCEPT !.amount = @ - take, !.delegated = @ - take]
      /\ profile' = [profile EXCEPT
              !.debt = Less(@, rest),
              !.locked = @ - seized, !.seized = @ + seized,
              !.liquidations = @ + 1, !.score = Adjusted(@, -DefaultPenalty)]
    BY DEF Liquidate, Pulled
<1>6. Less(profile.debt, rest) \in Nat
    <2> HIDE DEF rest
    <2> QED BY <1>1 DEF Less
<1> HIDE DEF rest, take, seized, gone
<1>7. acct' \in Account /\ acct'.delegated = acct.delegated - take
    BY <1>2, <1>5, AccountMoves DEF WalletInv
<1>8. HasCredit(profile') /\ profile'.debt = Less(profile.debt, rest)
    BY <1>1, <1>3, <1>5, <1>6 DEF HasCredit
<1>9. loans' \in Seq(Loan)
    <2> DEFINE end == [[loans[id] EXCEPT !.status = "liquidated"]
                          EXCEPT !.repaid = @ + take + seized]
    <2>1. end \in Loan
        <3> DEFINE r == loans[id].repaid + take + seized
        <3>1. r \in Int
            <4>1. loans[id].repaid \in Int
                BY <1>1 DEF Loan
            <4> QED BY <1>2, <1>3, <4>1
        <3>2. end = [loans[id] EXCEPT !.status = "liquidated", !.repaid = r]
            BY <1>1 DEF Loan
        <3> HIDE DEF r, end
        <3> QED BY <1>1, <3>1, <3>2 DEF Loan
    <2>2. loans' = [loans EXCEPT ![id] = end]
        BY <1>1, <1>5 DEF WalletInv, LoanIds, Loan
    <2> HIDE DEF end
    <2> QED BY <2>1, <2>2 DEF WalletInv, LoanIds
<1>10. acct.delegated >= profile.debt => acct'.delegated >= profile'.debt
    BY <1>1, <1>2, <1>7, <1>8 DEF Less
<1> QED
    BY <1>7, <1>8, <1>9, <1>10 DEF WalletInv, KeepsBacking

LEMMA CreateLoanKeepsBacking ==
    ASSUME WalletInv, now \in Nat,
           NEW order \in Orders, NEW principal \in Principals, NEW count \in Counts,
           NEW interval \in Intervals, CreateLoan(order, principal, count, interval)
    PROVE  WalletInv' /\ KeepsBacking
<1> DEFINE owed == principal + InterestFor(principal, count * interval)
           loan == [order |-> order, principal |-> principal, owed |-> owed, repaid |-> 0,
                    count |-> count, paid |-> 0, started |-> now, interval |-> interval,
                    status |-> "active"]
<1>1. principal \in Nat /\ count \in Nat \ {0} /\ interval \in Nat
    BY CreditAssumption DEF CreateLoan
<1>2. owed \in Nat
    <2>1. count * interval \in Nat
        BY <1>1, OneMorePeriod
    <2>2. principal * InterestRateBps \in Nat
        BY <1>1 DEF InterestRateBps
    <2>3. principal * InterestRateBps * (count * interval) \in Nat
        <3> DEFINE x == principal * InterestRateBps
                   y == count * interval
        <3> HIDE DEF x, y
        <3>1. x * y \in Nat
            BY <2>1, <2>2, OneMorePeriod DEF x, y
        <3> QED BY <3>1 DEF x, y
    <2>4. 10000 * Year \in Nat \ {0}
        BY ProtocolAssumption
    <2>5. InterestFor(principal, count * interval) \in Nat
        BY <2>3, <2>4, QuotientFloor DEF InterestFor
    <2> QED BY <1>1, <2>5
<1> HIDE DEF owed
<1>3. /\ acct.delegated >= profile.debt + owed
      /\ loans' = Append(loans, loan) /\ profile' = [Seeded EXCEPT !.debt = @ + owed]
      /\ acct' = acct
    BY DEF CreateLoan, Backed, Delegated, clusterVars, owed
<1>4. HasCredit(Seeded) /\ Seeded.debt = profile.debt
    BY DEF WalletInv, HasCredit, Seeded
<1>5. HasCredit(profile') /\ profile'.debt = profile.debt + owed
    BY <1>2, <1>3, <1>4 DEF HasCredit
<1>6. loan \in Loan
    BY <1>1, <1>2 DEF Loan
<1>7. loans' \in Seq(Loan)
    <2> HIDE DEF loan
    <2> QED BY <1>3, <1>6 DEF WalletInv
<1> QED
    BY <1>3, <1>5, <1>7 DEF WalletInv, KeepsBacking

LEMMA UnderwriteKeepsBacking ==
    ASSUME WalletInv, NEW e \in Evidence, Underwrite(e)
    PROVE  WalletInv' /\ KeepsBacking
<1>1. HasCredit(Seeded) /\ Seeded.debt = profile.debt
    BY DEF WalletInv, HasCredit, Seeded
<1>2. HasCredit(profile') /\ profile'.debt = profile.debt
    BY <1>1 DEF Underwrite, HasCredit
<1>3. acct' = acct /\ loans' = loans
    BY DEF Underwrite, clusterVars
<1> QED
    BY <1>2, <1>3 DEF WalletInv, KeepsBacking

LEMMA CollateralKeepsBacking ==
    ASSUME WalletInv, NEW amount \in LockAmounts,
           LockCollateral(amount) \/ WithdrawCollateral(amount)
    PROVE  WalletInv' /\ KeepsBacking
<1>1. amount \in Nat
    BY CreditAssumption
<1>2. HasCredit(Seeded) /\ Seeded.debt = profile.debt
    BY DEF WalletInv, HasCredit, Seeded
<1>3. HasCredit(profile') /\ profile'.debt = profile.debt
    BY <1>1, <1>2 DEF LockCollateral, WithdrawCollateral, WalletInv, HasCredit
<1>4. acct' \in Account /\ acct'.delegated = acct.delegated
    BY <1>1 DEF LockCollateral, WithdrawCollateral, Sent, WalletInv, Account
<1>5. loans' = loans
    BY DEF LockCollateral, WithdrawCollateral
<1> QED
    BY <1>3, <1>4, <1>5 DEF WalletInv, KeepsBacking

(* Money may be sent or pulled for something else: the account stays one,  *)
(* and the debt is not touched.                                            *)
LEMMA BillingKeepsWallet ==
    ASSUME WalletInv, BillingInv, BillingNext, UNCHANGED creditVars
    PROVE  WalletInv' /\ (sub' = sub => KeepsBacking)
<1>1. profile' = profile /\ loans' = loans
    BY DEF creditVars
<1>2. CASE \E order \in Orders, amount \in Prices : Pay(order, amount)
    <2> PICK order \in Orders, amount \in Prices : Pay(order, amount)
        BY <1>2
    <2>1. acct' \in Account /\ acct'.delegated = acct.delegated
        BY BillingAssumption DEF Pay, Sent, WalletInv, Account
    <2> QED BY <1>1, <2>1 DEF WalletInv, KeepsBacking
<1>3. CASE Subscribe
    <2>1. plan.price \in Nat
        BY DEF BillingInv, Plan
    <2>2. acct' \in Account /\ acct'.delegated = acct.delegated
        BY <1>3, <2>1 DEF Subscribe, Sent, WalletInv, Account
    <2> QED BY <1>1, <2>2 DEF WalletInv, KeepsBacking
<1>4. CASE ChargeDue
    <2>1. plan.price \in Nat /\ sub \in Subscription
        BY DEF BillingInv, Plan
    <2>2. CASE WindowOver(sub, now)
        BY <1>1, <1>4, <2>2 DEF ChargeDue, WalletInv, KeepsBacking
    <2>3. CASE ~WindowOver(sub, now)
        <3>1. /\ acct' = [acct EXCEPT !.amount = @ - plan.price, !.delegated = @ - plan.price]
              /\ plan.price <= acct.delegated /\ sub' = Charged(sub, now, plan.period)
            BY <1>4, <2>3 DEF ChargeDue, Chargeable, Pullable, Pulled
        <3>2. acct' \in Account
            <4>1. acct \in Account /\ plan.price \in Int
                BY <2>1 DEF WalletInv
            <4> DEFINE n == plan.price
            <4> HIDE DEF n
            <4>2. n \in Int /\ n <= acct.delegated
                BY <3>1, <4>1 DEF n
            <4>3. [acct EXCEPT !.amount = @ - n, !.delegated = @ - n] \in Account
                BY <4>1, <4>2, AccountMoves
            <4> QED BY <3>1, <4>3 DEF n
        <3>3. sub' # sub
            <4>1. sub.charged \in Nat
                BY <2>1 DEF Subscription
            <4>2. Charged(sub, now, plan.period).charged = sub.charged + 1
                BY <2>1 DEF Charged, Subscription
            <4> QED BY <3>1, <4>1, <4>2
        <3> QED BY <1>1, <3>2, <3>3 DEF WalletInv
    <2> QED BY <2>2, <2>3
<1>5. CASE acct' = acct
    BY <1>1, <1>5 DEF WalletInv, KeepsBacking
<1> QED
    BY <1>2, <1>3, <1>4, <1>5
       DEF BillingNext, CreatePlan, DeactivatePlan, CancelSubscription, clusterVars

LEMMA CreditKeepsBacking ==
    ASSUME WalletInv, now \in Nat, CreditNext
    PROVE  WalletInv' /\ KeepsBacking
<1>1. CASE \E e \in Evidence : Underwrite(e)
    BY <1>1, UnderwriteKeepsBacking
<1>2. CASE \E amount \in LockAmounts : LockCollateral(amount) \/ WithdrawCollateral(amount)
    BY <1>2, CollateralKeepsBacking
<1>3. CASE \E order \in Orders, principal \in Principals, count \in Counts,
              interval \in Intervals : CreateLoan(order, principal, count, interval)
    BY <1>3, CreateLoanKeepsBacking
<1>4. CASE \E id \in LoanIds, asked \in RepayAmounts : Repay(id, asked)
    BY <1>4, RepayKeepsBacking
<1>5. CASE \E id \in LoanIds : Collect(id) \/ Liquidate(id)
    BY <1>5, CollectKeepsBacking, LiquidateKeepsBacking
<1> QED
    BY <1>1, <1>2, <1>3, <1>4, <1>5 DEF CreditNext

LEMMA OwnerKeepsAccount ==
    ASSUME WalletInv, OwnerMoves, UNCHANGED creditVars
    PROVE  WalletInv'
<1>1. acct \in Account /\ acct.amount \in Int /\ acct.elsewhere \in Int
    BY DEF WalletInv, Account
<1>2. acct' \in Account
    <2>1. CASE \E n \in Delegations : acct' = [acct EXCEPT !.delegated = n]
        BY <1>1, <2>1, ClusterAssumption DEF Account
    <2>2. ASSUME NEW n \in Transfers, acct' = [Sent(n) EXCEPT !.elsewhere = @ + n]
          PROVE  acct' \in Account
        <3>1. n \in Int /\ acct.amount - n \in Int /\ acct.elsewhere + n \in Int
            BY <1>1, ClusterAssumption
        <3>2. acct' = [acct EXCEPT !.amount = acct.amount - n, !.elsewhere = acct.elsewhere + n]
            BY <1>1, <2>2 DEF Sent, Account
        <3> QED BY <1>1, <3>1, <3>2 DEF Account
    <2>3. ASSUME NEW n \in Transfers,
                 acct' = [acct EXCEPT !.amount = @ + n, !.elsewhere = @ - n]
          PROVE  acct' \in Account
        <3>1. n \in Int /\ acct.amount + n \in Int /\ acct.elsewhere - n \in Int
            BY <1>1, ClusterAssumption
        <3>2. acct' = [acct EXCEPT !.amount = acct.amount + n, !.elsewhere = acct.elsewhere - n]
            BY <1>1, <2>3 DEF Account
        <3> QED BY <1>1, <3>1, <3>2 DEF Account
    <2>4. CASE Close \/ Reopen
        <3>1. CASE Close
            BY <1>1, <3>1 DEF Close, Account
        <3>2. CASE Reopen
            BY <1>1, <3>2 DEF Reopen, Account
        <3> QED BY <2>4, <3>1, <3>2
    <2> QED BY <2>1, <2>2, <2>3, <2>4 DEF OwnerMoves, Approve, MoveOut, MoveIn
<1> QED
    BY <1>2 DEF WalletInv, creditVars

(* A loan stays on the list for good, so a batch read earlier still names  *)
(* loans.                                                                  *)
BatchInv == job \in {"collect", "liquidate"} => batch \subseteq LoanIds

LEMMA PaidLoansStay ==
    ASSUME WalletInv, NEW id \in LoanIds, NEW l, loans' = [loans EXCEPT ![id] = l]
    PROVE  LoanIds' = LoanIds
BY DEF WalletInv, LoanIds

LEMMA CreditKeepsLoans ==
    ASSUME WalletInv, CreditNext
    PROVE  LoanIds \subseteq LoanIds'
<1>1. CASE loans' = loans
    BY <1>1 DEF LoanIds
<1>2. CASE \E l : loans' = Append(loans, l)
    <2> PICK l : loans' = Append(loans, l)
        BY <1>2
    <2>1. Len(loans') = Len(loans) + 1 /\ Len(loans) \in Nat
        BY DEF WalletInv
    <2> QED BY <2>1 DEF LoanIds
<1>3. CASE \E id \in LoanIds : \E l : loans' = [loans EXCEPT ![id] = l]
    BY <1>3, PaidLoansStay
<1>4. CASE \E e \in Evidence : Underwrite(e)
    BY <1>1, <1>4 DEF Underwrite
<1>5. CASE \E amount \in LockAmounts : LockCollateral(amount) \/ WithdrawCollateral(amount)
    BY <1>1, <1>5 DEF LockCollateral, WithdrawCollateral
<1>6. CASE \E order \in Orders, principal \in Principals, count \in Counts,
              interval \in Intervals : CreateLoan(order, principal, count, interval)
    BY <1>2, <1>6 DEF CreateLoan
<1>7. ASSUME NEW id \in LoanIds, NEW amount, ApplyRepayment(id, amount)
      PROVE  LoanIds \subseteq LoanIds'
    BY <1>3, <1>7 DEF ApplyRepayment
<1>8. CASE \E id \in LoanIds, asked \in RepayAmounts : Repay(id, asked)
    BY <1>7, <1>8 DEF Repay
<1>9. CASE \E id \in LoanIds : Collect(id)
    BY <1>7, <1>9 DEF Collect
<1>10. CASE \E id \in LoanIds : Liquidate(id)
    <2> PICK id \in LoanIds : Liquidate(id)
        BY <1>10
    <2>1. Len(loans') = Len(loans)
        BY DEF Liquidate, WalletInv, LoanIds
    <2> QED BY <2>1 DEF LoanIds
<1> QED
    BY <1>4, <1>5, <1>6, <1>8, <1>9, <1>10 DEF CreditNext

LEMMA StepKeepsWallet ==
    ASSUME WalletInv, BillingInv, BatchInv, [Next]_vars
    PROVE  /\ WalletInv' /\ LoanIds \subseteq LoanIds'
           /\ ~OwnerMoves /\ sub' = sub => KeepsBacking
<1>1. now \in Nat
    BY DEF BillingInv
<1>2. CASE CreditNext
    BY <1>1, <1>2, CreditKeepsBacking, CreditKeepsLoans
<1>3. CASE BillingNext /\ UNCHANGED creditVars
    BY <1>3, BillingKeepsWallet DEF creditVars, LoanIds
<1>4. CASE OwnerMoves /\ UNCHANGED creditVars
    BY <1>4, OwnerKeepsAccount DEF creditVars, LoanIds
<1>5. CASE UNCHANGED <<acct, creditVars>>
    BY <1>5 DEF WalletInv, KeepsBacking, creditVars, LoanIds
<1>6. CASE \E id \in batch : Execute(id)
    <2> PICK id \in batch : Execute(id)
        BY <1>6
    <2>1. CASE UNCHANGED programVars
        BY <1>5, <2>1 DEF programVars, clusterVars
    <2>2. CASE job = "collect" /\ Collect(id)
        BY <1>2, <2>2 DEF BatchInv, CreditNext
    <2>3. CASE job = "liquidate" /\ Liquidate(id)
        BY <1>2, <2>3 DEF BatchInv, CreditNext
    <2>4. CASE ChargeDue /\ UNCHANGED creditVars
        BY <1>3, <2>4 DEF BillingNext
    <2> QED
        BY <2>1, <2>2, <2>3, <2>4 DEF Execute, Instruction
<1> QED
    BY <1>2, <1>3, <1>4, <1>5, <1>6
       DEF Next, Program, KeeperNext, Outage, Tick, vars, programVars, clusterVars

LEMMA StepKeepsBatch ==
    ASSUME BatchInv, [Next]_vars, LoanIds \subseteq LoanIds'
    PROVE  BatchInv'
<1>1. CASE job' = job /\ batch' \subseteq batch
    BY <1>1 DEF BatchInv
<1>2. CASE job' = "sleep"
    BY <1>2 DEF BatchInv
<1>3. CASE NextJob
    <2>1. CASE \E n \in Ahead : job' = Jobs[n] /\ batch' = Found(n)
        <3> PICK n \in Ahead : job' = Jobs[n] /\ batch' = Found(n)
            BY <2>1
        <3>1. n \in {1, 2, 3}
            <4>1. Position \in 0..3
                BY DEF Position, Jobs
            <4> QED BY <4>1 DEF Ahead
        <3>2. Due \subseteq LoanIds /\ Candidates \subseteq LoanIds
            BY DEF Due, Candidates
        <3> QED BY <3>1, <3>2 DEF BatchInv, Jobs, Found
    <2> QED BY <1>2, <1>3, <2>1 DEF NextJob
<1> QED
    BY <1>1, <1>2, <1>3 DEF Next, KeeperNext, Execute, Outage, vars, keeperVars

LEMMA WalletAlwaysKept == Spec => [](WalletInv /\ BatchInv /\ BillingInv)
<1>1. Init => WalletInv /\ BatchInv
    BY ClusterAssumption DEF Init, ProgramInit, ClusterInit, CreditInit, WalletInv, BatchInv,
       Account, HasCredit
<1>2. WalletInv /\ BatchInv /\ BillingInv /\ [Next]_vars => WalletInv' /\ BatchInv'
    BY StepKeepsWallet, StepKeepsBatch
<1> QED
    BY <1>1, <1>2, BillingAlwaysKept, PTL DEF Spec

(* One delegation backs every open plan at once: once it covers what the   *)
(* wallet owes, no loan, collection, liquidation or payment at the counter *)
(* leaves it short, whatever the amounts, the schedule and the keeper do.  *)
THEOREM DelegationStaysBacked == Spec => BackedUnlessRenewed
<1>1. WalletInv /\ BatchInv /\ BillingInv /\ [Next]_vars
         => [/\ acct.delegated >= profile.debt
             /\ ~OwnerMoves
             /\ sub' = sub
             => acct'.delegated >= profile'.debt]_programVars
    BY StepKeepsWallet DEF KeepsBacking
<1> QED
    BY <1>1, WalletAlwaysKept, PTL DEF Spec, BackedUnlessRenewed

-----------------------------------------------------------------------------
(* The schedule of one loan.                                               *)

LoanRecord ==
    [order : Orders, principal : Nat, owed : Nat, repaid : Nat,
     count : 1..MaxInstallments, paid : 0..MaxInstallments,
     started : 0..MaxTime, interval : Nat,
     status : {"active", "repaid", "liquidated"}]

(* The counter of instalments says neither more nor less than the money.   *)
CountMatchesMoney(l) ==
    /\ \A j \in 1..l.paid : l.repaid >= Threshold(l, j)
    /\ l.paid = l.count \/ l.repaid < Threshold(l, l.paid + 1)

(* A loan never brings in more than it is owed, and is active exactly as   *)
(* long as something is missing.                                           *)
SoundLoan ==
    {l \in LoanRecord :
        /\ 0 < l.principal /\ l.principal <= l.owed
        /\ l.repaid <= l.owed /\ l.paid <= l.count
        /\ l.status = "active" => l.repaid < l.owed
        /\ l.status = "repaid" => l.repaid = l.owed
        /\ l.status # "liquidated" => CountMatchesMoney(l)}

LEMMA SoundFields ==
    ASSUME NEW l \in SoundLoan
    PROVE  /\ l \in LoanRecord /\ l \in Loan
           /\ l.principal \in Nat /\ l.owed \in Nat \ {0} /\ l.repaid \in Nat
           /\ l.count \in Nat \ {0} /\ l.paid \in Nat /\ l.paid <= l.count
           /\ l.count \in 1..MaxInstallments
           /\ l.started \in Nat /\ l.interval \in Nat
           /\ l.status \in {"active", "repaid", "liquidated"}
           /\ l.principal <= l.owed /\ l.repaid <= l.owed
           /\ Remaining(l) = l.owed - l.repaid /\ Remaining(l) \in Nat
<1>1. l \in LoanRecord /\ 0 < l.principal /\ l.principal <= l.owed
      /\ l.repaid <= l.owed /\ l.paid <= l.count
    BY DEF SoundLoan
<1>2. /\ l.principal \in Nat /\ l.owed \in Nat /\ l.repaid \in Nat
      /\ l.count \in 1..MaxInstallments /\ l.paid \in 0..MaxInstallments
      /\ l.started \in 0..MaxTime /\ l.interval \in Nat
      /\ l.status \in {"active", "repaid", "liquidated"}
    BY <1>1 DEF LoanRecord
<1>3. l \in Loan
    BY <1>1, ClusterAssumption DEF LoanRecord, Loan, MaxInstallments
<1> QED
    BY <1>1, <1>2, <1>3, ClusterAssumption DEF Remaining, Less, MaxInstallments

(* A quotient rounded up.                                                  *)
LEMMA RoundedUp ==
    ASSUME NEW a \in Nat, NEW b \in Nat \ {0}
    PROVE  /\ (a + b - 1) \div b \in Nat
           /\ b * ((a + b - 1) \div b) <= a + b - 1
           /\ a + b - 1 < b * ((a + b - 1) \div b) + b
<1>1. ASSUME NEW c \in Nat
      PROVE  c \div b \in Nat /\ b * (c \div b) <= c /\ c < b * (c \div b) + b
    OBVIOUS
<1>2. a + b - 1 \in Nat
    OBVIOUS
<1> QED
    BY <1>1, <1>2

LEMMA ThresholdIsNatural ==
    ASSUME NEW l, l.count \in Nat \ {0}, l.owed \in Nat, NEW k \in Nat
    PROVE  Threshold(l, k) \in Nat
<1>1. l.owed * k \in Nat
    BY OneMorePeriod
<1>2. (l.owed * k + l.count - 1) \div l.count \in Nat
    BY <1>1, RoundedUp
<1> QED
    BY <1>2 DEF Threshold

(* The first instalment costs something and none costs more than the debt. *)
LEMMA ThresholdBounds ==
    ASSUME NEW l, l.count \in Nat \ {0}, l.owed \in Nat \ {0}, NEW k \in Nat \ {0}
    PROVE  0 < Threshold(l, k) /\ Threshold(l, k) <= l.owed
<1> DEFINE n == l.count
           o == l.owed
           q == (o * k + n - 1) \div n
<1>1. CASE k >= n
    BY <1>1 DEF Threshold
<1>2. CASE k < n
    <2>1. o * k \in Nat /\ o * k > 0
        BY OneMorePeriod
    <2>2. /\ q \in Nat /\ n * q <= o * k + n - 1 /\ o * k + n - 1 < n * q + n
        BY <2>1, RoundedUp
    <2>3. Threshold(l, k) = q
        BY <1>2 DEF Threshold
    <2> HIDE DEF q, n, o
    <2>4. n \in Nat /\ 0 < n /\ o \in Nat /\ 0 < o /\ k < n /\ n * q \in Nat
        <3>1. n \in Nat /\ 0 < n /\ o \in Nat /\ 0 < o
            BY DEF n, o
        <3> QED BY <1>2, <2>2, <3>1 DEF n
    <2>5. q # 0
        <3> SUFFICES ASSUME q = 0 PROVE FALSE
            OBVIOUS
        <3>1. n * q = 0
            BY <2>4
        <3> QED BY <2>1, <2>2, <2>4, <3>1
    <2>6. q <= o
        <3> SUFFICES ASSUME o + 1 <= q PROVE FALSE
            BY <2>2, <2>4
        <3>1. (o + 1) * n <= q * n
            BY <2>2, <2>4
        <3>2. o * k <= o * n
            BY <2>4
        <3>3. (o + 1) * n = o * n + n /\ q * n = n * q /\ o * n \in Nat
            BY <2>2, <2>4
        <3> QED BY <2>1, <2>2, <2>4, <3>1, <3>2, <3>3
    <2> QED BY <2>2, <2>3, <2>5, <2>6 DEF o
<1> QED
    BY <1>1, <1>2

LEMMA ThresholdClimbs ==
    ASSUME NEW l, l.count \in Nat \ {0}, l.owed \in Nat \ {0},
           NEW k \in Nat, NEW m \in Nat, k <= m
    PROVE  Threshold(l, k) <= Threshold(l, m)
<1> DEFINE n == l.count
           o == l.owed
<1>0. n \in Nat /\ 0 < n /\ o \in Nat
    OBVIOUS
<1>1. CASE k = 0
    <2>1. Threshold(l, k) = 0 /\ Threshold(l, m) \in Nat
        BY <1>1, ThresholdIsNatural DEF Threshold
    <2> QED BY <2>1
<1>2. CASE k # 0 /\ m >= n
    <2>1. Threshold(l, m) = o
        BY <1>0, <1>2 DEF Threshold
    <2>2. Threshold(l, k) <= o
        BY <1>2, ThresholdBounds
    <2> QED BY <2>1, <2>2
<1>3. CASE k # 0 /\ m < n
    <2> DEFINE p == (o * k + n - 1) \div n
               q == (o * m + n - 1) \div n
    <2>1. Threshold(l, k) = p /\ Threshold(l, m) = q
        BY <1>0, <1>3 DEF Threshold
    <2> HIDE DEF n, o
    <2>2. o * k \in Nat /\ o * m \in Nat /\ o * k <= o * m
        BY <1>0
    <2>3. o * m + n - 1 \in Nat /\ o * k + n - 1 <= o * m + n - 1
        BY <1>0, <2>2
    <2>4. p \in Nat /\ n * p <= o * k + n - 1
        BY <1>0, <2>2, RoundedUp
    <2>5. \A w \in Nat : w * n <= o * m + n - 1 => w <= q
        BY <1>0, <2>3, QuotientFloor
    <2> HIDE DEF p, q
    <2>6. p * n = n * p /\ n * p \in Nat
        BY <1>0, <2>4
    <2>7. p * n <= o * m + n - 1
        BY <2>2, <2>3, <2>4, <2>6, <1>0
    <2>8. p <= q
        BY <2>4, <2>5, <2>7
    <2> QED BY <2>1, <2>8
<1> QED
    BY <1>1, <1>2, <1>3

-----------------------------------------------------------------------------
(* What the instructions make of one loan.                                 *)

(* After a payment, as ApplyRepayment leaves it.                           *)
Settled(l, amount) ==
    LET later  == [l EXCEPT !.repaid = @ + amount]
        earned == InstallmentsEarned(later)
    IN  [later EXCEPT !.paid = earned,
                      !.status = IF later.repaid >= l.owed THEN "repaid" ELSE @]

LEMMA SettledIsSound ==
    ASSUME NEW l \in SoundLoan, l.status = "active",
           NEW amount \in Nat, 0 < amount, amount <= Remaining(l)
    PROVE  LET end == Settled(l, amount)
           IN  /\ end \in SoundLoan
               /\ end.principal = l.principal /\ end.owed = l.owed /\ end.count = l.count
               /\ end.started = l.started /\ end.interval = l.interval
               /\ end.repaid = l.repaid + amount
               /\ end.status = IF end.repaid = l.owed THEN "repaid" ELSE "active"
               /\ end.paid = InstallmentsEarned([l EXCEPT !.repaid = @ + amount])
               /\ l.paid <= end.paid
<1> DEFINE r      == l.repaid + amount
           later  == [l EXCEPT !.repaid = @ + amount]
           earned == InstallmentsEarned(later)
           st     == IF r = l.owed THEN "repaid" ELSE "active"
           end    == Settled(l, amount)
<1>1. /\ l \in LoanRecord /\ l \in Loan /\ l.owed \in Nat \ {0} /\ l.repaid \in Nat
      /\ l.count \in Nat \ {0} /\ l.count \in 1..MaxInstallments
      /\ l.paid \in Nat /\ l.paid <= l.count
      /\ l.principal <= l.owed /\ 0 < l.principal
      /\ Remaining(l) = l.owed - l.repaid
    BY SoundFields DEF SoundLoan
<1>2. r \in Nat /\ r <= l.owed /\ l.repaid < r
    BY <1>1
<1>3. later = [l EXCEPT !.repaid = r]
    BY <1>1 DEF LoanRecord
<1> HIDE DEF r, later
<1>4. /\ later \in LoanRecord /\ later \in Loan
      /\ later.repaid = r /\ later.owed = l.owed /\ later.count = l.count
      /\ later.principal = l.principal /\ later.started = l.started
      /\ later.interval = l.interval /\ later.status = "active"
    BY <1>1, <1>2, <1>3 DEF LoanRecord, Loan
<1>5. /\ earned \in 0..l.count
      /\ \A j \in 1..earned : r >= Threshold(later, j)
      /\ earned = l.count \/ r < Threshold(later, earned + 1)
    BY <1>4, WalkStops
<1>6. earned \in 0..MaxInstallments /\ earned \in Nat /\ earned <= l.count
    BY <1>1, <1>5 DEF MaxInstallments
<1>7. end = [later EXCEPT !.paid = earned, !.status = st]
    <2>1. end = [later EXCEPT !.paid = earned,
                              !.status = IF later.repaid >= l.owed THEN "repaid" ELSE later.status]
        BY <1>4 DEF Settled, later, LoanRecord
    <2>2. (IF later.repaid >= l.owed THEN "repaid" ELSE later.status) = st
        BY <1>1, <1>2, <1>4
    <2> QED BY <2>1, <2>2
<1>8. st \in {"active", "repaid"}
    OBVIOUS
<1> HIDE DEF end, earned, st
<1>9. /\ end \in LoanRecord /\ end.paid = earned /\ end.status = st
      /\ end.repaid = r /\ end.owed = l.owed /\ end.count = l.count
      /\ end.principal = l.principal /\ end.started = l.started
      /\ end.interval = l.interval
    BY <1>4, <1>6, <1>7, <1>8 DEF LoanRecord
<1>10. \A k : Threshold(end, k) = Threshold(later, k) /\ Threshold(l, k) = Threshold(later, k)
    BY <1>4, <1>9 DEF Threshold
<1>11. CountMatchesMoney(end)
    BY <1>5, <1>9, <1>10 DEF CountMatchesMoney
<1>12. end \in SoundLoan
    BY <1>1, <1>2, <1>6, <1>9, <1>11 DEF SoundLoan, st
<1>13. l.paid <= earned
    <2> SUFFICES ASSUME earned < l.paid PROVE FALSE
        BY <1>1, <1>6
    <2>1. earned + 1 \in 1..l.paid /\ earned # l.count
        BY <1>1, <1>6
    <2>2. l.repaid >= Threshold(l, earned + 1)
        BY <1>1, <2>1 DEF SoundLoan, CountMatchesMoney
    <2>3. r < Threshold(l, earned + 1)
        BY <1>5, <1>10, <2>1
    <2>4. Threshold(l, earned + 1) \in Int
        BY <1>1, <1>6, ThresholdIsInteger
    <2> QED BY <1>1, <1>2, <2>2, <2>3, <2>4
<1> QED
    BY <1>9, <1>12, <1>13 DEF end, earned, later, st, r

(* After a liquidation that brought in what brings the loan to r.          *)
Closed(l, r) == [l EXCEPT !.status = "liquidated", !.repaid = r]

LEMMA ClosedIsSound ==
    ASSUME NEW l \in SoundLoan, NEW r \in Nat, r <= l.owed
    PROVE  LET end == Closed(l, r)
           IN  /\ end \in SoundLoan
               /\ end.principal = l.principal /\ end.owed = l.owed /\ end.count = l.count
               /\ end.started = l.started /\ end.interval = l.interval
               /\ end.paid = l.paid /\ end.repaid = r /\ end.status = "liquidated"
<1> DEFINE end == Closed(l, r)
<1>1. l \in LoanRecord /\ 0 < l.principal /\ l.principal <= l.owed /\ l.paid <= l.count
    BY DEF SoundLoan
<1>2. /\ end \in LoanRecord /\ end.status = "liquidated" /\ end.repaid = r
      /\ end.principal = l.principal /\ end.owed = l.owed /\ end.count = l.count
      /\ end.started = l.started /\ end.interval = l.interval /\ end.paid = l.paid
    BY <1>1 DEF LoanRecord, Closed
<1> HIDE DEF end
<1> QED
    BY <1>1, <1>2 DEF SoundLoan, end

(* A new loan.                                                             *)
Written(order, principal, owed, count, interval, t) ==
    [order |-> order, principal |-> principal, owed |-> owed, repaid |-> 0,
     count |-> count, paid |-> 0, started |-> t, interval |-> interval,
     status |-> "active"]

LEMMA WrittenIsSound ==
    ASSUME NEW order \in Orders, NEW principal \in Nat, 0 < principal,
           NEW owed \in Nat, principal <= owed, NEW count \in 1..MaxInstallments,
           NEW interval \in Nat, NEW t \in 0..MaxTime
    PROVE  Written(order, principal, owed, count, interval, t) \in SoundLoan
<1> DEFINE l == Written(order, principal, owed, count, interval, t)
<1>1. /\ l \in LoanRecord /\ l.principal = principal /\ l.owed = owed /\ l.repaid = 0
      /\ l.count = count /\ l.paid = 0 /\ l.status = "active"
    BY DEF Written, LoanRecord, MaxInstallments
<1> HIDE DEF l
<1>2. count \in Nat \ {0} /\ owed \in Nat \ {0}
    BY DEF MaxInstallments
<1>3. 0 < Threshold(l, 0 + 1)
    BY <1>1, <1>2, ThresholdBounds
<1>4. CountMatchesMoney(l)
    BY <1>1, <1>3 DEF CountMatchesMoney
<1> QED
    BY <1>1, <1>2, <1>4 DEF SoundLoan, l

-----------------------------------------------------------------------------
(* Totals over the book of loans.                                          *)

Total(f, book) == SumTo([i \in 1..Len(book) |-> f[book[i]]], Len(book))

LEMMA TableIs ==
    ASSUME NEW f \in [SoundLoan -> Nat], NEW book \in Seq(SoundLoan)
    PROVE  /\ Len(book) \in Nat
           /\ [i \in 1..Len(book) |-> f[book[i]]] \in [1..Len(book) -> Nat]
           /\ [i \in 1..Len(book) |-> f[book[i]]] \in [1..Len(book) -> Int]
<1>1. Len(book) \in Nat /\ \A i \in 1..Len(book) : book[i] \in SoundLoan
    OBVIOUS
<1>2. \A i \in 1..Len(book) : f[book[i]] \in Nat
    BY <1>1
<1> QED
    BY <1>1, <1>2

LEMMA TotalBounds ==
    ASSUME NEW f \in [SoundLoan -> Nat], NEW book \in Seq(SoundLoan)
    PROVE  /\ Total(f, book) \in Nat
           /\ \A i \in 1..Len(book) : f[book[i]] <= Total(f, book)
<1> DEFINE c == [i \in 1..Len(book) |-> f[book[i]]]
<1>1. Len(book) \in Nat /\ c \in [1..Len(book) -> Nat] /\ \A i \in 1..Len(book) : c[i] = f[book[i]]
    BY TableIs
<1> HIDE DEF c
<1>2. SumTo(c, Len(book)) \in Nat /\ \A k \in 1..Len(book) : c[k] <= SumTo(c, Len(book))
    BY <1>1, SumBounds
<1> QED
    BY <1>1, <1>2 DEF Total, c

LEMMA TotalAfterOpen ==
    ASSUME NEW f \in [SoundLoan -> Nat], NEW book \in Seq(SoundLoan), NEW l \in SoundLoan
    PROVE  /\ Append(book, l) \in Seq(SoundLoan)
           /\ Total(f, Append(book, l)) = Total(f, book) + f[l]
<1> DEFINE n == Len(book)
           new == Append(book, l)
           c == [i \in 1..Len(book) |-> f[book[i]]]
           d == [i \in 1..Len(new) |-> f[new[i]]]
<1>1. /\ n \in Nat /\ new \in Seq(SoundLoan) /\ Len(new) = n + 1
      /\ (\A i \in 1..n : new[i] = book[i]) /\ new[n + 1] = l
    OBVIOUS
<1> HIDE DEF new
<1>2. c \in [1..n -> Int]
    BY TableIs
<1>3. d \in [1..n + 1 -> Int]
    <2>1. d \in [1..Len(new) -> Int]
        BY <1>1, TableIs
    <2> QED BY <1>1, <2>1
<1>4. (\A i \in 1..n : d[i] = c[i]) /\ d[n + 1] = f[l]
    BY <1>1
<1> HIDE DEF n, c, d
<1>5. SumTo(d, n + 1) = SumTo(c, n) + d[n + 1]
    BY <1>1, <1>2, <1>3, <1>4, SumExtend
<1> QED
    BY <1>1, <1>4, <1>5 DEF Total, n, c, d, new

LEMMA TotalAfterChange ==
    ASSUME NEW f \in [SoundLoan -> Nat], NEW book \in Seq(SoundLoan),
           NEW id \in 1..Len(book), NEW l \in SoundLoan
    PROVE  /\ [book EXCEPT ![id] = l] \in Seq(SoundLoan)
           /\ Len([book EXCEPT ![id] = l]) = Len(book)
           /\ Total(f, [book EXCEPT ![id] = l]) = Total(f, book) + f[l] - f[book[id]]
<1> DEFINE n == Len(book)
           new == [book EXCEPT ![id] = l]
           c == [i \in 1..Len(book) |-> f[book[i]]]
           d == [i \in 1..Len(new) |-> f[new[i]]]
<1>1. /\ n \in Nat /\ id \in 1..n /\ new \in Seq(SoundLoan) /\ Len(new) = n
      /\ (\A i \in 1..n : i # id => new[i] = book[i]) /\ new[id] = l
    OBVIOUS
<1> HIDE DEF new
<1>2. c \in [1..n -> Int]
    BY TableIs
<1>3. d \in [1..n -> Int]
    <2>1. d \in [1..Len(new) -> Int]
        BY <1>1, TableIs
    <2> QED BY <1>1, <2>1
<1>4. (\A i \in 1..n : i # id => d[i] = c[i]) /\ d[id] = f[l] /\ c[id] = f[book[id]]
    BY <1>1
<1> HIDE DEF n, c, d
<1>5. SumTo(d, n) = SumTo(c, n) + d[id] - c[id]
    BY <1>1, <1>2, <1>3, <1>4, SumUpdate
<1> QED
    BY <1>1, <1>4, <1>5 DEF Total, n, c, d, new

LEMMA TotalMoves ==
    ASSUME NEW f \in [SoundLoan -> Nat], NEW book \in Seq(SoundLoan),
           NEW id \in 1..Len(book), NEW l \in SoundLoan,
           NEW x \in Int, f[l] = f[book[id]] + x
    PROVE  Total(f, [book EXCEPT ![id] = l]) = Total(f, book) + x
<1>1. Total(f, [book EXCEPT ![id] = l]) = Total(f, book) + f[l] - f[book[id]]
    BY TotalAfterChange
<1>2. Total(f, book) \in Nat
    BY TotalBounds
<1>3. f[book[id]] \in Nat
    <2>1. book[id] \in SoundLoan
        OBVIOUS
    <2> QED BY <2>1
<1> QED
    BY <1>1, <1>2, <1>3

(* What the program's totals count of a loan.                              *)
Owes == [l \in SoundLoan |-> IF l.status = "active" THEN Remaining(l) ELSE 0]
Loses == [l \in SoundLoan |-> IF l.status = "liquidated" THEN Remaining(l) ELSE 0]
Lends == [l \in SoundLoan |-> l.principal]
Returns == [l \in SoundLoan |-> l.repaid]
Completes == [l \in SoundLoan |-> l.paid]

LEMMA CountersAre ==
    /\ Owes \in [SoundLoan -> Nat] /\ Loses \in [SoundLoan -> Nat]
    /\ Lends \in [SoundLoan -> Nat] /\ Returns \in [SoundLoan -> Nat]
    /\ Completes \in [SoundLoan -> Nat]
<1>1. \A l \in SoundLoan : /\ Remaining(l) \in Nat /\ l.principal \in Nat
                           /\ l.repaid \in Nat /\ l.paid \in Nat
    BY SoundFields
<1> QED
    BY <1>1 DEF Owes, Loses, Lends, Returns, Completes

OwingIn(book) == [id \in 1..Len(book) |-> IF book[id].status = "active" THEN Remaining(book[id]) ELSE 0]
LostIn(book) == [id \in 1..Len(book) |-> IF book[id].status = "liquidated" THEN Remaining(book[id]) ELSE 0]
PaidOutIn(book) == [id \in 1..Len(book) |-> book[id].principal]
PaidInIn(book) == [id \in 1..Len(book) |-> book[id].repaid]
CompletedIn(book) == [id \in 1..Len(book) |-> book[id].paid]

LEMMA TotalsOf ==
    ASSUME NEW book \in Seq(SoundLoan)
    PROVE  /\ SumTo(OwingIn(book), Len(book)) = Total(Owes, book)
           /\ SumTo(LostIn(book), Len(book)) = Total(Loses, book)
           /\ SumTo(PaidOutIn(book), Len(book)) = Total(Lends, book)
           /\ SumTo(PaidInIn(book), Len(book)) = Total(Returns, book)
           /\ SumTo(CompletedIn(book), Len(book)) = Total(Completes, book)
<1>1. \A i \in 1..Len(book) : book[i] \in SoundLoan
    OBVIOUS
<1> QED
    BY <1>1 DEF OwingIn, LostIn, PaidOutIn, PaidInIn, CompletedIn, Total,
                Owes, Loses, Lends, Returns, Completes

LEMMA SumsAreOfTheBook ==
    /\ Owing = OwingIn(loans) /\ Lost = LostIn(loans) /\ PaidOut = PaidOutIn(loans)
    /\ PaidIn = PaidInIn(loans) /\ Completed = CompletedIn(loans)
    /\ Owing' = OwingIn(loans') /\ Lost' = LostIn(loans') /\ PaidOut' = PaidOutIn(loans')
    /\ PaidIn' = PaidInIn(loans') /\ Completed' = CompletedIn(loans')
BY DEF Owing, Lost, PaidOut, PaidIn, Completed, OwingIn, LostIn, PaidOutIn, PaidInIn,
       CompletedIn, LoanIds, Remaining

-----------------------------------------------------------------------------
(* The books.                                                              *)

Profile ==
    [seen : BOOLEAN, score : 0..MaxScore,
     onTime : Nat, late : Nat, liquidations : Nat,
     debt : Nat, locked : Nat, seized : Nat,
     underwritten : BOOLEAN, evidence : Evidence \cup {NoEvidence}]

Purse == [open : BOOLEAN, amount : Nat, delegated : Nat, elsewhere : Nat]

(* What makes Sound inductive: every loan is sound by itself, and the      *)
(* wallet's money is never more than it began with.                        *)
SoundInv ==
    /\ now \in 0..MaxTime
    /\ acct \in Purse
    /\ acct.amount + acct.elsewhere + profile.locked <= Wealth
    /\ ProtocolTypeOK
    /\ profile \in Profile /\ loans \in Seq(SoundLoan)
    /\ paidOrders \subseteq Orders
    /\ profile.debt = Total(Owes, loans)
    /\ pool.badDebt = Total(Loses, loans)
    /\ pool.cash + Total(Lends, loans) + flows.swept
          = flows.supplied + Total(Returns, loans)

LEMMA SoundInvIsSound == SoundInv /\ BillingInv => Sound
<1> SUFFICES ASSUME SoundInv, BillingInv PROVE Sound
    OBVIOUS
<1>1. ClusterTypeOK
    <2>1. /\ acct.amount \in Nat /\ acct.elsewhere \in Nat /\ acct.delegated \in Nat
          /\ profile.locked \in Nat
        BY DEF SoundInv, Purse, Profile
    <2>2. acct.amount <= Wealth /\ acct.elsewhere <= Wealth
        BY <2>1, ClusterAssumption DEF SoundInv
    <2>3. /\ acct.open \in BOOLEAN
          /\ acct = [open |-> acct.open, amount |-> acct.amount,
                     delegated |-> acct.delegated, elsewhere |-> acct.elsewhere]
        BY DEF SoundInv, Purse
    <2> QED BY <2>1, <2>2, <2>3, ClusterAssumption DEF ClusterTypeOK, SoundInv
<1>2. CreditTypeOK
    <2>1. SoundLoan \subseteq LoanRecord
        BY DEF SoundLoan
    <2>2. loans \in Seq(LoanRecord)
        BY <2>1 DEF SoundInv
    <2> QED BY <2>2 DEF CreditTypeOK, SoundInv, Profile, LoanRecord
<1>3. BillingTypeOK
    BY DEF BillingTypeOK, BillingInv, SoundInv
<1>4. /\ SumTo(Owing, Len(loans)) = Total(Owes, loans)
      /\ SumTo(Lost, Len(loans)) = Total(Loses, loans)
      /\ SumTo(PaidOut, Len(loans)) = Total(Lends, loans)
      /\ SumTo(PaidIn, Len(loans)) = Total(Returns, loans)
    BY SumsAreOfTheBook, TotalsOf DEF SoundInv
<1> QED
    BY <1>1, <1>2, <1>3, <1>4 DEF Sound, SoundInv

LEMMA ProfileFields ==
    ASSUME NEW p \in Profile
    PROVE  /\ p.seen \in BOOLEAN /\ p.score \in 0..MaxScore
           /\ p.onTime \in Nat /\ p.late \in Nat /\ p.liquidations \in Nat
           /\ p.debt \in Nat /\ p.locked \in Nat /\ p.seized \in Nat
           /\ p.underwritten \in BOOLEAN
BY DEF Profile

LEMMA AdjustedRange ==
    ASSUME NEW s \in Int, NEW d \in Int
    PROVE  /\ Adjusted(s, d) \in MinScore..MaxScore /\ Adjusted(s, d) \in 0..MaxScore
           /\ s + d >= MinScore /\ s + d <= MaxScore => Adjusted(s, d) = s + d
           /\ Adjusted(s, d) = MinScore \/ Adjusted(s, d) <= s + d
BY DEF Adjusted, MinScore, MaxScore

(* Only a payment that completes an instalment is scored.                  *)
LEMMA ScoredIs ==
    ASSUME NEW p \in Profile, NEW onTime \in BOOLEAN, NEW completed \in BOOLEAN
    PROVE  LET q == Scored(p, onTime, completed)
           IN  /\ q \in Profile
               /\ q.seen = p.seen /\ q.liquidations = p.liquidations
               /\ q.debt = p.debt /\ q.locked = p.locked
               /\ q.underwritten = p.underwritten /\ q.evidence = p.evidence
               /\ ~completed => q = p
               /\ completed /\ onTime =>
                     /\ q.onTime = p.onTime + 1 /\ q.late = p.late
                     /\ q.score = Adjusted(p.score, OnTimeBonus)
               /\ completed /\ ~onTime =>
                     /\ q.onTime = p.onTime /\ q.late = p.late + 1
                     /\ q.score = Adjusted(p.score, -LatePenalty)
<1>1. p.score \in Int /\ p.onTime \in Nat /\ p.late \in Nat
    BY DEF Profile, MaxScore
<1> DEFINE u == Adjusted(p.score, OnTimeBonus)
           v == Adjusted(p.score, -LatePenalty)
           m == p.onTime + 1
           n == p.late + 1
<1>2. u \in 0..MaxScore /\ v \in 0..MaxScore /\ m \in Nat /\ n \in Nat
    <2>1. OnTimeBonus \in Int /\ -LatePenalty \in Int
        BY DEF OnTimeBonus, LatePenalty
    <2>2. u \in 0..MaxScore /\ v \in 0..MaxScore
        BY <1>1, <2>1, AdjustedRange
    <2> QED BY <1>1, <2>2
<1>3. Scored(p, onTime, completed) =
        IF ~completed THEN p
        ELSE IF onTime THEN [p EXCEPT !.onTime = m, !.score = u]
        ELSE [p EXCEPT !.late = n, !.score = v]
    BY DEF Scored, Profile
<1> HIDE DEF m, n, u, v
<1> QED
    BY <1>2, <1>3 DEF Profile, m, n, u, v

LEMMA SeededIs ==
    ASSUME profile \in Profile
    PROVE  /\ Seeded \in Profile /\ Seeded.seen
           /\ Seeded.onTime = profile.onTime /\ Seeded.late = profile.late
           /\ Seeded.liquidations = profile.liquidations
           /\ Seeded.debt = profile.debt /\ Seeded.locked = profile.locked
           /\ Seeded.seized = profile.seized
           /\ Seeded.underwritten = profile.underwritten
           /\ Seeded.evidence = profile.evidence
           /\ Seeded.score = IF profile.seen THEN profile.score ELSE StartingScore
<1>1. CASE profile.seen
    BY <1>1, ProfileFields DEF Seeded
<1>2. CASE ~profile.seen
    <2>1. StartingScore \in 0..MaxScore
        BY DEF StartingScore, MaxScore
    <2>2. Seeded = [profile EXCEPT !.seen = TRUE, !.score = StartingScore]
        BY <1>2 DEF Seeded
    <2> QED BY <1>2, <2>1, <2>2 DEF Profile
<1> QED
    BY <1>1, <1>2, ProfileFields

(* A payment on loan id, whoever sent it and whichever way the money came. *)
Payment(id, amount) ==
    /\ loans[id].status = "active"
    /\ amount \in Nat /\ 0 < amount /\ amount <= Remaining(loans[id])
    /\ amount <= acct.amount
    /\ acct' \in Purse
    /\ acct'.amount = acct.amount - amount /\ acct'.elsewhere = acct.elsewhere
    /\ ApplyRepayment(id, amount)
    /\ UNCHANGED <<now, multiplier, merchant, flows>>

LEMMA PurseMoves ==
    ASSUME NEW a \in Purse, NEW n \in Nat, n <= a.amount
    PROVE  /\ a.amount \in Nat /\ a.delegated \in Nat /\ a.elsewhere \in Nat
           /\ LET b == [a EXCEPT !.amount = @ - n]
              IN  b \in Purse /\ b.amount = a.amount - n /\ b.elsewhere = a.elsewhere
           /\ n <= a.delegated =>
                 LET b == [a EXCEPT !.amount = @ - n, !.delegated = @ - n]
                 IN  b \in Purse /\ b.amount = a.amount - n /\ b.elsewhere = a.elsewhere
<1>1. a.amount \in Nat /\ a.delegated \in Nat /\ a.elsewhere \in Nat
    BY DEF Purse
<1> DEFINE x == a.amount - n
           d == a.delegated - n
<1>2. x \in Nat /\ (n <= a.delegated => d \in Nat)
    BY <1>1
<1>3. /\ [a EXCEPT !.amount = @ - n] = [a EXCEPT !.amount = x]
      /\ [a EXCEPT !.amount = @ - n, !.delegated = @ - n]
            = [a EXCEPT !.amount = x, !.delegated = d]
    BY DEF Purse
<1> HIDE DEF x, d
<1>4. /\ [a EXCEPT !.amount = x] \in Purse
      /\ [a EXCEPT !.amount = x].amount = x
      /\ [a EXCEPT !.amount = x].elsewhere = a.elsewhere
    BY <1>1, <1>2 DEF Purse
<1>5. ASSUME d \in Nat
      PROVE  /\ [a EXCEPT !.amount = x, !.delegated = d] \in Purse
             /\ [a EXCEPT !.amount = x, !.delegated = d].amount = x
             /\ [a EXCEPT !.amount = x, !.delegated = d].elsewhere = a.elsewhere
    BY <1>1, <1>2, <1>5 DEF Purse
<1> QED
    BY <1>1, <1>2, <1>3, <1>4, <1>5 DEF x

(* The keeper's, or anybody's, collection takes what is missing of one     *)
(* instalment, which is never more than the loan.                          *)
LEMMA CollectIsAPayment ==
    ASSUME SoundInv, NEW id \in LoanIds, Collect(id)
    PROVE  Payment(id, InstallmentAmount(loans[id]))
<1> DEFINE l == loans[id]
           amount == InstallmentAmount(l)
<1>1. l \in SoundLoan
    BY DEF SoundInv, LoanIds
<1>2. /\ l.owed \in Nat \ {0} /\ l.repaid \in Nat /\ l.count \in Nat \ {0} /\ l.paid \in Nat
      /\ Remaining(l) = l.owed - l.repaid
    BY <1>1, SoundFields
<1>3. /\ l.status = "active" /\ l.paid < l.count /\ amount > 0
      /\ amount <= acct.delegated /\ amount <= acct.amount
      /\ acct' = [acct EXCEPT !.amount = @ - amount, !.delegated = @ - amount]
      /\ ApplyRepayment(id, amount)
      /\ UNCHANGED <<now, multiplier, merchant, flows>>
    BY DEF Collect, Collectable, IsDue, Pullable, Pulled
<1> HIDE DEF l
<1>4. l.paid + 1 \in Nat \ {0}
    BY <1>2
<1>5. Threshold(l, l.paid + 1) \in Nat /\ Threshold(l, l.paid + 1) <= l.owed
    BY <1>2, <1>4, ThresholdBounds, ThresholdIsNatural
<1>6. amount = Less(Threshold(l, l.paid + 1), l.repaid)
    BY <1>2, <1>3 DEF InstallmentAmount
<1> HIDE DEF amount
<1>7. amount \in Nat /\ amount <= Remaining(l)
    BY <1>2, <1>3, <1>5, <1>6 DEF Less
<1>8. acct' \in Purse /\ acct'.amount = acct.amount - amount /\ acct'.elsewhere = acct.elsewhere
    BY <1>3, <1>7, PurseMoves DEF SoundInv
<1> QED
    BY <1>3, <1>7, <1>8 DEF Payment, l, amount

LEMMA RepayIsAPayment ==
    ASSUME SoundInv, NEW id \in LoanIds, NEW asked \in RepayAmounts, Repay(id, asked)
    PROVE  Payment(id, Lower(asked, Remaining(loans[id])))
<1> DEFINE amount == Lower(asked, Remaining(loans[id]))
<1>1. loans[id] \in SoundLoan
    BY DEF SoundInv, LoanIds
<1>2. Remaining(loans[id]) \in Nat /\ asked \in Nat
    BY <1>1, SoundFields, CreditAssumption
<1>3. amount \in Nat /\ amount <= Remaining(loans[id])
    BY <1>2 DEF Lower
<1>4. /\ loans[id].status = "active" /\ amount > 0 /\ amount <= acct.amount
      /\ acct' = [acct EXCEPT !.amount = @ - amount]
      /\ ApplyRepayment(id, amount)
      /\ UNCHANGED <<now, multiplier, merchant, flows>>
    BY DEF Repay, Payable, Sent
<1> HIDE DEF amount
<1>5. acct' \in Purse /\ acct'.amount = acct.amount - amount /\ acct'.elsewhere = acct.elsewhere
    BY <1>3, <1>4, PurseMoves DEF SoundInv
<1> QED
    BY <1>3, <1>4, <1>5 DEF Payment, amount

(* What a payment writes.                                                  *)
LEMMA PaymentWrites ==
    ASSUME SoundInv, NEW id \in LoanIds, NEW amount, Payment(id, amount)
    PROVE  LET old == loans[id]
               l   == Settled(old, amount)
               p   == [profile EXCEPT !.debt = @ - amount]
           IN  /\ old \in SoundLoan /\ l \in SoundLoan
               /\ loans' = [loans EXCEPT ![id] = l]
               /\ loans' \in Seq(SoundLoan) /\ LoanIds' = LoanIds
               /\ amount <= profile.debt /\ p \in Profile
               /\ p.debt = profile.debt - amount
               /\ profile' = Scored(p, now <= DueAt(old, old.paid) + Grace, l.paid > old.paid)
               /\ Owes[l] = Owes[old] - amount
               /\ Loses[l] = Loses[old]
               /\ Lends[l] = Lends[old]
               /\ Returns[l] = Returns[old] + amount
<1> DEFINE old == loans[id]
           l   == Settled(old, amount)
           p   == [profile EXCEPT !.debt = @ - amount]
<1>1. /\ loans \in Seq(SoundLoan) /\ id \in 1..Len(loans) /\ old \in SoundLoan
      /\ profile \in Profile /\ profile.debt \in Nat
      /\ profile.debt = Total(Owes, loans)
    BY DEF SoundInv, LoanIds, Profile
<1>2. /\ old.status = "active" /\ amount \in Nat /\ 0 < amount /\ amount <= Remaining(old)
      /\ ApplyRepayment(id, amount)
    BY DEF Payment
<1>3. /\ loans' = [loans EXCEPT ![id] = l]
      /\ profile' = Scored([profile EXCEPT !.debt = Less(@, amount)],
                           now <= DueAt(old, old.paid) + Grace,
                           InstallmentsEarned([old EXCEPT !.repaid = @ + amount]) > old.paid)
    BY <1>2 DEF ApplyRepayment, Settled
<1>4. /\ l \in SoundLoan
      /\ l.principal = old.principal /\ l.owed = old.owed /\ l.repaid = old.repaid + amount
      /\ l.status = IF l.repaid = old.owed THEN "repaid" ELSE "active"
      /\ l.paid = InstallmentsEarned([old EXCEPT !.repaid = @ + amount])
    BY <1>1, <1>2, SettledIsSound
<1> HIDE DEF l, old
<1>5. loans' \in Seq(SoundLoan) /\ LoanIds' = LoanIds
    BY <1>1, <1>3, <1>4 DEF LoanIds
<1>6. /\ Owes[old] = Remaining(old) /\ Loses[old] = 0
      /\ Lends[old] = old.principal /\ Returns[old] = old.repaid
    BY <1>1, <1>2 DEF Owes, Loses, Lends, Returns
<1>7. /\ Lends[l] = l.principal /\ Returns[l] = l.repaid /\ Loses[l] = 0
      /\ Owes[l] = Remaining(old) - amount
    <2>1. /\ Remaining(l) = l.owed - l.repaid /\ Remaining(old) = old.owed - old.repaid
          /\ l.owed \in Nat /\ l.repaid \in Nat /\ old.owed \in Nat /\ old.repaid \in Nat
        BY <1>1, <1>4, SoundFields
    <2>2. Remaining(l) = Remaining(old) - amount
        BY <1>2, <1>4, <2>1
    <2>3. CASE l.status = "active"
        BY <1>4, <2>2, <2>3 DEF Owes, Loses, Lends, Returns
    <2>4. CASE l.status = "repaid"
        <3>1. l.repaid = l.owed
            BY <1>4, <2>4
        <3>2. Remaining(old) - amount = 0
            BY <2>1, <2>2, <3>1
        <3> QED BY <1>4, <2>4, <3>2 DEF Owes, Loses, Lends, Returns
    <2> QED BY <1>4, <2>3, <2>4
<1>8. amount <= profile.debt
    <2>1. Owes[loans[id]] <= Total(Owes, loans) /\ Total(Owes, loans) \in Nat
        BY <1>1, CountersAre, TotalBounds
    <2>2. Remaining(old) \in Nat
        BY <1>1, SoundFields
    <2> QED BY <1>1, <1>2, <1>6, <2>1, <2>2 DEF old
<1>9. Less(profile.debt, amount) = profile.debt - amount /\ profile.debt - amount \in Nat
    BY <1>1, <1>2, <1>8 DEF Less
<1>10. /\ p \in Profile /\ p.debt = profile.debt - amount
       /\ p = [profile EXCEPT !.debt = Less(@, amount)]
    <2>1. p = [profile EXCEPT !.debt = profile.debt - amount]
        BY <1>1 DEF Profile
    <2>2. [profile EXCEPT !.debt = Less(@, amount)] = [profile EXCEPT !.debt = profile.debt - amount]
        BY <1>1, <1>9 DEF Profile
    <2> DEFINE d == profile.debt - amount
    <2> HIDE DEF d
    <2>3. d \in Nat
        BY <1>9 DEF d
    <2>4. [profile EXCEPT !.debt = d] \in Profile /\ [profile EXCEPT !.debt = d].debt = d
        BY <1>1, <2>3 DEF Profile
    <2> QED BY <2>1, <2>2, <2>4 DEF d
<1> HIDE DEF p
<1>11. profile' = Scored(p, now <= DueAt(old, old.paid) + Grace, l.paid > old.paid)
    BY <1>3, <1>4, <1>10
<1> QED
    BY <1>1, <1>3, <1>4, <1>5, <1>6, <1>7, <1>8, <1>10, <1>11 DEF old, l, p

LEMMA FeeIsNatural ==
    ASSUME NEW l \in SoundLoan, NEW amount \in Nat
    PROVE  FeeOn(l, amount) \in Nat
<1>1. l.owed \in Nat \ {0} /\ l.principal \in Nat
    BY SoundFields
<1>2. Less(l.owed, l.principal) \in Nat
    BY <1>1 DEF Less
<1>3. amount * Less(l.owed, l.principal) \in Nat
    BY <1>2, OneMorePeriod
<1>4. amount * Less(l.owed, l.principal) * ProtocolFeeBps \in Nat
    BY <1>3, OneMorePeriod DEF ProtocolFeeBps
<1>5. l.owed * 10000 \in Nat \ {0}
    BY <1>1
<1> QED
    BY <1>4, <1>5, QuotientFloor DEF FeeOn

LEMMA PoolFields ==
    ASSUME ProtocolTypeOK
    PROVE  /\ pool.cash \in Nat /\ pool.fees \in Nat /\ pool.badDebt \in Nat
           /\ flows.supplied \in Int /\ flows.swept \in Nat
BY DEF ProtocolTypeOK

LEMMA TotalsAreNatural ==
    ASSUME NEW book \in Seq(SoundLoan)
    PROVE  /\ Total(Owes, book) \in Nat /\ Total(Loses, book) \in Nat
           /\ Total(Lends, book) \in Nat /\ Total(Returns, book) \in Nat
           /\ Total(Completes, book) \in Nat
BY CountersAre, TotalBounds

LEMMA PaymentKeepsSound ==
    ASSUME SoundInv, NEW id \in LoanIds, NEW amount, Payment(id, amount),
           paidOrders' = paidOrders
    PROVE  SoundInv'
<1> DEFINE old == loans[id]
           l   == Settled(old, amount)
           p   == [profile EXCEPT !.debt = @ - amount]
           f   == FeeOn(old, amount)
<1>1. /\ old \in SoundLoan /\ l \in SoundLoan
      /\ loans' = [loans EXCEPT ![id] = l]
      /\ loans' \in Seq(SoundLoan)
      /\ p \in Profile /\ p.debt = profile.debt - amount
      /\ profile' = Scored(p, now <= DueAt(old, old.paid) + Grace, l.paid > old.paid)
      /\ Owes[l] = Owes[old] - amount /\ Loses[l] = Loses[old]
      /\ Lends[l] = Lends[old] /\ Returns[l] = Returns[old] + amount
    BY PaymentWrites
<1>2. /\ amount \in Nat /\ amount <= acct.amount
      /\ acct' \in Purse
      /\ acct'.amount = acct.amount - amount /\ acct'.elsewhere = acct.elsewhere
      /\ pool' = [pool EXCEPT !.cash = @ + amount, !.fees = @ + f]
      /\ UNCHANGED <<now, multiplier, merchant, flows>>
    BY DEF Payment, ApplyRepayment
<1>3. p.locked = profile.locked
    BY DEF SoundInv, Profile
<1>4. f \in Nat
    BY <1>1, <1>2, FeeIsNatural
<1> HIDE DEF f, l, p
<1>5. profile' \in Profile /\ profile'.debt = profile.debt - amount
      /\ profile'.locked = profile.locked
    <2>1. (now <= DueAt(old, old.paid) + Grace) \in BOOLEAN /\ (l.paid > old.paid) \in BOOLEAN
        OBVIOUS
    <2> QED BY <1>1, <1>3, <2>1, ScoredIs
<1> HIDE DEF old
<1>6. /\ pool' \in [cash : Nat, fees : Nat, badDebt : Nat]
      /\ pool'.cash = pool.cash + amount /\ pool'.badDebt = pool.badDebt
    <2> DEFINE c == pool.cash + amount
               g == pool.fees + f
    <2>1. c \in Nat /\ g \in Nat
        BY <1>2, <1>4, PoolFields DEF SoundInv
    <2>2. pool \in [cash : Nat, fees : Nat, badDebt : Nat]
        BY DEF SoundInv, ProtocolTypeOK
    <2>3. pool' = [pool EXCEPT !.cash = c, !.fees = g]
        BY <1>2, <2>2
    <2> HIDE DEF c, g
    <2>4. /\ pool' \in [cash : Nat, fees : Nat, badDebt : Nat]
          /\ pool'.cash = c /\ pool'.badDebt = pool.badDebt
        BY <2>1, <2>2, <2>3
    <2> QED BY <2>4 DEF c
<1>7. /\ Total(Owes, loans') = Total(Owes, loans) - amount
      /\ Total(Loses, loans') = Total(Loses, loans)
      /\ Total(Lends, loans') = Total(Lends, loans)
      /\ Total(Returns, loans') = Total(Returns, loans) + amount
    <2>1. loans \in Seq(SoundLoan) /\ id \in 1..Len(loans)
        BY DEF SoundInv, LoanIds
    <2>2. /\ Owes[old] \in Nat /\ Loses[old] \in Nat /\ Lends[old] \in Nat
        BY <1>1, CountersAre
    <2>3. /\ Owes[l] = Owes[old] + (-amount) /\ Loses[l] = Loses[old] + 0
          /\ Lends[l] = Lends[old] + 0 /\ -amount \in Int /\ 0 \in Int /\ amount \in Int
        BY <1>1, <1>2, <2>2
    <2>a. loans' = [loans EXCEPT ![id] = l] /\ l \in SoundLoan /\ old = loans[id]
        BY <1>1 DEF old
    <2>b. \A g \in [SoundLoan -> Nat], x \in Int :
              g[l] = g[old] + x => Total(g, loans') = Total(g, loans) + x
        BY <2>1, <2>a, TotalMoves
    <2>4. Total(Owes, loans') = Total(Owes, loans) + (-amount)
        BY <2>3, <2>b, CountersAre
    <2>5. Total(Loses, loans') = Total(Loses, loans) + 0
        BY <2>3, <2>b, CountersAre
    <2>6. Total(Lends, loans') = Total(Lends, loans) + 0
        BY <2>3, <2>b, CountersAre
    <2>7. Total(Returns, loans') = Total(Returns, loans) + amount
        BY <1>1, <2>3, <2>b, CountersAre
    <2>8. /\ Total(Owes, loans) \in Nat /\ Total(Loses, loans) \in Nat
          /\ Total(Lends, loans) \in Nat
        BY <2>1, TotalsAreNatural
    <2> QED BY <1>2, <2>4, <2>5, <2>6, <2>7, <2>8
<1>8. acct'.amount + acct'.elsewhere + profile'.locked <= Wealth
    <2>1. acct.amount \in Nat /\ acct.elsewhere \in Nat /\ profile.locked \in Nat
        BY DEF SoundInv, Purse, Profile
    <2> QED BY <1>2, <1>5, <2>1, ClusterAssumption DEF SoundInv
<1>9. pool'.cash + Total(Lends, loans') + flows'.swept
          = flows'.supplied + Total(Returns, loans')
    <2>1. /\ pool.cash \in Nat /\ flows.swept \in Nat /\ flows.supplied \in Int
          /\ Total(Lends, loans) \in Nat /\ Total(Returns, loans) \in Nat
        BY PoolFields, TotalsAreNatural DEF SoundInv
    <2>2. pool.cash + Total(Lends, loans) + flows.swept = flows.supplied + Total(Returns, loans)
        BY DEF SoundInv
    <2> QED BY <1>2, <1>6, <1>7, <2>1, <2>2
<1>10. ProtocolTypeOK'
    BY <1>2, <1>6 DEF SoundInv, ProtocolTypeOK
<1> QED
    BY <1>1, <1>2, <1>5, <1>6, <1>7, <1>8, <1>9, <1>10 DEF SoundInv

(* What a liquidation writes: what it takes and seizes comes in, the rest  *)
(* is booked as a loss.                                                    *)
Liquidation(id, take, seized) ==
    LET old  == loans[id]
        rest == Remaining(old)
        l    == Closed(old, old.repaid + take + seized)
    IN  /\ old \in SoundLoan /\ l \in SoundLoan
        /\ take + seized <= rest /\ 0 < rest /\ rest <= profile.debt
        /\ take <= acct.amount /\ take <= acct.delegated /\ seized <= profile.locked
        /\ loans' = [loans EXCEPT ![id] = l]
        /\ loans' \in Seq(SoundLoan) /\ LoanIds' = LoanIds
        /\ acct' = [acct EXCEPT !.amount = @ - take, !.delegated = @ - take]
        /\ pool' = [pool EXCEPT !.cash = @ + take + seized,
                                !.badDebt = @ + (rest - take - seized)]
        /\ profile' = [profile EXCEPT
                !.debt = profile.debt - rest,
                !.locked = profile.locked - seized, !.seized = profile.seized + seized,
                !.liquidations = profile.liquidations + 1,
                !.score = Adjusted(profile.score, -DefaultPenalty)]
        /\ Owes[l] = Owes[old] - rest
        /\ Loses[l] = Loses[old] + (rest - take - seized)
        /\ Lends[l] = Lends[old]
        /\ Returns[l] = Returns[old] + (take + seized)

LEMMA LowerIs ==
    ASSUME NEW a \in Nat, NEW b \in Nat
    PROVE  Lower(a, b) \in Nat /\ Lower(a, b) <= a /\ Lower(a, b) <= b
BY DEF Lower

LEMMA LiquidationWrites ==
    ASSUME SoundInv, NEW id \in LoanIds, Liquidate(id)
    PROVE  \E take \in Nat, seized \in Nat : Liquidation(id, take, seized)
<1> DEFINE old    == loans[id]
           rest   == Remaining(old)
           take   == Lower(Recoverable, rest)
           seized == Lower(rest - take, profile.locked)
           r      == old.repaid + take + seized
           l      == Closed(old, r)
<1>1. /\ loans \in Seq(SoundLoan) /\ id \in 1..Len(loans) /\ old \in SoundLoan
      /\ profile \in Profile /\ profile.debt \in Nat /\ profile.locked \in Nat
      /\ profile.debt = Total(Owes, loans)
      /\ acct.amount \in Nat /\ acct.delegated \in Nat
    BY DEF SoundInv, LoanIds, Profile, Purse
<1>2. /\ rest \in Nat /\ rest = old.owed - old.repaid
      /\ old.owed \in Nat /\ old.repaid \in Nat /\ old.principal \in Nat
    BY <1>1, SoundFields
<1>3. old.status = "active"
    BY DEF Liquidate, Clearable, IsLiquidatable
<1>4. 0 < rest
    BY <1>1, <1>2, <1>3 DEF SoundLoan
<1>5. /\ loans' = [loans EXCEPT ![id].status = "liquidated", ![id].repaid = @ + take + seized]
      /\ acct' = [acct EXCEPT !.amount = @ - take, !.delegated = @ - take]
      /\ pool' = [pool EXCEPT !.cash = @ + take + seized, !.badDebt = @ + (rest - take - seized)]
      /\ profile' = [profile EXCEPT
              !.debt = Less(@, rest),
              !.locked = @ - seized, !.seized = @ + seized,
              !.liquidations = @ + 1, !.score = Adjusted(@, -DefaultPenalty)]
    BY DEF Liquidate, Pulled
<1> HIDE DEF rest
<1>6. take \in Nat /\ take <= rest /\ take <= acct.amount /\ take <= acct.delegated
    <2>1. Recoverable \in Nat /\ Recoverable <= acct.amount /\ Recoverable <= acct.delegated
        BY <1>1, LowerIs DEF Recoverable
    <2>2. take \in Nat /\ take <= rest /\ take <= Recoverable
        BY <1>2, <2>1, LowerIs
    <2> HIDE DEF take
    <2> QED BY <1>1, <2>1, <2>2
<1> HIDE DEF take
<1>7. seized \in Nat /\ seized <= profile.locked /\ take + seized <= rest
    <2>1. rest - take \in Nat
        BY <1>2, <1>6
    <2>2. seized \in Nat /\ seized <= profile.locked /\ seized <= rest - take
        BY <1>1, <2>1, LowerIs
    <2> HIDE DEF seized
    <2> QED BY <1>2, <1>6, <2>2
<1> HIDE DEF seized
<1>8. r \in Nat /\ r <= old.owed
    BY <1>2, <1>6, <1>7
<1> HIDE DEF r, old
<1>9. /\ l \in SoundLoan /\ l.principal = old.principal /\ l.owed = old.owed
      /\ l.repaid = r /\ l.status = "liquidated"
    BY <1>1, <1>8, ClosedIsSound
<1>10. loans' = [loans EXCEPT ![id] = l]
    <2>1. old \in LoanRecord
        BY <1>1, SoundFields
    <2>2. l = [[old EXCEPT !.status = "liquidated"] EXCEPT !.repaid = @ + take + seized]
        BY <2>1 DEF Closed, LoanRecord, r
    <2> QED BY <1>1, <1>5, <2>1, <2>2 DEF old, LoanRecord
<1> HIDE DEF l
<1>11. loans' \in Seq(SoundLoan) /\ LoanIds' = LoanIds
    BY <1>1, <1>9, <1>10 DEF LoanIds
<1>12. /\ Owes[old] = rest /\ Loses[old] = 0
       /\ Lends[old] = old.principal /\ Returns[old] = old.repaid
    BY <1>1, <1>3 DEF Owes, Loses, Lends, Returns, rest
<1>13. /\ Owes[l] = 0 /\ Loses[l] = rest - take - seized
       /\ Lends[l] = old.principal /\ Returns[l] = r
    <2>1. Remaining(l) = l.owed - l.repaid
        BY <1>9, SoundFields
    <2>2. Remaining(l) = rest - take - seized
        BY <1>2, <1>6, <1>7, <1>9, <2>1 DEF r
    <2> QED BY <1>9, <2>2 DEF Owes, Loses, Lends, Returns
<1>14. rest <= profile.debt
    <2>1. Owes[loans[id]] <= Total(Owes, loans)
        BY <1>1, CountersAre, TotalBounds
    <2> QED BY <1>1, <1>12, <2>1 DEF old
<1>15. profile' = [profile EXCEPT
                    !.debt = profile.debt - rest,
                    !.locked = profile.locked - seized, !.seized = profile.seized + seized,
                    !.liquidations = profile.liquidations + 1,
                    !.score = Adjusted(profile.score, -DefaultPenalty)]
    <2>1. Less(profile.debt, rest) = profile.debt - rest
        BY <1>1, <1>2, <1>14 DEF Less
    <2> QED BY <1>1, <1>5, <2>1 DEF Profile
<1>16. Returns[l] = Returns[old] + (take + seized) /\ Owes[l] = Owes[old] - rest
       /\ Loses[l] = Loses[old] + (rest - take - seized) /\ Lends[l] = Lends[old]
    BY <1>2, <1>6, <1>7, <1>12, <1>13 DEF r
<1> QED
    BY <1>1, <1>4, <1>5, <1>6, <1>7, <1>9, <1>10, <1>11, <1>14, <1>15, <1>16
       DEF old, rest, l, r, Liquidation

LEMMA LiquidationKeepsSound ==
    ASSUME SoundInv, NEW id \in LoanIds, Liquidate(id), paidOrders' = paidOrders
    PROVE  SoundInv'
<1> DEFINE old  == loans[id]
           rest == Remaining(old)
<1>0. PICK take \in Nat, seized \in Nat : Liquidation(id, take, seized)
    BY LiquidationWrites
<1> DEFINE l == Closed(old, old.repaid + take + seized)
<1>1. /\ old \in SoundLoan /\ l \in SoundLoan
      /\ take + seized <= rest /\ rest <= profile.debt
      /\ take <= acct.amount /\ take <= acct.delegated /\ seized <= profile.locked
    BY <1>0 DEF Liquidation
<1>w. /\ loans' = [loans EXCEPT ![id] = l] /\ loans' \in Seq(SoundLoan)
      /\ acct' = [acct EXCEPT !.amount = @ - take, !.delegated = @ - take]
      /\ pool' = [pool EXCEPT !.cash = @ + take + seized,
                              !.badDebt = @ + (rest - take - seized)]
      /\ profile' = [profile EXCEPT
                !.debt = profile.debt - rest,
                !.locked = profile.locked - seized, !.seized = profile.seized + seized,
                !.liquidations = profile.liquidations + 1,
                !.score = Adjusted(profile.score, -DefaultPenalty)]
    BY <1>0 DEF Liquidation
<1>c. /\ Owes[l] = Owes[old] - rest
      /\ Loses[l] = Loses[old] + (rest - take - seized)
      /\ Lends[l] = Lends[old]
      /\ Returns[l] = Returns[old] + (take + seized)
    BY <1>0 DEF Liquidation
<1> HIDE DEF l
<1>2. UNCHANGED <<now, multiplier, merchant, flows>>
    BY DEF Liquidate
<1>3. rest \in Nat
    BY <1>1, SoundFields
<1> HIDE DEF rest, old
<1>4. /\ profile \in Profile /\ profile.debt \in Nat /\ profile.locked \in Nat
      /\ profile.seized \in Nat /\ profile.liquidations \in Nat /\ profile.score \in Int
    <2>1. profile \in Profile
        BY DEF SoundInv
    <2>2. profile.score \in Int
        BY <2>1, ProfileFields DEF MaxScore
    <2> QED BY <2>1, <2>2, ProfileFields
<1>5. /\ profile' \in Profile /\ profile'.debt = profile.debt - rest
      /\ profile'.locked = profile.locked - seized
    <2> DEFINE d == profile.debt - rest
               k == profile.locked - seized
               z == profile.seized + seized
               n == profile.liquidations + 1
               s == Adjusted(profile.score, -DefaultPenalty)
    <2>1. d \in Nat /\ k \in Nat /\ z \in Nat /\ n \in Nat
        BY <1>1, <1>3, <1>4
    <2>2. s \in 0..MaxScore
        <3>1. -DefaultPenalty \in Int
            BY DEF DefaultPenalty
        <3> QED BY <1>4, <3>1, AdjustedRange
    <2>3. profile' = [profile EXCEPT !.debt = d, !.locked = k, !.seized = z,
                                     !.liquidations = n, !.score = s]
        BY <1>w
    <2> HIDE DEF d, k, z, n, s
    <2>4. profile' \in Profile /\ profile'.debt = d /\ profile'.locked = k
        BY <1>4, <2>1, <2>2, <2>3 DEF Profile
    <2> QED BY <2>4 DEF d, k
<1>6. acct' \in Purse /\ acct'.amount = acct.amount - take /\ acct'.elsewhere = acct.elsewhere
    BY <1>1, <1>w, PurseMoves DEF SoundInv
<1>7. /\ pool' \in [cash : Nat, fees : Nat, badDebt : Nat]
      /\ pool'.cash = pool.cash + take + seized
      /\ pool'.badDebt = pool.badDebt + (rest - take - seized)
    <2> DEFINE c == pool.cash + take + seized
               b == pool.badDebt + (rest - take - seized)
    <2>1. c \in Nat /\ b \in Nat
        <3>1. pool.cash \in Nat /\ pool.badDebt \in Nat
            BY PoolFields DEF SoundInv
        <3> QED BY <1>1, <1>3, <3>1
    <2>2. pool \in [cash : Nat, fees : Nat, badDebt : Nat]
        BY DEF SoundInv, ProtocolTypeOK
    <2>3. pool' = [pool EXCEPT !.cash = c, !.badDebt = b]
        BY <1>w, <2>2
    <2> HIDE DEF c, b
    <2>4. /\ pool' \in [cash : Nat, fees : Nat, badDebt : Nat]
          /\ pool'.cash = c /\ pool'.badDebt = b
        BY <2>1, <2>2, <2>3
    <2> QED BY <2>4 DEF c, b
<1>8. /\ Total(Owes, loans') = Total(Owes, loans) - rest
      /\ Total(Loses, loans') = Total(Loses, loans) + (rest - take - seized)
      /\ Total(Lends, loans') = Total(Lends, loans)
      /\ Total(Returns, loans') = Total(Returns, loans) + (take + seized)
    <2>1. loans \in Seq(SoundLoan) /\ id \in 1..Len(loans)
        BY DEF SoundInv, LoanIds
    <2>0. loans' = [loans EXCEPT ![id] = l] /\ old = loans[id]
        BY <1>w DEF old
    <2>2. /\ Owes[old] \in Nat /\ Lends[old] \in Nat
        BY <1>1, CountersAre
    <2>3. /\ Owes[l] = Owes[old] + (-rest) /\ Lends[l] = Lends[old] + 0
          /\ Loses[l] = Loses[old] + (rest - take - seized)
          /\ Returns[l] = Returns[old] + (take + seized)
          /\ -rest \in Int /\ 0 \in Int /\ rest - take - seized \in Int /\ take + seized \in Int
        BY <1>c, <1>3, <2>2
    <2>b. \A g \in [SoundLoan -> Nat], x \in Int :
              g[l] = g[old] + x => Total(g, loans') = Total(g, loans) + x
        BY <1>1, <2>0, <2>1, TotalMoves
    <2>4. Total(Owes, loans') = Total(Owes, loans) + (-rest)
        BY <2>3, <2>b, CountersAre
    <2>5. Total(Loses, loans') = Total(Loses, loans) + (rest - take - seized)
        BY <2>3, <2>b, CountersAre
    <2>6. Total(Lends, loans') = Total(Lends, loans) + 0
        BY <2>3, <2>b, CountersAre
    <2>7. Total(Returns, loans') = Total(Returns, loans) + (take + seized)
        BY <2>3, <2>b, CountersAre
    <2>8. Total(Owes, loans) \in Nat /\ Total(Lends, loans) \in Nat
        BY <2>1, TotalsAreNatural
    <2> QED BY <1>3, <2>4, <2>5, <2>6, <2>7, <2>8
<1>9. acct'.amount + acct'.elsewhere + profile'.locked <= Wealth
    <2>1. /\ acct.amount \in Nat /\ acct.elsewhere \in Nat /\ profile.locked \in Nat
          /\ acct.amount + acct.elsewhere + profile.locked <= Wealth
        BY DEF SoundInv, Purse, Profile
    <2> QED BY <1>5, <1>6, <2>1, ClusterAssumption
<1>10. pool'.cash + Total(Lends, loans') + flows'.swept
          = flows'.supplied + Total(Returns, loans')
    <2>1. /\ pool.cash \in Nat /\ flows.swept \in Nat /\ flows.supplied \in Int
          /\ Total(Lends, loans) \in Nat /\ Total(Returns, loans) \in Nat
        BY PoolFields, TotalsAreNatural DEF SoundInv
    <2>2. pool.cash + Total(Lends, loans) + flows.swept = flows.supplied + Total(Returns, loans)
        BY DEF SoundInv
    <2> QED BY <1>2, <1>7, <1>8, <2>1, <2>2
<1>11. ProtocolTypeOK'
    BY <1>2, <1>7 DEF SoundInv, ProtocolTypeOK
<1>12. profile'.debt = Total(Owes, loans') /\ pool'.badDebt = Total(Loses, loans')
    BY <1>5, <1>7, <1>8 DEF SoundInv
<1> QED
    BY <1>w, <1>2, <1>5, <1>6, <1>9, <1>10, <1>11, <1>12 DEF SoundInv

LEMMA InterestIsNatural ==
    ASSUME NEW p \in Nat, NEW t \in Nat
    PROVE  InterestFor(p, t) \in Nat
<1>1. p * InterestRateBps \in Nat
    BY DEF InterestRateBps
<1>2. p * InterestRateBps * t \in Nat
    <2> DEFINE x == p * InterestRateBps
    <2> HIDE DEF x
    <2>1. x * t \in Nat
        BY <1>1, OneMorePeriod DEF x
    <2> QED BY <2>1 DEF x
<1>3. 10000 * Year \in Nat \ {0}
    BY ProtocolAssumption
<1> QED
    BY <1>2, <1>3, QuotientFloor DEF InterestFor

(* What a checkout writes.                                                 *)
Checkout(l, principal) ==
    /\ l \in SoundLoan /\ l.principal = principal /\ l.repaid = 0 /\ l.paid = 0
    /\ l.status = "active" /\ l.started = now
    /\ principal \in Nat /\ principal <= pool.cash
    /\ loans' = Append(loans, l) /\ loans' \in Seq(SoundLoan)
    /\ profile' = [Seeded EXCEPT !.debt = @ + l.owed]
    /\ pool' = [pool EXCEPT !.cash = @ - principal]
    /\ UNCHANGED <<clusterVars, multiplier, merchant, flows>>

LEMMA CheckoutWrites ==
    ASSUME SoundInv, NEW order \in Orders, NEW principal \in Principals, NEW count \in Counts,
           NEW interval \in Intervals, CreateLoan(order, principal, count, interval)
    PROVE  \E l : Checkout(l, principal)
<1> DEFINE owed == principal + InterestFor(principal, count * interval)
           l == Written(order, principal, owed, count, interval, now)
<1>1. principal \in Nat /\ 0 < principal /\ count \in 1..MaxInstallments /\ interval \in Nat
    <2>1. principal \in Nat /\ count \in Nat /\ interval \in Nat
        BY CreditAssumption
    <2>2. principal > 0 /\ count > 0 /\ count <= MaxInstallments
        BY DEF CreateLoan
    <2> QED BY <2>1, <2>2 DEF MaxInstallments
<1>2. owed \in Nat /\ principal <= owed
    <2>1. count \in Nat
        BY <1>1 DEF MaxInstallments
    <2>2. count * interval \in Nat
        BY <1>1, <2>1, OneMorePeriod
    <2>3. InterestFor(principal, count * interval) \in Nat
        BY <1>1, <2>2, InterestIsNatural
    <2> QED BY <1>1, <2>3
<1>3. /\ principal <= pool.cash
      /\ loans' = Append(loans, l)
      /\ profile' = [Seeded EXCEPT !.debt = @ + owed]
      /\ pool' = [pool EXCEPT !.cash = @ - principal]
      /\ UNCHANGED <<clusterVars, multiplier, merchant, flows>>
    <2>1. pool.cash \in Nat
        BY PoolFields DEF SoundInv
    <2> QED BY <1>1, <2>1 DEF CreateLoan, Written
<1> HIDE DEF owed
<1>4. l \in SoundLoan
    BY <1>1, <1>2, WrittenIsSound DEF SoundInv
<1>5. /\ l.principal = principal /\ l.repaid = 0 /\ l.paid = 0 /\ l.status = "active"
      /\ l.started = now /\ l.owed = owed
    BY DEF Written
<1> HIDE DEF l
<1>6. loans' \in Seq(SoundLoan)
    BY <1>3, <1>4 DEF SoundInv
<1>7. Checkout(l, principal)
    BY <1>1, <1>3, <1>4, <1>5, <1>6 DEF Checkout
<1> QED
    BY <1>7

LEMMA CheckoutKeepsSound ==
    ASSUME SoundInv, NEW l, NEW principal, Checkout(l, principal), paidOrders' = paidOrders
    PROVE  SoundInv'
<1>1. /\ l \in SoundLoan /\ l.principal = principal /\ l.repaid = 0 /\ l.status = "active"
      /\ principal \in Nat /\ principal <= pool.cash
    BY DEF Checkout
<1>2. /\ loans' = Append(loans, l) /\ loans' \in Seq(SoundLoan) /\ loans \in Seq(SoundLoan)
    BY DEF Checkout, SoundInv
<1>3. now' = now /\ acct' = acct /\ multiplier' = multiplier /\ merchant' = merchant
      /\ flows' = flows
    BY DEF Checkout, clusterVars
<1>4. l.owed \in Nat /\ Remaining(l) = l.owed
    BY <1>1, SoundFields
<1>5. /\ profile' \in Profile /\ profile'.debt = profile.debt + l.owed
      /\ profile'.locked = profile.locked
    <2> DEFINE d == profile.debt + l.owed
    <2>1. Seeded \in Profile /\ Seeded.debt = profile.debt /\ Seeded.locked = profile.locked
        BY SeededIs DEF SoundInv
    <2>2. profile' = [Seeded EXCEPT !.debt = d]
        BY <2>1 DEF Checkout, Profile
    <2>3. d \in Nat
        BY <1>4, <2>1, ProfileFields
    <2> HIDE DEF d
    <2>4. profile' \in Profile /\ profile'.debt = d /\ profile'.locked = Seeded.locked
        BY <2>1, <2>2, <2>3 DEF Profile
    <2> QED BY <2>1, <2>4 DEF d
<1>6. /\ pool' \in [cash : Nat, fees : Nat, badDebt : Nat]
      /\ pool'.cash = pool.cash - principal /\ pool'.badDebt = pool.badDebt
    <2> DEFINE c == pool.cash - principal
    <2>1. c \in Nat
        BY <1>1, PoolFields DEF SoundInv
    <2>2. pool \in [cash : Nat, fees : Nat, badDebt : Nat]
        BY DEF SoundInv, ProtocolTypeOK
    <2>3. pool' = [pool EXCEPT !.cash = c]
        BY <2>2 DEF Checkout
    <2> HIDE DEF c
    <2>4. pool' \in [cash : Nat, fees : Nat, badDebt : Nat] /\ pool'.cash = c
          /\ pool'.badDebt = pool.badDebt
        BY <2>1, <2>2, <2>3
    <2> QED BY <2>4 DEF c
<1>7. /\ Total(Owes, loans') = Total(Owes, loans) + l.owed
      /\ Total(Loses, loans') = Total(Loses, loans)
      /\ Total(Lends, loans') = Total(Lends, loans) + principal
      /\ Total(Returns, loans') = Total(Returns, loans)
    <2>1. /\ Total(Owes, loans') = Total(Owes, loans) + Owes[l]
          /\ Total(Loses, loans') = Total(Loses, loans) + Loses[l]
          /\ Total(Lends, loans') = Total(Lends, loans) + Lends[l]
          /\ Total(Returns, loans') = Total(Returns, loans) + Returns[l]
        BY <1>1, <1>2, CountersAre, TotalAfterOpen
    <2>2. /\ Owes[l] = l.owed /\ Loses[l] = 0 /\ Lends[l] = principal /\ Returns[l] = 0
        BY <1>1, <1>4 DEF Owes, Loses, Lends, Returns
    <2>3. Total(Loses, loans) \in Nat /\ Total(Returns, loans) \in Nat
        BY <1>2, TotalsAreNatural
    <2> QED BY <2>1, <2>2, <2>3
<1>8. acct'.amount + acct'.elsewhere + profile'.locked <= Wealth
    BY <1>3, <1>5 DEF SoundInv
<1>9. pool'.cash + Total(Lends, loans') + flows'.swept
          = flows'.supplied + Total(Returns, loans')
    <2>1. /\ pool.cash \in Nat /\ flows.swept \in Nat /\ flows.supplied \in Int
          /\ Total(Lends, loans) \in Nat /\ Total(Returns, loans) \in Nat
        BY PoolFields, TotalsAreNatural DEF SoundInv
    <2>2. pool.cash + Total(Lends, loans) + flows.swept = flows.supplied + Total(Returns, loans)
        BY DEF SoundInv
    <2> QED BY <1>1, <1>3, <1>6, <1>7, <2>1, <2>2
<1>10. ProtocolTypeOK'
    BY <1>3, <1>6 DEF SoundInv, ProtocolTypeOK
<1>11. profile'.debt = Total(Owes, loans') /\ pool'.badDebt = Total(Loses, loans')
    BY <1>5, <1>6, <1>7 DEF SoundInv
<1> QED
    BY <1>2, <1>3, <1>5, <1>8, <1>9, <1>10, <1>11 DEF SoundInv

(* A signal earns points within its cap, whatever its size.                *)
LEMMA PointsRange ==
    ASSUME NEW n \in Nat, NEW rate \in Nat, NEW cap \in Nat
    PROVE  Points(n, rate, cap) \in 0..cap
<1>1. n % 65536 \in Nat
    OBVIOUS
<1>2. (n % 65536) * rate \in Nat
    BY <1>1, OneMorePeriod
<1> DEFINE w == Lower((n % 65536) * rate, 65535)
<1>3. w \in Nat
    BY <1>2, LowerIs
<1>4. Points(n, rate, cap) = Lower(w, cap)
    BY DEF Points
<1> HIDE DEF w
<1>5. Lower(w, cap) \in Nat /\ Lower(w, cap) <= cap
    BY <1>3, LowerIs
<1> QED
    BY <1>4, <1>5

LEMMA OpeningRange ==
    ASSUME NEW e \in Evidence \cup {NoEvidence}
    PROVE  UnderwriteFrom(e) \in 0..MaxScore /\ UnderwriteFrom(e) <= 720
<1>1. e.age \in Nat /\ e.txs \in Nat /\ e.accounts \in Nat /\ e.hundreds \in Nat
    BY CreditAssumption DEF NoEvidence
<1>2. e.age \div 30 \in Nat /\ e.txs \div 25 \in Nat
    BY <1>1, QuotientFloor
<1> DEFINE a == Points(e.age \div 30, 2, 60)
           b == Points(e.txs \div 25, 1, 50)
           c == Points(e.accounts, 2, 40)
           d == Points(e.hundreds, 1, 50)
<1>3. a \in 0..60 /\ b \in 0..50 /\ c \in 0..40 /\ d \in 0..50
    BY <1>1, <1>2, PointsRange
<1>4. UnderwriteFrom(e) = Adjusted(UnderwritingFloor, a + b + c + d)
    BY DEF UnderwriteFrom
<1> HIDE DEF a, b, c, d
<1>5. a + b + c + d \in 0..200
    BY <1>3
<1> QED
    BY <1>4, <1>5 DEF Adjusted, UnderwritingFloor, MinScore, MaxScore

LEMMA UnderwriteWrites ==
    ASSUME SoundInv, NEW e \in Evidence, Underwrite(e)
    PROVE  /\ profile' \in Profile /\ profile'.seen
           /\ profile'.score = UnderwriteFrom(e) /\ profile'.underwritten
           /\ profile'.evidence = e
           /\ profile'.onTime = profile.onTime /\ profile'.late = profile.late
           /\ profile'.liquidations = profile.liquidations
           /\ profile'.debt = profile.debt /\ profile'.locked = profile.locked
           /\ IsUnproven(Seeded)
<1>1. /\ Seeded \in Profile /\ Seeded.seen
      /\ Seeded.onTime = profile.onTime /\ Seeded.late = profile.late
      /\ Seeded.liquidations = profile.liquidations
      /\ Seeded.debt = profile.debt /\ Seeded.locked = profile.locked
    BY SeededIs DEF SoundInv
<1>2. UnderwriteFrom(e) \in 0..MaxScore
    BY OpeningRange
<1>3. IsUnproven(Seeded)
      /\ profile' = [Seeded EXCEPT !.score = UnderwriteFrom(e), !.underwritten = TRUE,
                                   !.evidence = e]
    BY DEF Underwrite
<1> QED
    BY <1>1, <1>2, <1>3 DEF Profile

LEMMA UnderwriteKeepsSound ==
    ASSUME SoundInv, NEW e \in Evidence, Underwrite(e), paidOrders' = paidOrders
    PROVE  SoundInv'
<1>1. /\ now' = now /\ acct' = acct /\ loans' = loans
      /\ multiplier' = multiplier /\ merchant' = merchant /\ pool' = pool /\ flows' = flows
    BY DEF Underwrite, clusterVars, protocolVars
<1>2. profile' \in Profile /\ profile'.debt = profile.debt /\ profile'.locked = profile.locked
    BY UnderwriteWrites
<1> QED
    BY <1>1, <1>2 DEF SoundInv, ProtocolTypeOK

LEMMA CollateralWrites ==
    ASSUME SoundInv, NEW amount \in LockAmounts,
           LockCollateral(amount) \/ WithdrawCollateral(amount)
    PROVE  /\ profile' \in Profile
           /\ profile'.debt = profile.debt /\ profile'.onTime = profile.onTime
           /\ profile'.late = profile.late /\ profile'.liquidations = profile.liquidations
           /\ profile'.underwritten = profile.underwritten
           /\ profile'.evidence = profile.evidence
           /\ \/ profile'.seen
                 /\ profile'.score = IF profile.seen THEN profile.score ELSE StartingScore
              \/ profile'.seen = profile.seen /\ profile'.score = profile.score
                 /\ profile'.locked <= profile.locked
           /\ acct' \in Purse
           /\ acct'.amount + profile'.locked = acct.amount + profile.locked
           /\ acct'.elsewhere = acct.elsewhere
<1>0. /\ amount \in Nat /\ profile \in Profile /\ acct \in Purse
      /\ acct.amount \in Nat /\ profile.locked \in Nat
    BY CreditAssumption, ProfileFields DEF SoundInv, Purse
<1>1. CASE LockCollateral(amount)
    <2> DEFINE k == Seeded.locked + amount
    <2>1. /\ Seeded \in Profile /\ Seeded.seen
          /\ Seeded.onTime = profile.onTime /\ Seeded.late = profile.late
          /\ Seeded.liquidations = profile.liquidations
          /\ Seeded.debt = profile.debt /\ Seeded.locked = profile.locked
          /\ Seeded.underwritten = profile.underwritten
          /\ Seeded.evidence = profile.evidence
          /\ Seeded.score = IF profile.seen THEN profile.score ELSE StartingScore
        BY <1>0, SeededIs
    <2>2. k \in Nat /\ k = profile.locked + amount
        BY <1>0, <2>1
    <2>3. profile' = [Seeded EXCEPT !.locked = k]
        BY <1>1, <2>1 DEF LockCollateral, Profile
    <2> HIDE DEF k
    <2>4. /\ profile' \in Profile /\ profile'.locked = k /\ profile'.seen = Seeded.seen
          /\ profile'.score = Seeded.score /\ profile'.onTime = Seeded.onTime
          /\ profile'.late = Seeded.late /\ profile'.liquidations = Seeded.liquidations
          /\ profile'.debt = Seeded.debt /\ profile'.underwritten = Seeded.underwritten
          /\ profile'.evidence = Seeded.evidence
        BY <2>1, <2>2, <2>3 DEF Profile
    <2>5. acct' = [acct EXCEPT !.amount = @ - amount] /\ amount <= acct.amount
        BY <1>1 DEF LockCollateral, Sent, Payable
    <2>6. acct' \in Purse /\ acct'.amount = acct.amount - amount /\ acct'.elsewhere = acct.elsewhere
        BY <1>0, <2>5, PurseMoves
    <2>7. acct'.amount + profile'.locked = acct.amount + profile.locked
        BY <1>0, <2>2, <2>4, <2>6
    <2> QED BY <2>1, <2>4, <2>6, <2>7
<1>2. CASE WithdrawCollateral(amount)
    <2> DEFINE k == profile.locked - amount
               b == acct.amount + amount
    <2>1. amount <= profile.locked /\ k \in Nat /\ b \in Nat
        BY <1>0, <1>2 DEF WithdrawCollateral
    <2>2. profile' = [profile EXCEPT !.locked = k] /\ acct' = [acct EXCEPT !.amount = b]
        BY <1>0, <1>2 DEF WithdrawCollateral, Profile, Purse
    <2> HIDE DEF k, b
    <2>3. /\ profile' \in Profile /\ profile'.locked = k /\ profile'.seen = profile.seen
          /\ profile'.score = profile.score /\ profile'.onTime = profile.onTime
          /\ profile'.late = profile.late /\ profile'.liquidations = profile.liquidations
          /\ profile'.debt = profile.debt /\ profile'.underwritten = profile.underwritten
          /\ profile'.evidence = profile.evidence
        BY <1>0, <2>1, <2>2 DEF Profile
    <2>4. acct' \in Purse /\ acct'.amount = b /\ acct'.elsewhere = acct.elsewhere
        BY <1>0, <2>1, <2>2 DEF Purse
    <2>5. acct'.amount + profile'.locked = acct.amount + profile.locked
          /\ profile'.locked <= profile.locked
        BY <1>0, <2>1, <2>3, <2>4 DEF k, b
    <2> QED BY <2>3, <2>4, <2>5
<1> QED
    BY <1>1, <1>2

LEMMA CollateralKeepsSound ==
    ASSUME SoundInv, NEW amount \in LockAmounts, paidOrders' = paidOrders,
           LockCollateral(amount) \/ WithdrawCollateral(amount)
    PROVE  SoundInv'
<1>1. /\ now' = now /\ loans' = loans
      /\ multiplier' = multiplier /\ merchant' = merchant /\ pool' = pool /\ flows' = flows
    BY DEF LockCollateral, WithdrawCollateral, protocolVars
<1>2. /\ profile' \in Profile /\ profile'.debt = profile.debt
      /\ acct' \in Purse /\ acct'.elsewhere = acct.elsewhere
      /\ acct'.amount + profile'.locked = acct.amount + profile.locked
    BY CollateralWrites
<1>3. acct'.amount + acct'.elsewhere + profile'.locked <= Wealth
    <2>1. /\ acct.amount \in Nat /\ acct.elsewhere \in Nat /\ profile.locked \in Nat
          /\ acct'.amount \in Nat /\ acct'.elsewhere \in Nat /\ profile'.locked \in Nat
        BY <1>2, ProfileFields DEF SoundInv, Purse
    <2>2. acct.amount + acct.elsewhere + profile.locked <= Wealth
        BY DEF SoundInv
    <2> QED BY <1>2, <2>1, <2>2, ClusterAssumption
<1> QED
    BY <1>1, <1>2, <1>3 DEF SoundInv, ProtocolTypeOK

LEMMA ProtocolKeepsSound ==
    ASSUME SoundInv, ProtocolNext, UNCHANGED <<clusterVars, creditVars>>,
           paidOrders' = paidOrders
    PROVE  SoundInv'
<1>1. now' = now /\ acct' = acct /\ profile' = profile /\ loans' = loans
    BY DEF clusterVars, creditVars
<1>2. /\ pool \in [cash : Nat, fees : Nat, badDebt : Nat]
      /\ flows \in [supplied : Int, swept : Nat]
      /\ merchant \in [registered : BOOLEAN, active : BOOLEAN, cap : Nat]
      /\ multiplier \in 1..MaxMultiplier
      /\ pool.cash \in Nat /\ pool.fees \in Nat /\ flows.supplied \in Int /\ flows.swept \in Nat
    BY PoolFields DEF SoundInv, ProtocolTypeOK
<1>3. /\ ProtocolTypeOK' /\ pool'.badDebt = pool.badDebt
      /\ pool'.cash + flows'.swept - flows'.supplied
            = pool.cash + flows.swept - flows.supplied
    <2>1. CASE RegisterMerchant
        BY <1>2, <2>1, ProtocolAssumption DEF RegisterMerchant, ProtocolTypeOK
    <2>2. CASE SweepFees
        <3> DEFINE c == pool.cash - pool.fees
                   w == flows.swept + pool.fees
        <3>1. c \in Nat /\ w \in Nat
            BY <1>2, <2>2 DEF SweepFees
        <3>2. /\ pool' = [pool EXCEPT !.cash = c, !.fees = 0]
              /\ flows' = [flows EXCEPT !.swept = w]
              /\ multiplier' = multiplier /\ merchant' = merchant
            BY <1>2, <2>2 DEF SweepFees
        <3>3. c + w - flows.supplied = pool.cash + flows.swept - flows.supplied
            BY <1>2
        <3> HIDE DEF c, w
        <3> QED BY <1>2, <3>1, <3>2, <3>3 DEF ProtocolTypeOK
    <2>3. ASSUME NEW v \in BOOLEAN, SetMerchantActive(v) PROVE <1>3!:
        BY <1>2, <2>3 DEF SetMerchantActive, ProtocolTypeOK
    <2>4. ASSUME NEW cap \in Caps, SetMaxOrder(cap) PROVE <1>3!:
        BY <1>2, <2>4, ProtocolAssumption DEF SetMaxOrder, ProtocolTypeOK
    <2>5. ASSUME NEW bps \in Multipliers, SetConfig(bps) PROVE <1>3!:
        <3>1. bps \in 1..MaxMultiplier
            <4>1. bps \in Nat
                BY ProtocolAssumption
            <4>2. bps > 0 /\ bps <= MaxMultiplier
                BY <2>5 DEF SetConfig
            <4>3. MaxMultiplier \in Nat
                BY DEF MaxMultiplier
            <4> QED BY <4>1, <4>2, <4>3
        <3> QED BY <1>2, <2>5, <3>1 DEF SetConfig, ProtocolTypeOK
    <2>6. ASSUME NEW amount \in FundAmounts, FundLiquidity(amount) PROVE <1>3!:
        <3> DEFINE c == pool.cash + amount
                   w == flows.supplied + amount
        <3>1. c \in Nat /\ w \in Int /\ amount \in Nat
            BY <1>2, ProtocolAssumption
        <3>2. /\ pool' = [pool EXCEPT !.cash = c]
              /\ flows' = [flows EXCEPT !.supplied = w]
              /\ multiplier' = multiplier /\ merchant' = merchant
            BY <1>2, <2>6 DEF FundLiquidity
        <3>3. c + flows.swept - w = pool.cash + flows.swept - flows.supplied
            BY <1>2, <3>1
        <3> HIDE DEF c, w
        <3> QED BY <1>2, <3>1, <3>2, <3>3 DEF ProtocolTypeOK
    <2>7. ASSUME NEW amount \in TakeAmounts, WithdrawLiquidity(amount) PROVE <1>3!:
        <3> DEFINE c == pool.cash - amount
                   w == flows.supplied - amount
        <3>1. c \in Nat /\ w \in Int /\ amount \in Nat
            <4>1. amount \in Nat /\ amount <= Less(pool.cash, pool.fees) /\ 0 < amount
                BY <2>7, ProtocolAssumption DEF WithdrawLiquidity
            <4>2. amount <= pool.cash
                BY <1>2, <4>1 DEF Less
            <4> QED BY <1>2, <4>1, <4>2
        <3>2. /\ pool' = [pool EXCEPT !.cash = c]
              /\ flows' = [flows EXCEPT !.supplied = w]
              /\ multiplier' = multiplier /\ merchant' = merchant
            BY <1>2, <2>7 DEF WithdrawLiquidity
        <3>3. c + flows.swept - w = pool.cash + flows.swept - flows.supplied
            BY <1>2, <3>1
        <3> HIDE DEF c, w
        <3> QED BY <1>2, <3>1, <3>2, <3>3 DEF ProtocolTypeOK
    <2> QED BY <2>1, <2>2, <2>3, <2>4, <2>5, <2>6, <2>7 DEF ProtocolNext
<1>4. pool'.cash + Total(Lends, loans') + flows'.swept
          = flows'.supplied + Total(Returns, loans')
    <2>1. /\ pool'.cash \in Nat /\ flows'.swept \in Nat /\ flows'.supplied \in Int
          /\ Total(Lends, loans) \in Nat /\ Total(Returns, loans) \in Nat
        BY <1>3, TotalsAreNatural DEF SoundInv, ProtocolTypeOK
    <2>2. pool.cash + Total(Lends, loans) + flows.swept = flows.supplied + Total(Returns, loans)
        BY DEF SoundInv
    <2> QED BY <1>1, <1>2, <1>3, <2>1, <2>2
<1> QED
    BY <1>1, <1>3, <1>4 DEF SoundInv

(* The clock and the wallet: no more money than there was.                 *)
LEMMA WalletKeepsSound ==
    ASSUME SoundInv, UNCHANGED <<protocolVars, creditVars>>,
           now' \in 0..MaxTime, acct' \in Purse, paidOrders' \subseteq Orders,
           acct'.amount + acct'.elsewhere <= acct.amount + acct.elsewhere
    PROVE  SoundInv'
<1>1. /\ profile' = profile /\ loans' = loans
      /\ multiplier' = multiplier /\ merchant' = merchant /\ pool' = pool /\ flows' = flows
    BY DEF protocolVars, creditVars
<1>2. acct'.amount + acct'.elsewhere + profile'.locked <= Wealth
    <2>1. /\ acct.amount \in Nat /\ acct.elsewhere \in Nat /\ profile.locked \in Nat
          /\ acct'.amount \in Nat /\ acct'.elsewhere \in Nat
          /\ acct.amount + acct.elsewhere + profile.locked <= Wealth
        BY ProfileFields DEF SoundInv, Purse
    <2> QED BY <1>1, <2>1, ClusterAssumption
<1> QED
    BY <1>1, <1>2 DEF SoundInv, ProtocolTypeOK

LEMMA ClusterKeepsSound ==
    ASSUME SoundInv, Tick \/ OwnerMoves, UNCHANGED <<protocolVars, creditVars, billingVars>>
    PROVE  SoundInv'
<1>1. /\ acct \in Purse /\ acct.amount \in Nat /\ acct.elsewhere \in Nat
      /\ now \in 0..MaxTime /\ paidOrders' \subseteq Orders
    BY DEF SoundInv, Purse, billingVars
<1>2. CASE Tick
    <2>1. now' \in 0..MaxTime /\ acct' = acct
        BY <1>1, <1>2, ClusterAssumption DEF Tick
    <2> QED BY <1>1, <2>1, WalletKeepsSound
<1>3. CASE OwnerMoves
    <2>1. /\ acct' \in Purse
          /\ acct'.amount + acct'.elsewhere <= acct.amount + acct.elsewhere
        <3>1. ASSUME NEW n \in Delegations, acct' = [acct EXCEPT !.delegated = n] PROVE <2>1!:
            BY <1>1, <3>1, ClusterAssumption DEF Purse
        <3>2. ASSUME NEW n \in Transfers, Payable(n), acct' = [Sent(n) EXCEPT !.elsewhere = @ + n]
              PROVE  <2>1!:
            <4> DEFINE a == acct.amount - n
                       b == acct.elsewhere + n
            <4>1. a \in Nat /\ b \in Nat /\ a + b = acct.amount + acct.elsewhere
                BY <1>1, <3>2, ClusterAssumption DEF Payable
            <4>2. acct' = [acct EXCEPT !.amount = a, !.elsewhere = b]
                BY <1>1, <3>2 DEF Sent, Purse
            <4> HIDE DEF a, b
            <4>3. acct' \in Purse /\ acct'.amount = a /\ acct'.elsewhere = b
                BY <1>1, <4>1, <4>2 DEF Purse
            <4> QED BY <1>1, <4>1, <4>3
        <3>3. ASSUME NEW n \in Transfers, n <= acct.elsewhere,
                     acct' = [acct EXCEPT !.amount = @ + n, !.elsewhere = @ - n]
              PROVE  <2>1!:
            <4> DEFINE a == acct.amount + n
                       b == acct.elsewhere - n
            <4>1. a \in Nat /\ b \in Nat /\ a + b = acct.amount + acct.elsewhere
                BY <1>1, <3>3, ClusterAssumption
            <4>2. acct' = [acct EXCEPT !.amount = a, !.elsewhere = b]
                BY <1>1, <3>3 DEF Purse
            <4> HIDE DEF a, b
            <4>3. acct' \in Purse /\ acct'.amount = a /\ acct'.elsewhere = b
                BY <1>1, <4>1, <4>2 DEF Purse
            <4> QED BY <1>1, <4>1, <4>3
        <3>4. CASE Close \/ Reopen
            <4>1. CASE Close
                <5>1. acct' \in Purse
                    BY <1>1, <4>1 DEF Close, Purse
                <5>2. acct'.amount = acct.amount /\ acct'.elsewhere = acct.elsewhere
                    BY <1>1, <4>1 DEF Close, Purse
                <5> QED BY <1>1, <5>1, <5>2
            <4>2. CASE Reopen
                <5>1. acct' \in Purse
                    BY <1>1, <4>2 DEF Reopen, Purse
                <5>2. acct'.amount = acct.amount /\ acct'.elsewhere = acct.elsewhere
                    BY <1>1, <4>2 DEF Reopen, Purse
                <5> QED BY <1>1, <5>1, <5>2
            <4> QED BY <3>4, <4>1, <4>2
        <3> QED BY <1>3, <3>1, <3>2, <3>3, <3>4 DEF OwnerMoves, Approve, MoveOut, MoveIn
    <2>2. now' \in 0..MaxTime
        BY <1>1, <1>3 DEF OwnerMoves
    <2> QED BY <1>1, <2>1, <2>2, WalletKeepsSound
<1> QED
    BY <1>2, <1>3

LEMMA BillingKeepsSound ==
    ASSUME SoundInv, BillingInv, BillingNext, UNCHANGED creditVars
    PROVE  SoundInv'
<1>1. /\ acct \in Purse /\ acct.amount \in Nat /\ acct.elsewhere \in Nat
      /\ now \in 0..MaxTime /\ paidOrders \subseteq Orders /\ plan.price \in Nat
    BY DEF SoundInv, Purse, BillingInv, Plan
<1>2. UNCHANGED protocolVars /\ now' = now
    BY DEF BillingNext, Pay, CreatePlan, DeactivatePlan, Subscribe, ChargeDue,
           CancelSubscription, clusterVars
<1>3. ASSUME NEW n \in Nat, n <= acct.amount, paidOrders' \subseteq Orders,
             \/ acct' = [acct EXCEPT !.amount = @ - n]
             \/ n <= acct.delegated
                /\ acct' = [acct EXCEPT !.amount = @ - n, !.delegated = @ - n]
      PROVE  SoundInv'
    <2>1. acct' \in Purse /\ acct'.amount = acct.amount - n /\ acct'.elsewhere = acct.elsewhere
        <3>1. CASE acct' = [acct EXCEPT !.amount = @ - n]
            BY <1>1, <1>3, <3>1, PurseMoves
        <3>2. CASE n <= acct.delegated
                   /\ acct' = [acct EXCEPT !.amount = @ - n, !.delegated = @ - n]
            BY <1>1, <1>3, <3>2, PurseMoves
        <3> QED BY <1>3, <3>1, <3>2
    <2>2. acct'.amount + acct'.elsewhere <= acct.amount + acct.elsewhere
        BY <1>1, <1>3, <2>1
    <2> QED BY <1>1, <1>2, <1>3, <2>1, <2>2, WalletKeepsSound
<1>4. CASE acct' = acct /\ paidOrders' = paidOrders
    <2>1. acct'.amount + acct'.elsewhere <= acct.amount + acct.elsewhere
        BY <1>1, <1>4
    <2> QED BY <1>1, <1>2, <1>4, <2>1, WalletKeepsSound
<1>5. CASE \E order \in Orders, amount \in Prices : Pay(order, amount)
    <2> PICK order \in Orders, amount \in Prices : Pay(order, amount)
        BY <1>5
    <2>1. /\ amount \in Nat /\ amount <= acct.amount
          /\ acct' = [acct EXCEPT !.amount = @ - amount]
          /\ paidOrders' \subseteq Orders
        BY <1>1, BillingAssumption DEF Pay, Payable, Sent
    <2> QED BY <1>3, <2>1
<1>6. CASE Subscribe
    BY <1>1, <1>3, <1>6 DEF Subscribe, Payable, Sent
<1>7. CASE ChargeDue
    <2>1. CASE WindowOver(sub, now)
        BY <1>4, <1>7, <2>1 DEF ChargeDue
    <2>2. CASE ~WindowOver(sub, now)
        BY <1>1, <1>3, <1>7, <2>2 DEF ChargeDue, Chargeable, Pullable, Pulled
    <2> QED BY <2>1, <2>2
<1> QED
    BY <1>4, <1>5, <1>6, <1>7
       DEF BillingNext, CreatePlan, DeactivatePlan, CancelSubscription, clusterVars

LEMMA CreditKeepsSound ==
    ASSUME SoundInv, CreditNext, paidOrders' = paidOrders
    PROVE  SoundInv'
<1>1. CASE \E e \in Evidence : Underwrite(e)
    BY <1>1, UnderwriteKeepsSound
<1>2. CASE \E amount \in LockAmounts : LockCollateral(amount) \/ WithdrawCollateral(amount)
    BY <1>2, CollateralKeepsSound
<1>3. CASE \E order \in Orders, principal \in Principals, count \in Counts,
              interval \in Intervals : CreateLoan(order, principal, count, interval)
    BY <1>3, CheckoutWrites, CheckoutKeepsSound
<1>4. CASE \E id \in LoanIds, asked \in RepayAmounts : Repay(id, asked)
    BY <1>4, RepayIsAPayment, PaymentKeepsSound
<1>5. CASE \E id \in LoanIds : Collect(id)
    BY <1>5, CollectIsAPayment, PaymentKeepsSound
<1>6. CASE \E id \in LoanIds : Liquidate(id)
    BY <1>6, LiquidationKeepsSound
<1> QED
    BY <1>1, <1>2, <1>3, <1>4, <1>5, <1>6 DEF CreditNext

(* The keeper's transactions are instructions of the program, on loans     *)
(* that exist although it read them earlier.                               *)
LEMMA StepIsAnInstruction ==
    ASSUME BatchInv, [Next]_vars
    PROVE  \/ CreditNext /\ UNCHANGED billingVars
           \/ BillingNext /\ UNCHANGED creditVars
           \/ ProtocolNext /\ UNCHANGED <<clusterVars, creditVars, billingVars>>
           \/ (Tick \/ OwnerMoves) /\ UNCHANGED <<protocolVars, creditVars, billingVars>>
           \/ UNCHANGED programVars
<1>1. CASE \E id \in batch : Execute(id)
    <2> PICK id \in batch : Execute(id)
        BY <1>1
    <2>1. CASE job = "collect" /\ Collect(id) /\ UNCHANGED billingVars
        BY <2>1 DEF BatchInv, CreditNext
    <2>2. CASE job = "liquidate" /\ Liquidate(id) /\ UNCHANGED billingVars
        BY <2>2 DEF BatchInv, CreditNext
    <2>3. CASE ChargeDue /\ UNCHANGED creditVars
        BY <2>3 DEF BillingNext
    <2> QED
        BY <2>1, <2>2, <2>3 DEF Execute, Instruction
<1>2. CASE Program
    BY <1>2 DEF Program
<1>3. CASE UNCHANGED programVars
    BY <1>3
<1> QED
    BY <1>1, <1>2, <1>3 DEF Next, KeeperNext, Outage, vars

LEMMA StepKeepsSound ==
    ASSUME SoundInv, BillingInv, BatchInv, [Next]_vars
    PROVE  SoundInv'
<1>1. CASE CreditNext /\ UNCHANGED billingVars
    BY <1>1, CreditKeepsSound DEF billingVars
<1>2. CASE BillingNext /\ UNCHANGED creditVars
    BY <1>2, BillingKeepsSound
<1>3. CASE ProtocolNext /\ UNCHANGED <<clusterVars, creditVars, billingVars>>
    BY <1>3, ProtocolKeepsSound DEF billingVars
<1>4. CASE (Tick \/ OwnerMoves) /\ UNCHANGED <<protocolVars, creditVars, billingVars>>
    BY <1>4, ClusterKeepsSound
<1>5. CASE UNCHANGED programVars
    BY <1>5 DEF SoundInv, ProtocolTypeOK, programVars, clusterVars, protocolVars, creditVars,
                billingVars
<1> QED
    BY <1>1, <1>2, <1>3, <1>4, <1>5, StepIsAnInstruction

LEMMA NothingLent ==
    ASSUME NEW f \in [SoundLoan -> Nat]
    PROVE  Total(f, <<>>) = 0
<1> DEFINE c == [i \in 1..Len(<<>>) |-> f[(<<>>)[i]]]
<1>1. <<>> \in Seq(SoundLoan) /\ Len(<<>>) = 0
    OBVIOUS
<1>2. c \in [1..Len(<<>>) -> Int]
    BY <1>1, TableIs
<1> HIDE DEF c
<1>3. SumTo(c, 0) = 0
    <2>1. c \in [1..0 -> Int] /\ \A i \in 1..0 : c[i] = 0
        BY <1>1, <1>2
    <2> QED BY <2>1, SumOfZeros
<1> QED
    BY <1>1, <1>3 DEF Total, c

LEMMA SoundAtFirst == Init => SoundInv
<1> SUFFICES ASSUME Init PROVE SoundInv
    OBVIOUS
<1>1. ClusterInit /\ ProtocolInit /\ CreditInit /\ BillingInit
    BY DEF Init, ProgramInit
<1>2. /\ now \in 0..MaxTime /\ acct \in Purse
      /\ acct.amount + acct.elsewhere + profile.locked <= Wealth
    BY <1>1, ClusterAssumption DEF ClusterInit, CreditInit, Purse
<1>3. ProtocolTypeOK
    BY <1>1 DEF ProtocolInit, ProtocolTypeOK, MaxMultiplier
<1>4. profile \in Profile /\ profile.debt = 0
    BY <1>1 DEF CreditInit, Profile, MaxScore
<1>5. loans = <<>> /\ loans \in Seq(SoundLoan) /\ paidOrders \subseteq Orders
    BY <1>1 DEF CreditInit, BillingInit
<1>6. /\ Total(Owes, loans) = 0 /\ Total(Loses, loans) = 0
      /\ Total(Lends, loans) = 0 /\ Total(Returns, loans) = 0
    BY <1>5, NothingLent, CountersAre
<1>7. pool.badDebt = 0 /\ pool.cash = 0 /\ flows.swept = 0 /\ flows.supplied = 0
    BY <1>1 DEF ProtocolInit
<1> QED
    BY <1>2, <1>3, <1>4, <1>5, <1>6, <1>7 DEF SoundInv

LEMMA SoundAlways == Spec => [](SoundInv /\ BillingInv /\ BatchInv)
<1>1. Init => SoundInv
    BY SoundAtFirst
<1>2. SoundInv /\ BillingInv /\ BatchInv /\ [Next]_vars => SoundInv'
    BY StepKeepsSound
<1> QED
    BY <1>1, <1>2, WalletAlwaysKept, PTL DEF Spec

(* The books agree whatever is paid, collected, liquidated, swept or       *)
(* withdrawn and in whatever order: the debt that caps new credit and      *)
(* holds the collateral is what the active loans owe, the booked loss is   *)
(* what the liquidated ones never brought in, and the vault holds the rest.*)
THEOREM BooksAlwaysAgree == Spec => []Sound
<1>1. SoundInv /\ BillingInv => Sound
    BY SoundInvIsSound
<1> QED
    BY <1>1, SoundAlways, PTL

-----------------------------------------------------------------------------
(* The permissionless path and the schedule.                               *)

LEMMA DueAtClimbs ==
    ASSUME NEW l \in SoundLoan, NEW k \in Nat, NEW m \in Nat, k <= m
    PROVE  /\ DueAt(l, k) \in Nat /\ DueAt(l, m) \in Nat
           /\ DueAt(l, k) <= DueAt(l, m)
<1> DEFINE s == l.started
           p == l.interval
<1>1. s \in Nat /\ p \in Nat
    BY SoundFields
<1>2. DueAt(l, k) = s + (k + 1) * p /\ DueAt(l, m) = s + (m + 1) * p
    BY DEF DueAt
<1> HIDE DEF s, p
<1>3. (k + 1) * p \in Nat /\ (m + 1) * p \in Nat /\ (k + 1) * p <= (m + 1) * p
    BY <1>1
<1> QED
    BY <1>1, <1>2, <1>3

(* The number of instalments fallen due is well defined.                   *)
LEMMA DueByNowIs ==
    ASSUME NEW l \in SoundLoan, now \in Nat
    PROVE  \E k \in 0..l.count :
              /\ DueByNow(l) = Threshold(l, k)
              /\ k = l.count \/ now < DueAt(l, k)
<1> DEFINE Open == {n \in 0..l.count : n = l.count \/ now < DueAt(l, n)}
           IsNext(n) == (n = l.count \/ now < DueAt(l, n)) /\ \A m \in 0..(n-1) : now >= DueAt(l, m)
<1>1. l.count \in Nat
    BY SoundFields
<1>2. Open \in SUBSET Nat /\ l.count \in Open
    BY <1>1
<1>3. PICK n \in Open : \A m \in Open : n <= m
    BY <1>2, LeastNatural
<1>4. IsNext(n)
    <2>1. ASSUME NEW m \in 0..(n-1) PROVE now >= DueAt(l, m)
        <3>1. m \in 0..l.count /\ m # l.count /\ m < n /\ m \in Nat
            BY <1>1, <1>3
        <3>2. ~(now < DueAt(l, m))
            BY <1>3, <3>1
        <3>3. DueAt(l, m) \in Nat
            BY <3>1, DueAtClimbs
        <3> QED BY <3>2, <3>3
    <2> QED BY <1>3, <2>1
<1> DEFINE k == CHOOSE i \in 0..l.count : IsNext(i)
<1>5. k \in 0..l.count /\ IsNext(k)
    BY <1>3, <1>4
<1>6. DueByNow(l) = Threshold(l, k)
    BY DEF DueByNow
<1> HIDE DEF k
<1> QED
    BY <1>5, <1>6

LEMMA CollectFollows ==
    ASSUME SoundInv, NEW id \in LoanIds, Collect(id)
    PROVE  loans'[id].repaid <= DueByNow(loans[id])
<1> DEFINE l == loans[id]
           amount == InstallmentAmount(l)
           t == Threshold(l, l.paid + 1)
<1>1. /\ l \in SoundLoan /\ loans \in Seq(SoundLoan) /\ id \in 1..Len(loans)
      /\ now \in Nat
    BY ClusterAssumption DEF SoundInv, LoanIds
<1>2. /\ l.owed \in Nat \ {0} /\ l.repaid \in Nat /\ l.count \in Nat \ {0} /\ l.paid \in Nat
    BY <1>1, SoundFields
<1>3. Payment(id, amount)
    BY CollectIsAPayment
<1>4. /\ loans' = [loans EXCEPT ![id] = Settled(l, amount)]
    BY <1>3, PaymentWrites
<1>5. l.status = "active" /\ amount \in Nat /\ 0 < amount /\ amount <= Remaining(l)
    BY <1>3 DEF Payment
<1>6. l.paid < l.count /\ now >= DueAt(l, l.paid)
    BY DEF Collect, Collectable, IsDue
<1>7. amount = Less(t, l.repaid)
    BY <1>2, <1>6 DEF InstallmentAmount
<1>8. t \in Nat
    BY <1>2, ThresholdIsNatural
<1> HIDE DEF l, amount, t
<1>9. Settled(l, amount).repaid = l.repaid + amount
    BY <1>1, <1>5, SettledIsSound
<1>10. loans'[id].repaid = t
    <2>1. loans'[id] = Settled(l, amount)
        BY <1>1, <1>4
    <2> QED BY <1>2, <1>5, <1>7, <1>8, <1>9, <2>1 DEF Less
<1>11. PICK k \in 0..l.count : DueByNow(l) = Threshold(l, k) /\ (k = l.count \/ now < DueAt(l, k))
    BY <1>1, DueByNowIs
<1>12. l.paid + 1 <= k
    <2> SUFFICES ASSUME k <= l.paid PROVE FALSE
        BY <1>2, <1>11
    <2>1. k \in Nat /\ k # l.count
        BY <1>2, <1>6, <1>11
    <2>2. DueAt(l, k) <= DueAt(l, l.paid) /\ DueAt(l, k) \in Nat /\ DueAt(l, l.paid) \in Nat
        BY <1>1, <1>2, <2>1, DueAtClimbs
    <2> QED BY <1>1, <1>6, <1>11, <2>1, <2>2
<1>13. t <= Threshold(l, k)
    <2>1. k \in Nat /\ l.paid + 1 \in Nat
        BY <1>2
    <2> QED BY <1>2, <1>12, <2>1, ThresholdClimbs DEF t
<1> QED
    BY <1>10, <1>11, <1>13 DEF l

(* Whoever sends the collections, however late or often, they never take   *)
(* a loan past what its schedule says is due by now; only the borrower's   *)
(* own payments and a liquidation can.                                     *)
THEOREM CollectionNeverRunsAhead == Spec => CollectionFollowsSchedule
<1>1. SoundInv
         => [\A id \in LoanIds :
                Collect(id) => loans'[id].repaid <= DueByNow(loans[id])]_programVars
    BY CollectFollows
<1> QED
    BY <1>1, SoundAlways, PTL DEF CollectionFollowsSchedule

-----------------------------------------------------------------------------
(* The score and the record.                                               *)

OpeningOf(p) == IF p.underwritten THEN UnderwriteFrom(p.evidence) ELSE StartingScore
LossesOf(p) == LatePenalty * p.late + DefaultPenalty * p.liquidations
EarnedBy(p) == OnTimeBonus * p.onTime

(* The best opening score there is.                                        *)
TopOpening == 720

ScoreMatches(p) ==
    p.seen /\ OpeningOf(p) - LossesOf(p) >= MinScore /\ OpeningOf(p) + EarnedBy(p) <= MaxScore
        => p.score = OpeningOf(p) + EarnedBy(p) - LossesOf(p)

RecordKept(p) ==
    /\ ~p.seen => /\ p.onTime = 0 /\ p.late = 0 /\ p.liquidations = 0
                  /\ p.debt = 0 /\ ~p.underwritten
    /\ p.score <= TopOpening + EarnedBy(p)
    /\ ScoreMatches(p)

RecordInv ==
    /\ RecordKept(profile)
    /\ profile.onTime + profile.late <= Total(Completes, loans)

LEMMA OpeningIs ==
    ASSUME NEW p \in Profile
    PROVE  OpeningOf(p) \in Nat /\ OpeningOf(p) <= TopOpening
<1>1. p.evidence \in Evidence \cup {NoEvidence}
    BY DEF Profile
<1>2. UnderwriteFrom(p.evidence) \in Nat /\ UnderwriteFrom(p.evidence) <= 720
    BY <1>1, OpeningRange DEF MaxScore
<1>3. StartingScore \in Nat /\ StartingScore <= 720
    BY DEF StartingScore
<1> QED
    BY <1>2, <1>3 DEF OpeningOf, TopOpening

(* As long as no end of the band can have been reached, a score moves by   *)
(* exactly what is added to the record.                                    *)
LEMMA ScoreFollows ==
    ASSUME NEW p \in Profile, NEW q \in Profile, p.seen, RecordKept(p),
           q.seen, q.underwritten = p.underwritten, q.evidence = p.evidence,
           p.onTime <= q.onTime, p.late <= q.late, p.liquidations <= q.liquidations,
           NEW d \in Int, q.score = Adjusted(p.score, d),
           d = EarnedBy(q) - EarnedBy(p) - (LossesOf(q) - LossesOf(p))
    PROVE  RecordKept(q)
<1> DEFINE o == OpeningOf(p)
           a == q.onTime - p.onTime
           b == q.late - p.late
           c == q.liquidations - p.liquidations
<1>1. o \in Nat /\ o <= 720 /\ OpeningOf(q) = o
    BY OpeningIs DEF OpeningOf, TopOpening
<1>2. /\ p.score \in 0..850 /\ p.onTime \in Nat /\ p.late \in Nat /\ p.liquidations \in Nat
      /\ q.onTime \in Nat /\ q.late \in Nat /\ q.liquidations \in Nat
    BY ProfileFields DEF MaxScore
<1>a. /\ a \in Nat /\ b \in Nat /\ c \in Nat
      /\ q.onTime = p.onTime + a /\ q.late = p.late + b
      /\ q.liquidations = p.liquidations + c
    BY <1>2
<1> HIDE DEF o
<1>3. /\ p.score <= 720 + 12 * p.onTime
      /\ o - (40 * p.late + 150 * p.liquidations) >= 300 /\ o + 12 * p.onTime <= 850
            => p.score = o + 12 * p.onTime - (40 * p.late + 150 * p.liquidations)
    BY DEF RecordKept, ScoreMatches, TopOpening, EarnedBy, LossesOf, OnTimeBonus, LatePenalty,
           DefaultPenalty, MinScore, MaxScore, o
<1>4. d = 12 * a - 40 * b - 150 * c
    BY <1>2 DEF EarnedBy, LossesOf, OnTimeBonus, LatePenalty, DefaultPenalty
<1> HIDE DEF a, b, c
<1>5. d \in Int
    OBVIOUS
<1>6. /\ q.score \in 300..850
      /\ p.score + d >= 300 /\ p.score + d <= 850 => q.score = p.score + d
      /\ q.score = 300 \/ q.score <= p.score + d
    <2>1. p.score \in Int
        BY <1>2
    <2>2. q.score = Adjusted(p.score, d)
        OBVIOUS
    <2>3. MinScore = 300 /\ MaxScore = 850
        BY DEF MinScore, MaxScore
    <2>4. /\ q.score \in MinScore..MaxScore
          /\ p.score + d >= MinScore /\ p.score + d <= MaxScore => q.score = p.score + d
          /\ q.score = MinScore \/ q.score <= p.score + d
        BY <1>5, <2>1, <2>2, AdjustedRange
    <2> QED BY <2>3, <2>4
<1>7. q.score <= TopOpening + EarnedBy(q)
    <2>1. d <= 12 * a
        BY <1>4, <1>a
    <2>2. q.score \in Int /\ (q.score = 300 \/ q.score <= p.score + d)
        BY <1>6
    <2>3. p.score \in Int /\ p.score <= 720 + 12 * p.onTime
        BY <1>2, <1>3
    <2>4. q.score <= 720 + 12 * q.onTime
        BY <1>2, <1>5, <1>a, <2>1, <2>2, <2>3
    <2> QED BY <2>4 DEF TopOpening, EarnedBy, OnTimeBonus
<1>8. ScoreMatches(q)
    <2>1. SUFFICES ASSUME o - (40 * q.late + 150 * q.liquidations) >= 300,
                          o + 12 * q.onTime <= 850
                   PROVE  q.score = o + 12 * q.onTime - (40 * q.late + 150 * q.liquidations)
        BY <1>1 DEF ScoreMatches, EarnedBy, LossesOf, OnTimeBonus, LatePenalty, DefaultPenalty,
                    MinScore, MaxScore
    <2>2. p.score = o + 12 * p.onTime - (40 * p.late + 150 * p.liquidations)
        BY <1>1, <1>2, <1>3, <1>a, <2>1
    <2>3. p.score + d = o + 12 * q.onTime - (40 * q.late + 150 * q.liquidations)
        <3>1. /\ o \in Int /\ p.onTime \in Int /\ p.late \in Int /\ p.liquidations \in Int
              /\ a \in Int /\ b \in Int /\ c \in Int
            BY <1>1, <1>2, <1>a
        <3>2. /\ 12 * q.onTime = 12 * p.onTime + 12 * a
              /\ 40 * q.late = 40 * p.late + 40 * b
              /\ 150 * q.liquidations = 150 * p.liquidations + 150 * c
            BY <1>a, <3>1
        <3> QED BY <1>4, <2>2, <3>1, <3>2
    <2>4. p.score + d >= 300 /\ p.score + d <= 850
        BY <1>1, <1>2, <2>1, <2>3
    <2>5. q.score = p.score + d
        BY <1>6, <2>4
    <2> QED BY <2>3, <2>5
<1> QED
    BY <1>7, <1>8 DEF RecordKept

(* What else a profile holds does not matter to its record.                *)
LEMMA SameRecord ==
    ASSUME NEW p, NEW q, RecordKept(p), p.seen, q.seen,
           q.score = p.score, q.onTime = p.onTime, q.late = p.late,
           q.liquidations = p.liquidations, q.underwritten = p.underwritten,
           q.evidence = p.evidence
    PROVE  RecordKept(q)
BY DEF RecordKept, ScoreMatches, OpeningOf, LossesOf, EarnedBy

LEMMA SeededKeepsRecord ==
    ASSUME SoundInv, RecordInv
    PROVE  RecordKept(Seeded)
<1>1. CASE profile.seen
    BY <1>1 DEF Seeded, RecordInv
<1>2. CASE ~profile.seen
    <2>1. /\ profile.onTime = 0 /\ profile.late = 0 /\ profile.liquidations = 0
          /\ profile.debt = 0 /\ ~profile.underwritten
        BY <1>2 DEF RecordInv, RecordKept
    <2>2. /\ Seeded.seen /\ Seeded.onTime = 0 /\ Seeded.late = 0 /\ Seeded.liquidations = 0
          /\ ~Seeded.underwritten /\ Seeded.score = StartingScore
        BY <1>2, <2>1, SeededIs DEF SoundInv
    <2>3. OpeningOf(Seeded) = 600 /\ EarnedBy(Seeded) = 0 /\ LossesOf(Seeded) = 0
        BY <2>2 DEF OpeningOf, EarnedBy, LossesOf, StartingScore, OnTimeBonus, LatePenalty,
                    DefaultPenalty
    <2> QED BY <2>2, <2>3 DEF RecordKept, ScoreMatches, TopOpening, StartingScore
<1> QED
    BY <1>1, <1>2

LEMMA ScoredKeepsRecord ==
    ASSUME NEW p \in Profile, p.seen, RecordKept(p),
           NEW onTime \in BOOLEAN, NEW completed \in BOOLEAN
    PROVE  LET q == Scored(p, onTime, completed)
           IN  /\ RecordKept(q)
               /\ completed => q.onTime + q.late = p.onTime + p.late + 1
               /\ ~completed => q.onTime + q.late = p.onTime + p.late
<1> DEFINE q == Scored(p, onTime, completed)
<1>a. /\ q \in Profile
      /\ q.seen = p.seen /\ q.liquidations = p.liquidations
      /\ q.debt = p.debt /\ q.locked = p.locked
      /\ q.underwritten = p.underwritten /\ q.evidence = p.evidence
      /\ ~completed => q = p
      /\ completed /\ onTime =>
            /\ q.onTime = p.onTime + 1 /\ q.late = p.late
            /\ q.score = Adjusted(p.score, OnTimeBonus)
      /\ completed /\ ~onTime =>
            /\ q.onTime = p.onTime /\ q.late = p.late + 1
            /\ q.score = Adjusted(p.score, -LatePenalty)
    <2> HIDE DEF q
    <2>1. q = Scored(p, onTime, completed)
        BY DEF q
    <2> QED BY <2>1, ScoredIs
<1>2. p.onTime \in Nat /\ p.late \in Nat /\ p.liquidations \in Nat
    BY ProfileFields
<1> HIDE DEF q
<1>1. q \in Profile
    BY <1>a
<1>b. /\ q.seen = p.seen /\ q.liquidations = p.liquidations
      /\ q.underwritten = p.underwritten /\ q.evidence = p.evidence
    BY <1>a
<1>3. CASE ~completed
    BY <1>a, <1>3 DEF q
<1>4. CASE completed /\ onTime
    <2>1. /\ q.onTime = p.onTime + 1 /\ q.late = p.late /\ q.liquidations = p.liquidations
          /\ q.score = Adjusted(p.score, OnTimeBonus)
        BY <1>b, <1>a, <1>4
    <2>2. OnTimeBonus \in Int
          /\ OnTimeBonus = EarnedBy(q) - EarnedBy(p) - (LossesOf(q) - LossesOf(p))
        BY <1>2, <2>1 DEF EarnedBy, LossesOf, OnTimeBonus, LatePenalty, DefaultPenalty
    <2>3. p.onTime <= q.onTime /\ p.late <= q.late /\ p.liquidations <= q.liquidations
        BY <1>2, <2>1
    <2>4. RecordKept(q)
        BY <1>1, <1>b, <2>1, <2>2, <2>3, ScoreFollows, Zenon
    <2>5. q.onTime + q.late = p.onTime + p.late + 1
        BY <1>2, <2>1
    <2> QED BY <1>4, <2>4, <2>5 DEF q
<1>5. CASE completed /\ ~onTime
    <2>1. /\ q.onTime = p.onTime /\ q.late = p.late + 1 /\ q.liquidations = p.liquidations
          /\ q.score = Adjusted(p.score, -LatePenalty)
        BY <1>b, <1>a, <1>5
    <2>2. -LatePenalty \in Int
          /\ -LatePenalty = EarnedBy(q) - EarnedBy(p) - (LossesOf(q) - LossesOf(p))
        BY <1>2, <2>1 DEF EarnedBy, LossesOf, OnTimeBonus, LatePenalty, DefaultPenalty
    <2>3. p.onTime <= q.onTime /\ p.late <= q.late /\ p.liquidations <= q.liquidations
        BY <1>2, <2>1
    <2>4. RecordKept(q)
        BY <1>1, <1>b, <2>1, <2>2, <2>3, ScoreFollows, Zenon
    <2>5. q.onTime + q.late = p.onTime + p.late + 1
        BY <1>2, <2>1
    <2> QED BY <1>5, <2>4, <2>5 DEF q
<1> QED
    BY <1>3, <1>4, <1>5

(* A wallet that owes has a score: it was given one with its first loan.   *)
LEMMA DebtorsAreSeen ==
    ASSUME SoundInv, RecordInv, NEW n \in Nat, 0 < n, n <= profile.debt
    PROVE  profile.seen
BY ProfileFields DEF SoundInv, RecordInv, RecordKept

LEMMA PaymentKeepsRecord ==
    ASSUME SoundInv, RecordInv, NEW id \in LoanIds, NEW amount, Payment(id, amount)
    PROVE  RecordInv'
<1> DEFINE old == loans[id]
           l   == Settled(old, amount)
           p   == [profile EXCEPT !.debt = @ - amount]
           on  == now <= DueAt(old, old.paid) + Grace
           more == l.paid > old.paid
<1>1. /\ old \in SoundLoan /\ l \in SoundLoan
      /\ loans' = [loans EXCEPT ![id] = l]
      /\ amount <= profile.debt /\ p \in Profile
      /\ profile' = Scored(p, on, more)
    BY PaymentWrites
<1>2. old.status = "active" /\ amount \in Nat /\ 0 < amount /\ amount <= Remaining(old)
    BY DEF Payment
<1>3. old.paid <= l.paid /\ old.paid \in Nat /\ l.paid \in Nat
    BY <1>1, <1>2, SettledIsSound, SoundFields
<1>4. profile.seen
    BY <1>1, <1>2, DebtorsAreSeen
<1>5. /\ p.seen = profile.seen /\ p.score = profile.score
      /\ p.onTime = profile.onTime /\ p.late = profile.late
      /\ p.liquidations = profile.liquidations
      /\ p.underwritten = profile.underwritten /\ p.evidence = profile.evidence
    BY DEF SoundInv, Profile
<1>6. on \in BOOLEAN /\ more \in BOOLEAN
    OBVIOUS
<1> HIDE DEF p, l, on, more
<1>7. RecordKept(p)
    BY <1>4, <1>5, SameRecord DEF RecordInv
<1>8. /\ RecordKept(profile')
      /\ more => profile'.onTime + profile'.late = profile.onTime + profile.late + 1
      /\ ~more => profile'.onTime + profile'.late = profile.onTime + profile.late
    <2> DEFINE q == Scored(p, on, more)
    <2>1. RecordKept(q)
        BY <1>1, <1>4, <1>5, <1>6, <1>7, ScoredKeepsRecord
    <2>2. /\ more => q.onTime + q.late = p.onTime + p.late + 1
          /\ ~more => q.onTime + q.late = p.onTime + p.late
        BY <1>1, <1>4, <1>5, <1>6, <1>7, ScoredKeepsRecord
    <2> HIDE DEF q
    <2>3. profile' = q
        BY <1>1 DEF q
    <2> QED BY <1>5, <2>1, <2>2, <2>3
<1>9. Total(Completes, loans') = Total(Completes, loans) + (l.paid - old.paid)
    <2>1. loans \in Seq(SoundLoan) /\ id \in 1..Len(loans)
        BY DEF SoundInv, LoanIds
    <2>2. Completes[l] = Completes[old] + (l.paid - old.paid) /\ l.paid - old.paid \in Int
        BY <1>1, <1>3 DEF Completes
    <2> QED BY <1>1, <2>1, <2>2, CountersAre, TotalMoves DEF old
<1>10. profile'.onTime + profile'.late <= Total(Completes, loans')
    <2>1. /\ profile.onTime \in Nat /\ profile.late \in Nat /\ Total(Completes, loans) \in Nat
          /\ profile.onTime + profile.late <= Total(Completes, loans)
        BY ProfileFields, TotalsAreNatural DEF SoundInv, RecordInv
    <2>2. CASE more
        <3>1. profile'.onTime + profile'.late = profile.onTime + profile.late + 1
            BY <1>8, <2>2
        <3>2. l.paid > old.paid
            BY <2>2 DEF more
        <3> QED BY <1>3, <1>9, <2>1, <3>1, <3>2
    <2>3. CASE ~more
        BY <1>3, <1>8, <1>9, <2>1, <2>3
    <2> QED BY <2>2, <2>3
<1> QED
    BY <1>8, <1>10 DEF RecordInv, RecordKept, ScoreMatches, OpeningOf, LossesOf, EarnedBy

LEMMA LiquidationKeepsRecord ==
    ASSUME SoundInv, SoundInv', RecordInv, NEW id \in LoanIds, Liquidate(id)
    PROVE  RecordInv'
<1> DEFINE old  == loans[id]
           rest == Remaining(old)
<1>0. PICK take \in Nat, seized \in Nat : Liquidation(id, take, seized)
    BY LiquidationWrites
<1> DEFINE l == Closed(old, old.repaid + take + seized)
<1>1. /\ old \in SoundLoan /\ l \in SoundLoan
      /\ 0 < rest /\ rest <= profile.debt /\ seized <= profile.locked
      /\ loans' = [loans EXCEPT ![id] = l]
    BY <1>0 DEF Liquidation
<1>2. profile' = [profile EXCEPT
                !.debt = profile.debt - rest,
                !.locked = profile.locked - seized, !.seized = profile.seized + seized,
                !.liquidations = profile.liquidations + 1,
                !.score = Adjusted(profile.score, -DefaultPenalty)]
    BY <1>0 DEF Liquidation
<1>3. profile.seen
    BY <1>1, SoundFields, DebtorsAreSeen
<1>4. profile \in Profile /\ profile.onTime \in Nat /\ profile.late \in Nat
      /\ profile.liquidations \in Nat
    BY ProfileFields DEF SoundInv
<1>5. profile' \in Profile
    BY DEF SoundInv
<1>6. /\ profile'.seen = profile.seen /\ profile'.onTime = profile.onTime
      /\ profile'.late = profile.late /\ profile'.liquidations = profile.liquidations + 1
      /\ profile'.underwritten = profile.underwritten /\ profile'.evidence = profile.evidence
      /\ profile'.score = Adjusted(profile.score, -DefaultPenalty)
    BY <1>2, <1>4 DEF Profile
<1>7. RecordKept(profile')
    <2>2. -DefaultPenalty \in Int
          /\ -DefaultPenalty = EarnedBy(profile') - EarnedBy(profile)
                                  - (LossesOf(profile') - LossesOf(profile))
        BY <1>4, <1>6 DEF EarnedBy, LossesOf, OnTimeBonus, LatePenalty, DefaultPenalty
    <2>3. /\ profile.onTime <= profile'.onTime /\ profile.late <= profile'.late
          /\ profile.liquidations <= profile'.liquidations
        BY <1>4, <1>6
    <2>4. RecordKept(profile)
        BY DEF RecordInv
    <2>5. /\ profile \in Profile /\ profile' \in Profile /\ profile.seen /\ profile'.seen
          /\ profile'.underwritten = profile.underwritten /\ profile'.evidence = profile.evidence
          /\ profile'.score = Adjusted(profile.score, -DefaultPenalty)
        BY <1>3, <1>4, <1>5, <1>6
    <2> QED BY <2>2, <2>3, <2>4, <2>5, ScoreFollows, Zenon
<1>8. Total(Completes, loans') = Total(Completes, loans)
    <2>1. loans \in Seq(SoundLoan) /\ id \in 1..Len(loans)
        BY DEF SoundInv, LoanIds
    <2>2. l.paid = old.paid
        <3>1. old \in LoanRecord
            BY <1>1, SoundFields
        <3> QED BY <3>1 DEF Closed, LoanRecord
    <2>3. old.paid \in Nat
        BY <1>1, SoundFields
    <2>4. Completes[l] = Completes[old] + 0
        BY <1>1, <2>2, <2>3 DEF Completes
    <2> HIDE DEF l
    <2>5. loans' = [loans EXCEPT ![id] = l] /\ l \in SoundLoan /\ old = loans[id]
        BY <1>1 DEF l
    <2>6. Total(Completes, loans') = Total(Completes, loans) + 0
        <3>1. 0 \in Int
            OBVIOUS
        <3> QED BY <2>1, <2>4, <2>5, <3>1, CountersAre, TotalMoves
    <2> QED BY <2>1, <2>6, TotalsAreNatural
<1> QED
    BY <1>6, <1>7, <1>8 DEF RecordInv, RecordKept, ScoreMatches, OpeningOf, LossesOf, EarnedBy

LEMMA CheckoutKeepsRecord ==
    ASSUME SoundInv, SoundInv', RecordInv, NEW l, NEW principal, Checkout(l, principal)
    PROVE  RecordInv'
<1>1. /\ l \in SoundLoan /\ l.paid = 0
      /\ loans' = Append(loans, l) /\ loans \in Seq(SoundLoan)
      /\ profile' = [Seeded EXCEPT !.debt = @ + l.owed]
    BY DEF Checkout, SoundInv
<1>2. /\ Seeded \in Profile /\ Seeded.seen
      /\ Seeded.onTime = profile.onTime /\ Seeded.late = profile.late
    BY SeededIs DEF SoundInv
<1>3. RecordKept(Seeded)
    BY SeededKeepsRecord
<1>4. /\ profile'.seen /\ profile'.onTime = Seeded.onTime
      /\ profile'.late = Seeded.late /\ profile'.liquidations = Seeded.liquidations
      /\ profile'.underwritten = Seeded.underwritten /\ profile'.evidence = Seeded.evidence
      /\ profile'.score = Seeded.score
    BY <1>1, <1>2 DEF Profile
<1>5. RecordKept(profile')
    BY <1>2, <1>3, <1>4, SameRecord
<1>6. Total(Completes, loans') = Total(Completes, loans)
    <2>1. Total(Completes, loans') = Total(Completes, loans) + Completes[l]
        BY <1>1, CountersAre, TotalAfterOpen
    <2>2. Completes[l] = 0
        BY <1>1 DEF Completes
    <2> QED BY <1>1, <2>1, <2>2, TotalsAreNatural
<1> QED
    BY <1>2, <1>4, <1>5, <1>6
       DEF RecordInv, RecordKept, ScoreMatches, OpeningOf, LossesOf, EarnedBy

(* An attestation replaces the opening score, while there is no record.    *)
LEMMA UnderwriteKeepsRecord ==
    ASSUME SoundInv, SoundInv', RecordInv, NEW e \in Evidence, Underwrite(e)
    PROVE  RecordInv'
<1>1. /\ profile'.seen
      /\ profile'.score = UnderwriteFrom(e) /\ profile'.underwritten
      /\ profile'.evidence = e
      /\ profile'.onTime = profile.onTime /\ profile'.late = profile.late
      /\ profile'.liquidations = profile.liquidations
      /\ IsUnproven(Seeded) /\ loans' = loans
    BY UnderwriteWrites DEF Underwrite
<1>2. profile.onTime = 0 /\ profile.late = 0 /\ profile.liquidations = 0
    BY <1>1, SeededIs DEF IsUnproven, SoundInv
<1>3. UnderwriteFrom(e) \in Nat /\ UnderwriteFrom(e) <= 720
    BY OpeningRange DEF MaxScore
<1>4. OpeningOf(profile') = UnderwriteFrom(e) /\ EarnedBy(profile') = 0 /\ LossesOf(profile') = 0
    BY <1>1, <1>2 DEF OpeningOf, EarnedBy, LossesOf, OnTimeBonus, LatePenalty, DefaultPenalty
<1>5. RecordKept(profile')
    BY <1>1, <1>3, <1>4 DEF RecordKept, ScoreMatches, TopOpening
<1> QED
    BY <1>1, <1>5
       DEF RecordInv, RecordKept, ScoreMatches, OpeningOf, LossesOf, EarnedBy

LEMMA CollateralKeepsRecord ==
    ASSUME SoundInv, RecordInv, NEW amount \in LockAmounts,
           LockCollateral(amount) \/ WithdrawCollateral(amount)
    PROVE  RecordInv'
<1>1. /\ profile'.debt = profile.debt /\ profile'.onTime = profile.onTime
      /\ profile'.late = profile.late /\ profile'.liquidations = profile.liquidations
      /\ profile'.underwritten = profile.underwritten
      /\ profile'.evidence = profile.evidence
      /\ \/ profile'.seen /\ profile'.score = Seeded.score
         \/ profile'.seen = profile.seen /\ profile'.score = profile.score
    BY CollateralWrites, SeededIs DEF SoundInv
<1>2. loans' = loans
    BY DEF LockCollateral, WithdrawCollateral
<1>3. RecordKept(profile')
    <2>1. CASE profile'.seen /\ profile'.score = Seeded.score
        <3>1. RecordKept(Seeded)
            BY SeededKeepsRecord
        <3>2. /\ Seeded.seen
              /\ Seeded.onTime = profile'.onTime /\ Seeded.late = profile'.late
              /\ Seeded.liquidations = profile'.liquidations
              /\ Seeded.underwritten = profile'.underwritten
              /\ Seeded.evidence = profile'.evidence
            BY <1>1, SeededIs DEF SoundInv
        <3> QED BY <2>1, <3>1, <3>2, SameRecord
    <2>2. CASE profile'.seen = profile.seen /\ profile'.score = profile.score
        BY <1>1, <2>2 DEF RecordInv, RecordKept, ScoreMatches, OpeningOf, LossesOf, EarnedBy
    <2> QED BY <1>1, <2>1, <2>2
<1> QED
    BY <1>1, <1>2, <1>3
       DEF RecordInv, RecordKept, ScoreMatches, OpeningOf, LossesOf, EarnedBy

LEMMA CreditKeepsRecord ==
    ASSUME SoundInv, SoundInv', RecordInv, CreditNext
    PROVE  RecordInv'
<1>1. CASE \E e \in Evidence : Underwrite(e)
    BY <1>1, UnderwriteKeepsRecord
<1>2. CASE \E amount \in LockAmounts : LockCollateral(amount) \/ WithdrawCollateral(amount)
    BY <1>2, CollateralKeepsRecord
<1>3. CASE \E order \in Orders, principal \in Principals, count \in Counts,
              interval \in Intervals : CreateLoan(order, principal, count, interval)
    BY <1>3, CheckoutWrites, CheckoutKeepsRecord
<1>4. CASE \E id \in LoanIds, asked \in RepayAmounts : Repay(id, asked)
    BY <1>4, RepayIsAPayment, PaymentKeepsRecord
<1>5. CASE \E id \in LoanIds : Collect(id)
    BY <1>5, CollectIsAPayment, PaymentKeepsRecord
<1>6. CASE \E id \in LoanIds : Liquidate(id)
    BY <1>6, LiquidationKeepsRecord
<1> QED
    BY <1>1, <1>2, <1>3, <1>4, <1>5, <1>6 DEF CreditNext

LEMMA StepKeepsRecord ==
    ASSUME SoundInv, SoundInv', RecordInv, BatchInv, [Next]_vars
    PROVE  RecordInv'
<1>1. CASE CreditNext
    BY <1>1, CreditKeepsRecord
<1>2. CASE UNCHANGED creditVars
    BY <1>2 DEF creditVars, RecordInv, RecordKept, ScoreMatches, OpeningOf, LossesOf, EarnedBy
<1> QED
    BY <1>1, <1>2, StepIsAnInstruction DEF programVars

(* The score is the opening one moved by exactly the record it shows: no   *)
(* repeat, part payment or second attestation moves it without an          *)
(* instalment completed, a default or a record still empty, and the top    *)
(* tiers are earned by payments.                                           *)
THEOREM ScoreAlwaysTheRecord == Spec => []ScoreIsTheRecord
<1>1. Init => RecordInv
    <2> SUFFICES ASSUME Init PROVE RecordInv
        OBVIOUS
    <2>1. /\ ~profile.seen /\ profile.score = 0 /\ profile.onTime = 0 /\ profile.late = 0
          /\ profile.liquidations = 0 /\ profile.debt = 0 /\ ~profile.underwritten
          /\ loans = <<>>
        BY DEF Init, ProgramInit, CreditInit
    <2>2. EarnedBy(profile) = 0
        BY <2>1 DEF EarnedBy, OnTimeBonus
    <2>3. Total(Completes, loans) = 0
        BY <2>1, NothingLent, CountersAre
    <2> QED BY <2>1, <2>2, <2>3 DEF RecordInv, RecordKept, ScoreMatches, TopOpening
<1>2. SoundInv /\ SoundInv' /\ RecordInv /\ BatchInv /\ [Next]_vars => RecordInv'
    BY StepKeepsRecord
<1>3. SoundInv /\ RecordInv => ScoreIsTheRecord
    <2> SUFFICES ASSUME SoundInv, RecordInv PROVE ScoreIsTheRecord
        OBVIOUS
    <2>1. SumTo(Completed, Len(loans)) = Total(Completes, loans)
        BY SumsAreOfTheBook, TotalsOf DEF SoundInv
    <2>2. profile.score >= 740 => profile.onTime >= 2
        <3>1. profile.score \in Nat /\ profile.onTime \in Nat
            <4>1. profile \in Profile
                BY DEF SoundInv
            <4> QED BY <4>1, ProfileFields DEF MaxScore
        <3>2. profile.score <= 720 + 12 * profile.onTime
            BY DEF RecordInv, RecordKept, TopOpening, EarnedBy, OnTimeBonus
        <3> QED BY <3>1, <3>2
    <2>3. ScoreMatches(profile) /\ profile.onTime + profile.late <= Total(Completes, loans)
        BY DEF RecordInv, RecordKept
    <2> QED BY <2>1, <2>2, <2>3 DEF ScoreIsTheRecord, ScoreMatches, OpeningOf, LossesOf, EarnedBy
<1> QED
    BY <1>1, <1>2, <1>3, SoundAlways, PTL DEF Spec

-----------------------------------------------------------------------------
(* The program implements InstalmentCredit.  It decides with a counter and *)
(* a ladder of rounded thresholds what the abstract plan says with         *)
(* fractions of the debt: the link is that the counter matches the money,  *)
(* so that missing the next threshold is missing that fraction.            *)

PlansOf(book) == [id \in 1..Len(book) |-> PlanOf(book[id])]

(* The plan of a loan over the same debt, brought to some payment and end. *)
Rewritten(plans, id, paid, state) == [plans EXCEPT ![id].paid = paid, ![id].state = state]

PlanShape ==
    [owed : Nat, count : Nat, opened : Nat, every : Nat, paid : Nat,
     state : {"open", "settled", "defaulted"}]

LEMMA PlansAre == Plans = PlansOf(loans) /\ Plans' = PlansOf(loans')
BY DEF Plans, PlansOf, LoanIds, PlanOf

LEMMA PlanIs ==
    ASSUME NEW l \in SoundLoan
    PROVE  /\ PlanOf(l) \in PlanShape
           /\ PlanOf(l).owed = l.owed /\ PlanOf(l).count = l.count
           /\ PlanOf(l).opened = l.started /\ PlanOf(l).every = l.interval
           /\ PlanOf(l).paid = l.repaid
BY SoundFields DEF PlanOf, PlanShape

LEMMA PlansAreASequence ==
    ASSUME NEW book \in Seq(SoundLoan)
    PROVE  /\ PlansOf(book) \in Seq(PlanShape) /\ Len(book) \in Nat
           /\ DOMAIN PlansOf(book) = 1..Len(book) /\ Len(PlansOf(book)) = Len(book)
           /\ \A id \in 1..Len(book) : PlansOf(book)[id] = PlanOf(book[id])
<1>1. Len(book) \in Nat /\ \A id \in 1..Len(book) : book[id] \in SoundLoan
    OBVIOUS
<1>2. \A id \in 1..Len(book) : PlanOf(book[id]) \in PlanShape
    BY <1>1, PlanIs
<1> QED
    BY <1>1, <1>2 DEF PlansOf

LEMMA PlansAfterOpen ==
    ASSUME NEW book \in Seq(SoundLoan), NEW l \in SoundLoan
    PROVE  PlansOf(Append(book, l)) = Append(PlansOf(book), PlanOf(l))
<1> DEFINE n == Len(book)
           new == Append(book, l)
           p == PlansOf(book)
           r == Append(p, PlanOf(l))
<1>1. /\ n \in Nat /\ Len(new) = n + 1 /\ new \in Seq(SoundLoan)
      /\ \A id \in 1..n : new[id] = book[id]
      /\ new[n + 1] = l
    OBVIOUS
<1> HIDE DEF new
<1>2. /\ p \in Seq(PlanShape) /\ Len(p) = n /\ \A id \in 1..n : p[id] = PlanOf(book[id])
    BY PlansAreASequence
<1>3. /\ PlansOf(new) \in Seq(PlanShape) /\ Len(PlansOf(new)) = n + 1
      /\ \A id \in 1..n + 1 : PlansOf(new)[id] = PlanOf(new[id])
    BY <1>1, PlansAreASequence
<1> HIDE DEF p
<1>4. PlanOf(l) \in PlanShape
    BY PlanIs
<1>5. /\ r \in Seq(PlanShape) /\ Len(r) = n + 1 /\ r[n + 1] = PlanOf(l)
      /\ \A id \in 1..n : r[id] = p[id]
    BY <1>2, <1>4, AppendProperties
<1>6. \A id \in 1..n + 1 : PlansOf(new)[id] = r[id]
    <2> SUFFICES ASSUME NEW id \in 1..n + 1 PROVE PlansOf(new)[id] = r[id]
        OBVIOUS
    <2>1. CASE id = n + 1
        BY <1>1, <1>3, <1>5, <2>1
    <2>2. CASE id \in 1..n
        BY <1>1, <1>2, <1>3, <1>5, <2>2
    <2> HIDE DEF n
    <2>3. id = n + 1 \/ id \in 1..n
        BY <1>1
    <2> QED BY <2>1, <2>2, <2>3 DEF n
<1> HIDE DEF r
<1>7. PlansOf(new) = r
    BY <1>3, <1>5, <1>6, SeqEqual
<1> QED
    BY <1>7 DEF new, r, p

LEMMA PlansAfterChange ==
    ASSUME NEW book \in Seq(SoundLoan), NEW id \in 1..Len(book), NEW l \in SoundLoan,
           l.owed = book[id].owed, l.count = book[id].count,
           l.started = book[id].started, l.interval = book[id].interval
    PROVE  PlansOf([book EXCEPT ![id] = l]) =
              Rewritten(PlansOf(book), id, l.repaid, PlanOf(l).state)
<1> DEFINE new == [book EXCEPT ![id] = l]
           p == PlansOf(book)
           x == PlanOf(l)
           y == PlanOf(book[id])
           q == [p EXCEPT ![id].paid = l.repaid, ![id].state = PlanOf(l).state]
<1>1. /\ Len(new) = Len(book) /\ Len(book) \in Nat /\ book[id] \in SoundLoan
      /\ \A i \in 1..Len(book) : new[i] = IF i = id THEN l ELSE book[i]
    OBVIOUS
<1>2. x = [y EXCEPT !.paid = l.repaid, !.state = x.state]
    <2>1. /\ x \in PlanShape /\ y \in PlanShape /\ x.owed = y.owed /\ x.count = y.count
          /\ x.opened = y.opened /\ x.every = y.every /\ x.paid = l.repaid
        BY <1>1, PlanIs
    <2> HIDE DEF x, y
    <2>2. x = [y EXCEPT !.paid = x.paid, !.state = x.state]
        BY <2>1 DEF PlanShape
    <2> QED BY <2>1, <2>2
<1>3. /\ DOMAIN p = 1..Len(book)
      /\ \A i \in 1..Len(book) : p[i] = PlanOf(book[i])
    BY PlansAreASequence
<1> HIDE DEF p
<1>4. /\ DOMAIN q = 1..Len(book)
      /\ \A i \in 1..Len(book) : i # id => q[i] = p[i]
    BY <1>3
<1>5. q[id] = [p[id] EXCEPT !.paid = l.repaid, !.state = PlanOf(l).state]
    BY <1>3
<1>6. \A i \in 1..Len(book) : q[i] = PlanOf(new[i])
    <2> SUFFICES ASSUME NEW i \in 1..Len(book) PROVE q[i] = PlanOf(new[i])
        OBVIOUS
    <2>1. CASE i = id
        BY <1>1, <1>2, <1>3, <1>5, <2>1
    <2>2. CASE i # id
        BY <1>1, <1>3, <1>4, <2>2
    <2> QED BY <2>1, <2>2
<1>7. q = [i \in 1..Len(book) |-> q[i]]
    BY <1>4
<1> HIDE DEF q, new
<1>8. q = PlansOf(new)
    BY <1>1, <1>6, <1>7 DEF PlansOf
<1> QED
    BY <1>8 DEF q, new, p, Rewritten

(* A threshold missed is that fraction of the debt missed.                 *)
LEMMA ThresholdIsAFraction ==
    ASSUME NEW l \in SoundLoan, NEW k \in 1..l.count, l.repaid < Threshold(l, k)
    PROVE  l.repaid * l.count < k * l.owed
<1> DEFINE n == l.count
           o == l.owed
           m == l.repaid
           q == (o * k + n - 1) \div n
<1>1. n \in Nat \ {0} /\ o \in Nat /\ m \in Nat /\ k \in Nat /\ 1 <= k /\ k <= n
    BY SoundFields
<1>2. CASE k = n
    <2>1. m < o
        BY <1>1, <1>2 DEF Threshold
    <2> HIDE DEF n, o, m
    <2>2. m * n < n * o
        BY <1>1, <2>1
    <2> QED BY <1>2, <2>2 DEF n, o, m
<1>3. CASE k # n
    <2>1. m < q
        BY <1>1, <1>3 DEF Threshold
    <2>2. o * k \in Nat
        BY <1>1, OneMorePeriod
    <2>3. q \in Nat /\ n * q <= o * k + n - 1
        BY <1>1, <2>2, RoundedUp
    <2> HIDE DEF n, o, m, q
    <2>4. n * (m + 1) <= n * q
        BY <1>1, <2>1, <2>3
    <2>5. n * (m + 1) = m * n + n /\ m * n \in Nat /\ n * q \in Nat /\ k * o = o * k
        BY <1>1, <2>3
    <2>6. m * n < k * o
        BY <1>1, <2>2, <2>3, <2>4, <2>5
    <2> QED BY <2>6 DEF n, o, m
<1> QED
    BY <1>2, <1>3

(* A checkout opens a plan.                                                *)
LEMMA CheckoutIsAnOpen ==
    ASSUME SoundInv, NEW l, NEW principal, Checkout(l, principal)
    PROVE  Promise!Open
<1>1. /\ l \in SoundLoan /\ l.started = now /\ l.repaid = 0 /\ l.status = "active"
      /\ loans' = Append(loans, l) /\ loans' \in Seq(SoundLoan) /\ loans \in Seq(SoundLoan)
      /\ now' = now
    BY DEF Checkout, SoundInv, clusterVars
<1>2. Plans' = Append(Plans, PlanOf(l))
    BY <1>1, PlansAre, PlansAfterOpen
<1>3. /\ Len(Plans) = Len(loans) /\ Len(loans) \in Nat
      /\ Len(Plans') = Len(loans) + 1 /\ Plans'[Len(loans) + 1] = PlanOf(l)
    <2>1. /\ Len(loans') = Len(loans) + 1 /\ loans'[Len(loans) + 1] = l /\ Len(loans) \in Nat
        BY <1>1
    <2>2. Len(PlansOf(loans)) = Len(loans) /\ Len(PlansOf(loans')) = Len(loans')
        BY <1>1, PlansAreASequence
    <2>3. PlansOf(loans')[Len(loans) + 1] = PlanOf(l)
        <3>1. Len(loans) + 1 \in 1..Len(loans')
            BY <2>1
        <3> QED BY <1>1, <2>1, <3>1, PlansAreASequence
    <2> QED BY <2>1, <2>2, <2>3, PlansAre
<1>4. Promise!Fresh(PlanOf(l))
    <2>1. l.owed \in Nat \ {0} /\ l.count \in 1..MaxInstallments /\ l.interval \in Nat
        BY <1>1, SoundFields
    <2> QED BY <1>1, <2>1 DEF Promise!Fresh, PlanOf
<1> QED
    BY <1>1, <1>2, <1>3, <1>4 DEF Promise!Open

(* Writing one loan over writes one plan, money and state only.            *)
LEMMA ChangeIsAChange ==
    ASSUME loans \in Seq(SoundLoan), NEW id \in LoanIds, NEW l \in SoundLoan,
           loans' = [loans EXCEPT ![id] = l],
           l.owed = loans[id].owed, l.count = loans[id].count,
           l.started = loans[id].started, l.interval = loans[id].interval
    PROVE  /\ id \in 1..Len(Plans) /\ loans[id] \in SoundLoan
           /\ Plans[id] = PlanOf(loans[id]) /\ Plans'[id].paid = l.repaid
           /\ Plans' = [Plans EXCEPT ![id].paid = l.repaid, ![id].state = PlanOf(l).state]
<1>1. /\ id \in 1..Len(loans) /\ loans[id] \in SoundLoan /\ loans' \in Seq(SoundLoan)
      /\ Len(loans') = Len(loans) /\ loans'[id] = l
    BY DEF LoanIds
<1>2. /\ Len(PlansOf(loans)) = Len(loans) /\ PlansOf(loans)[id] = PlanOf(loans[id])
    BY <1>1, PlansAreASequence
<1>3. PlansOf(loans')[id] = PlanOf(l)
    <2>1. id \in 1..Len(loans')
        BY <1>1
    <2>2. PlansOf(loans')[id] = PlanOf(loans'[id])
        BY <1>1, <2>1, PlansAreASequence
    <2> QED BY <1>1, <2>2
<1>4. PlanOf(l).paid = l.repaid
    BY PlanIs
<1>5. PlansOf(loans') =
        [PlansOf(loans) EXCEPT ![id].paid = l.repaid, ![id].state = PlanOf(l).state]
    <2>1. PlansOf(loans') = Rewritten(PlansOf(loans), id, l.repaid, PlanOf(l).state)
        BY <1>1, PlansAfterChange
    <2> QED BY <2>1 DEF Rewritten
<1> QED
    BY <1>1, <1>2, <1>3, <1>4, <1>5, PlansAre

(* A payment, whoever sends it, pays the plan.                             *)
LEMMA PaymentIsAPay ==
    ASSUME SoundInv, NEW id \in LoanIds, NEW amount, Payment(id, amount)
    PROVE  id \in 1..Len(Plans) /\ Promise!Pay(id)
<1> DEFINE old == loans[id]
           l   == Settled(old, amount)
<1>0. loans \in Seq(SoundLoan) /\ old \in SoundLoan
    BY DEF SoundInv, LoanIds
<1>1. /\ old.status = "active" /\ amount \in Nat /\ 0 < amount /\ amount <= Remaining(old)
      /\ now' = now
    BY DEF Payment
<1>2. loans' = [loans EXCEPT ![id] = l]
    BY PaymentWrites
<1>3. /\ l \in SoundLoan
      /\ l.owed = old.owed /\ l.count = old.count
      /\ l.started = old.started /\ l.interval = old.interval
      /\ l.repaid = old.repaid + amount
      /\ l.status = IF l.repaid = old.owed THEN "repaid" ELSE "active"
    BY <1>0, <1>1, SettledIsSound
<1> HIDE DEF l
<1>4. /\ id \in 1..Len(Plans) /\ Plans[id] = PlanOf(old) /\ Plans'[id].paid = l.repaid
      /\ Plans' = [Plans EXCEPT ![id].paid = l.repaid, ![id].state = PlanOf(l).state]
    BY <1>0, <1>2, <1>3, ChangeIsAChange
<1>5. /\ PlanOf(old).state = "open" /\ PlanOf(old).paid = old.repaid
      /\ PlanOf(old).owed = old.owed
    BY <1>1 DEF PlanOf
<1>6. PlanOf(l).state = IF l.repaid = old.owed THEN "settled" ELSE "open"
    BY <1>3 DEF PlanOf
<1>7. old.repaid < l.repaid /\ l.repaid <= old.owed
    <2>1. old.repaid \in Nat /\ l.repaid \in Nat /\ l.repaid <= l.owed
        BY <1>0, <1>3, SoundFields
    <2> QED BY <1>1, <1>3, <2>1
<1> HIDE DEF old
<1> QED
    BY <1>1, <1>4, <1>5, <1>6, <1>7 DEF Promise!Pay

(* What may be liquidated is behind on its plan.                           *)
LEMMA LiquidateIsADefault ==
    ASSUME SoundInv, NEW id \in LoanIds, Liquidate(id)
    PROVE  id \in 1..Len(Plans) /\ Promise!Default(id)
<1> DEFINE old == loans[id]
           k   == old.paid + 1
<1>0. PICK take \in Nat, seized \in Nat : Liquidation(id, take, seized)
    BY LiquidationWrites
<1> DEFINE r == old.repaid + take + seized
           l == Closed(old, r)
<1>1. /\ old \in SoundLoan /\ loans \in Seq(SoundLoan)
      /\ loans' = [loans EXCEPT ![id] = l] /\ take + seized <= Remaining(old)
    BY <1>0 DEF Liquidation, SoundInv
<1>2. /\ old.status = "active" /\ old.paid < old.count
      /\ now > old.started + k * old.interval + Grace /\ now' = now
    BY DEF Liquidate, Clearable, IsLiquidatable, DueAt
<1>3. old.repaid \in Nat /\ old.paid \in Nat /\ old.count \in Nat
      /\ old.owed \in Nat /\ Remaining(old) = old.owed - old.repaid
    BY <1>1, SoundFields
<1> HIDE DEF old
<1>4. r \in Nat /\ r <= old.owed /\ old.repaid <= r
    <2>1. take + seized \in Nat /\ take + seized <= old.owed - old.repaid
        BY <1>1, <1>3
    <2> QED BY <1>3, <2>1
<1> USE DEF old
<1>5. old.repaid < Threshold(old, k)
    BY <1>1, <1>2, <1>3 DEF SoundLoan, CountMatchesMoney
<1> HIDE DEF r, old
<1>6. /\ l \in SoundLoan /\ l.repaid = r /\ l.status = "liquidated"
      /\ l.owed = old.owed /\ l.count = old.count
      /\ l.started = old.started /\ l.interval = old.interval
    BY <1>1, <1>4, ClosedIsSound
<1> HIDE DEF l
<1>7. /\ id \in 1..Len(Plans) /\ Plans[id] = PlanOf(old) /\ Plans'[id].paid = l.repaid
      /\ Plans' = [Plans EXCEPT ![id].paid = l.repaid, ![id].state = PlanOf(l).state]
    BY <1>1, <1>6, ChangeIsAChange DEF old
<1>8. /\ PlanOf(old).state = "open" /\ PlanOf(old).paid = old.repaid
      /\ PlanOf(old).owed = old.owed /\ PlanOf(old).count = old.count
      /\ PlanOf(old).opened = old.started /\ PlanOf(old).every = old.interval
    BY <1>2 DEF PlanOf
<1>9. PlanOf(l).state = "defaulted"
    BY <1>6 DEF PlanOf
<1>10. k \in 1..old.count
    BY <1>2, <1>3
<1>11. old.repaid * old.count < k * old.owed
    BY <1>1, <1>5, <1>10, ThresholdIsAFraction
<1> HIDE DEF k
<1>12. Promise!Behind(PlanOf(old))
    BY <1>2, <1>8, <1>10, <1>11 DEF Promise!Behind
<1> QED
    BY <1>2, <1>4, <1>6, <1>7, <1>8, <1>9, <1>12 DEF Promise!Default

LEMMA CreditKeepsPromise ==
    ASSUME SoundInv, CreditNext
    PROVE  Promise!Next \/ UNCHANGED <<now, Plans>>
<1>1. CASE loans' = loans /\ now' = now
    BY <1>1, PlansAre
<1>2. CASE \E e \in Evidence : Underwrite(e)
    BY <1>1, <1>2 DEF Underwrite, clusterVars
<1>3. CASE \E amount \in LockAmounts : LockCollateral(amount) \/ WithdrawCollateral(amount)
    BY <1>1, <1>3 DEF LockCollateral, WithdrawCollateral
<1>4. CASE \E order \in Orders, principal \in Principals, count \in Counts,
              interval \in Intervals : CreateLoan(order, principal, count, interval)
    BY <1>4, CheckoutWrites, CheckoutIsAnOpen DEF Promise!Next
<1>5. CASE \E id \in LoanIds, asked \in RepayAmounts : Repay(id, asked)
    BY <1>5, RepayIsAPayment, PaymentIsAPay DEF Promise!Next
<1>6. CASE \E id \in LoanIds : Collect(id)
    BY <1>6, CollectIsAPayment, PaymentIsAPay DEF Promise!Next
<1>7. CASE \E id \in LoanIds : Liquidate(id)
    BY <1>7, LiquidateIsADefault DEF Promise!Next
<1> QED
    BY <1>2, <1>3, <1>4, <1>5, <1>6, <1>7 DEF CreditNext

LEMMA OthersOnlyElapse ==
    ASSUME creditVars' = creditVars,
           \/ BillingNext
           \/ ProtocolNext /\ clusterVars' = clusterVars
           \/ Tick
           \/ OwnerMoves
           \/ programVars' = programVars
    PROVE  Promise!Elapse \/ (now' = now /\ Plans' = Plans)
<1>1. Plans' = Plans
    BY PlansAre DEF creditVars
<1>2. now' = now + 1 \/ now' = now
    BY DEF BillingNext, Pay, CreatePlan, DeactivatePlan, Subscribe, ChargeDue,
           CancelSubscription, Tick, OwnerMoves, clusterVars, programVars
<1> QED
    BY <1>1, <1>2 DEF Promise!Elapse

(* The program keeps the promise of an instalment plan, for every schedule,*)
(* rate of payment and order of instructions, the keeper's late ones       *)
(* included: nobody who is not really behind is ever liquidated, and money *)
(* once in stays counted (math.rs, repay.rs, collect.rs, liquidate.rs).    *)
THEOREM ProgramKeepsInstalmentPromise == Spec => KeepsInstalmentPromise
<1>1. Init => Promise!Init
    <2>1. Init => loans = <<>> /\ now = 0
        BY DEF Init, ProgramInit, CreditInit, ClusterInit
    <2>2. loans = <<>> => Plans = <<>>
        BY DEF Plans, LoanIds
    <2> QED BY <2>1, <2>2 DEF Promise!Init
<1>2. SoundInv /\ BatchInv /\ [Next]_vars => [Promise!Next]_(Promise!vars)
    <2> SUFFICES ASSUME SoundInv, BatchInv, [Next]_vars
                 PROVE  Promise!Next \/ UNCHANGED <<now, Plans>>
        BY DEF Promise!vars
    <2>1. CASE CreditNext
        BY <2>1, CreditKeepsPromise
    <2>2. CASE ~CreditNext
        <3>1. creditVars' = creditVars
            BY <2>2, StepIsAnInstruction DEF programVars
        <3>2. \/ BillingNext
              \/ ProtocolNext /\ clusterVars' = clusterVars
              \/ Tick
              \/ OwnerMoves
              \/ programVars' = programVars
            BY <2>2, StepIsAnInstruction
        <3>3. Promise!Elapse \/ (now' = now /\ Plans' = Plans)
            BY <3>1, <3>2, OthersOnlyElapse
        <3> QED BY <3>3 DEF Promise!Next
    <2> QED BY <2>1, <2>2
<1> QED
    BY <1>1, <1>2, SoundAlways, PTL DEF Spec, KeepsInstalmentPromise, Promise!Spec

=============================================================================
