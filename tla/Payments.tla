------------------------------- MODULE Payments -------------------------------
(***************************************************************************)
(* PolarisPayments.sol: direct payments, and one merchant's plan with one  *)
(* subscriber.  Times are relative to now, which is always 0, so the       *)
(* schedule needs no clock: a due time moves closer, then into the past.   *)
(* The contract draws on the smaller of balance and allowance, `drawable`. *)
(***************************************************************************)
EXTENDS SubscriptionSchedule

CONSTANTS
    Price,          \* pricePerPeriod
    Periods,        \* periodSeconds, in ticks
    Purses,         \* what the subscriber may leave drawable
    OrderRefs,      \* the orders paid directly
    MaxSubs         \* bound on subscriptions ever opened

ASSUME PaymentsAssumption ==
    /\ Price \in Nat \ {0} /\ Periods \subseteq Nat \ {0}
    /\ Purses \subseteq Nat /\ MaxSubs \in Nat

VARIABLES
    plan,           \* the merchant's plan: state and period
    sub,            \* the subscriber's latest subscription to it
    subId,          \* its id, 0 before the first; ids are dense
    drawable,       \* a natural number
    paidOrders      \* the orders with a payment id

paymentVars == <<plan, sub, subId, drawable, paidOrders>>

NoPlan == [state |-> "none", period |-> 0]

PaymentsInit ==
    /\ plan = NoPlan /\ sub = NoSubscription /\ subId = 0
    /\ drawable \in Purses
    /\ paidOrders = {}

(* startedAt and periodsCharged are read by nobody: kept as they began.    *)
Kept(s) == [s EXCEPT !.started = 0, !.charged = 1]

Draw(amount) == amount <= drawable /\ drawable' = drawable - amount

(* One payment id per merchant and order.                                  *)
Pay(order, amount) ==
    /\ order \notin paidOrders
    /\ Draw(amount)
    /\ paidOrders' = paidOrders \cup {order}
    /\ UNCHANGED <<plan, sub, subId>>

CreatePlan(period) ==
    /\ plan = NoPlan
    /\ plan' = [state |-> "active", period |-> period]
    /\ UNCHANGED <<sub, subId, drawable, paidOrders>>

(* Stops new subscriptions; the running ones go on.                        *)
DeactivatePlan ==
    /\ plan.state = "active"
    /\ plan' = [plan EXCEPT !.state = "inactive"]
    /\ UNCHANGED <<sub, subId, drawable, paidOrders>>

Subscribe ==
    /\ plan.state = "active" /\ sub.status # "active" /\ subId < MaxSubs
    /\ Draw(Price)
    /\ sub' = Kept(Opened(0, plan.period)) /\ subId' = subId + 1
    /\ UNCHANGED <<plan, paidOrders>>

IsChargeDue == ChargeDueAt(sub, 0)

(* Within the window the money must be there; past it nothing is drawn.    *)
ChargeGoes == IsChargeDue /\ (WindowOver(sub, 0) \/ Price <= drawable)

ChargeDue ==
    /\ ChargeGoes
    /\ IF WindowOver(sub, 0)
       THEN sub' = Kept(Skipped(sub, 0, plan.period)) /\ UNCHANGED drawable
       ELSE sub' = Kept(Charged(sub, 0, plan.period)) /\ Draw(Price)
    /\ UNCHANGED <<plan, subId, paidOrders>>

(* By the subscriber or by the merchant.                                   *)
Cancel ==
    /\ sub.status = "active"
    /\ sub' = [sub EXCEPT !.status = "cancelled"]
    /\ UNCHANGED <<plan, subId, drawable, paidOrders>>

(* The subscriber tops up, spends, or changes the allowance.               *)
Wallet ==
    /\ drawable' \in Purses
    /\ UNCHANGED <<plan, sub, subId, paidOrders>>

(* A tick later.  Once past the window every further period late is like   *)
(* the one before: a skip leads to the same boundary.                      *)
Later ==
    LET due == sub.next - 1
    IN  /\ sub' = IF sub.status # "active" THEN sub
                  ELSE [sub EXCEPT !.next =
                          IF due < -(Window + plan.period) THEN due + plan.period ELSE due]
        /\ UNCHANGED <<plan, subId, drawable, paidOrders>>

PaymentsNext ==
    \/ \E order \in OrderRefs : Pay(order, Price)
    \/ \E period \in Periods : CreatePlan(period)
    \/ DeactivatePlan \/ Subscribe \/ ChargeDue \/ Cancel \/ Wallet

=============================================================================
