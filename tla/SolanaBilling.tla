---------------------------- MODULE SolanaBilling ----------------------------
(***************************************************************************)
(* Direct payments and subscriptions of the Polaris program, for the one   *)
(* wallet and one plan of the merchant.  A renewal is pulled against the   *)
(* same delegation the wallet's instalment loans rest on.                  *)
(***************************************************************************)
EXTENDS SolanaProtocol, SubscriptionSchedule

CONSTANTS
    Prices, Periods         \* what a plan may cost, and how often

ASSUME BillingAssumption == Prices \subseteq Nat /\ Periods \subseteq Nat

VARIABLES
    plan, sub,
    paidOrders              \* the orders that have a Payment account

billingVars == <<plan, sub, paidOrders>>

Plan == [price : Nat, period : Nat, created : BOOLEAN, active : BOOLEAN]

BillingTypeOK ==
    plan \in Plan /\ sub \in Subscription /\ paidOrders \subseteq Orders

BillingInit ==
    /\ plan = [price |-> 0, period |-> 0, created |-> FALSE, active |-> FALSE]
    /\ sub = NoSubscription
    /\ paidOrders = {}

-----------------------------------------------------------------------------
(* The payment's account is created by paying, so an order is paid once.   *)
Pay(order, amount) ==
    /\ amount > 0 /\ merchant.registered
    /\ order \notin paidOrders
    /\ Payable(amount)
    /\ acct' = Sent(amount)
    /\ paidOrders' = paidOrders \cup {order}
    /\ UNCHANGED <<now, protocolVars, plan, sub>>

CreatePlan(price, period) ==
    /\ merchant.registered /\ ~plan.created
    /\ price > 0 /\ MinInterval <= period /\ period <= Year
    /\ plan' = [price |-> price, period |-> period, created |-> TRUE, active |-> TRUE]
    /\ UNCHANGED <<clusterVars, protocolVars, sub, paidOrders>>

DeactivatePlan ==
    /\ plan.created
    /\ plan' = [plan EXCEPT !.active = FALSE]
    /\ UNCHANGED <<clusterVars, protocolVars, sub, paidOrders>>

(* The owner signs for the first period; the delegation is for the next.   *)
Subscribe ==
    /\ plan.active
    /\ sub.status # "active"
    /\ Delegated(plan.price)
    /\ Payable(plan.price)
    /\ acct' = Sent(plan.price)
    /\ sub' = Opened(now, plan.period)
    /\ UNCHANGED <<now, protocolVars, plan, paidOrders>>

(* Anybody may call it.  The plan must be active, but only for a charge.   *)
Chargeable ==
    /\ Loads /\ ChargeDueAt(sub, now)
    /\ WindowOver(sub, now) \/ (plan.active /\ Delegated(plan.price) /\ Pullable(plan.price))

ChargeDue ==
    /\ Chargeable
    /\ IF WindowOver(sub, now)
       THEN sub' = Skipped(sub, now, plan.period) /\ UNCHANGED acct
       ELSE sub' = Charged(sub, now, plan.period) /\ acct' = Pulled(plan.price)
    /\ UNCHANGED <<now, protocolVars, plan, paidOrders>>

(* By the subscriber or by the merchant.                                   *)
CancelSubscription ==
    /\ sub.status = "active"
    /\ sub' = [sub EXCEPT !.status = "cancelled"]
    /\ UNCHANGED <<clusterVars, protocolVars, plan, paidOrders>>

BillingNext ==
    \/ \E order \in Orders, amount \in Prices : Pay(order, amount)
    \/ \E price \in Prices, period \in Periods : CreatePlan(price, period)
    \/ DeactivatePlan \/ Subscribe \/ ChargeDue \/ CancelSubscription

=============================================================================
