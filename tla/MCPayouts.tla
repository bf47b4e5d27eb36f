------------------------------ MODULE MCPayouts ------------------------------
(* One plan by the tick or by three, a window of two; two instalments of   *)
(* two orders, paid out apart or together.                                 *)
EXTENDS Payouts, TLC

EachRail == {{"payments"}, {"settlement"}}
TwoOrders == <<1, 2>>
UnitSizes == <<1, 1>>
PayoutKeys == Charges \cup BatchIds
=============================================================================
