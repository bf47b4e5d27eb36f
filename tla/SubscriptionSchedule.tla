------------------------- MODULE SubscriptionSchedule -------------------------
(***************************************************************************)
(* The renewal schedule PolarisPayments.sol and the Solana program share:  *)
(* a period is charged from its due time until the charge window closes,   *)
(* and past the window it is skipped; three skips in a row end it.         *)
(***************************************************************************)
EXTENDS Integers

CONSTANT Window             \* CHARGE_WINDOW, in the instance's time unit

ASSUME WindowAssumption == Window \in Nat

MaxMisses == 3

Subscription ==
    [started : Int, next : Int, charged : Nat, missed : 0..MaxMisses,
     status : {"none", "active", "cancelled", "lapsed"}]

NoSubscription ==
    [started |-> 0, next |-> 0, charged |-> 0, missed |-> 0, status |-> "none"]

(* The first period is paid on the spot.                                   *)
Opened(t, period) ==
    [started |-> t, next |-> t + period, charged |-> 1, missed |-> 0, status |-> "active"]

ChargeDueAt(s, t) == s.status = "active" /\ t >= s.next

\* A slip: a charge may be collected however late it is.
NoWindow(s, t) == FALSE

WindowOver(s, t) == t > s.next + Window

\* A slip: the schedule restarts at the charge, which leaves the next one due at once.
Rebased(s, t, period) == [s EXCEPT !.charged = @ + 1, !.missed = 0, !.next = t]

Charged(s, t, period) == [s EXCEPT !.charged = @ + 1, !.missed = 0, !.next = @ + period]

(* To the first boundary after t, however many periods that passes.        *)
Skipped(s, t, period) ==
    [s EXCEPT !.missed = @ + 1,
              !.next = @ + ((t - @) \div period + 1) * period,
              !.status = IF s.missed + 1 >= MaxMisses THEN "lapsed" ELSE @]

=============================================================================
