--------------------------- MODULE InstalmentCredit ---------------------------
(***************************************************************************)
(* What an instalment plan promises, whichever chain it lives on: a plan   *)
(* is a debt, a number of equal shares of it and an interval.  It is over  *)
(* when the debt is paid, and it can be declared in default only while it  *)
(* really is behind, which is a matter of money and time alone: at some    *)
(* due date, the grace included, less than that many shares was in.  There *)
(* is no counter and no rounding here.                                     *)
(***************************************************************************)
EXTENDS Integers, Sequences

CONSTANTS
    Grace,
    MaxCount                \* the most shares a debt is cut into

VARIABLES
    time,
    plans                   \* the sequence of every plan

vars == <<time, plans>>

Init == time = 0 /\ plans = <<>>

Behind(p) ==
    \E k \in 1..p.count :
        time > p.opened + k * p.every + Grace /\ p.paid * p.count < k * p.owed

Fresh(p) ==
    /\ p.owed \in Nat \ {0} /\ p.count \in 1..MaxCount /\ p.every \in Nat
    /\ p.opened = time /\ p.paid = 0 /\ p.state = "open"

Open ==
    /\ Len(plans') = Len(plans) + 1
    /\ Fresh(plans'[Len(plans) + 1])
    /\ plans' = Append(plans, plans'[Len(plans) + 1])
    /\ UNCHANGED time

(* Money comes in, never more than is owed, and the last of it settles.    *)
Pay(i) ==
    \E later \in {plans'[i].paid} :
        /\ plans[i].state = "open"
        /\ plans[i].paid < later /\ later <= plans[i].owed
        /\ plans' = [plans EXCEPT
              ![i].paid = later,
              ![i].state = IF later = plans[i].owed THEN "settled" ELSE "open"]
        /\ UNCHANGED time

(* The end of a plan that is behind, with whatever could be recovered.     *)
Default(i) ==
    \E later \in {plans'[i].paid} :
        /\ plans[i].state = "open" /\ Behind(plans[i])
        /\ plans[i].paid <= later /\ later <= plans[i].owed
        /\ plans' = [plans EXCEPT ![i].paid = later, ![i].state = "defaulted"]
        /\ UNCHANGED time

Elapse == time' = time + 1 /\ UNCHANGED plans

Next == Open \/ Elapse \/ \E i \in 1..Len(plans) : Pay(i) \/ Default(i)

Spec == Init /\ [][Next]_vars

=============================================================================
