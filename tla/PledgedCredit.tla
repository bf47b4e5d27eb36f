---------------------------- MODULE PledgedCredit ----------------------------
(***************************************************************************)
(* What credit against pledged shares promises the people in it.  A pledge *)
(* is some shares of one stock behind one debt.  It is taken only for a    *)
(* debt its shares cover; it goes back whole when the debt is met; it is   *)
(* sold only late or sunk, only as far as debt and bonus reach, and the    *)
(* rest goes back.  Either way the lender earns the fee.  Nothing else     *)
(* moves anybody's shares or the lender's money: there is no custody, no   *)
(* refused delivery, no total to keep and no rounding here.                *)
(***************************************************************************)
EXTENDS Integers, Sequences

CONSTANTS
    Accounts, Stocks,
    Numer, Denom            \* a share marked m is worth m * Numer / Denom of money

VARIABLES
    time,
    mark,                   \* stock -> price
    terms,                  \* [ceiling, threshold, bonus], in parts of Whole
    pledges,                \* the sequence of every pledge
    estate,                 \* account -> stock -> shares in hand or owed to it
    income                  \* what lending has brought the lender

vars == <<time, mark, terms, pledges, estate, income>>

Whole == 10000

Init ==
    /\ time = 0 /\ pledges = <<>> /\ income = 0
    /\ estate \in [Accounts -> [Stocks -> Nat]]

-----------------------------------------------------------------------------
(* The worth of some of a pledge's stock, in parts of Numer / Denom.       *)
Worth(p, n) == n * mark[p.stock] * Numer

Covered(p) == p.owed * Whole * Denom <= Worth(p, p.shares) * terms.ceiling

Late(p) == time > p.due

(* Below the threshold, to within one unit of money.                       *)
Sunk(p) == Worth(p, p.shares) * terms.threshold < (p.owed * Whole + terms.threshold) * Denom

(* No more than debt plus bonus.                                           *)
Fair(p, n) == Worth(p, n) * Whole <= p.owed * (Whole + terms.bonus) * Denom

Given(e, a, s, n) == [e EXCEPT ![a][s] = @ + n]

Fresh(p) ==
    /\ p.owner \in Accounts /\ p.stock \in Stocks /\ p.shares \in Nat \ {0}
    /\ p.owed \in Nat \ {0} /\ p.fee \in Nat /\ p.due >= time /\ p.state = "open"
    /\ Covered(p)

Lend ==
    /\ Len(pledges') = Len(pledges) + 1
    /\ \E p \in {pledges'[Len(pledges) + 1]} :
          /\ Fresh(p)
          /\ pledges' = Append(pledges, p)
          /\ estate' = Given(estate, p.owner, p.stock, -p.shares)
    /\ UNCHANGED <<time, mark, terms, income>>

Ends(i, state) ==
    /\ pledges[i].state = "open"
    /\ pledges' = [pledges EXCEPT ![i].state = state]
    /\ income' = income + pledges[i].fee
    /\ UNCHANGED <<time, mark, terms>>

Return(i) ==
    LET p == pledges[i]
    IN  /\ Ends(i, "returned")
        /\ estate' = Given(estate, p.owner, p.stock, p.shares)

Sell(i, buyer, n) ==
    LET p == pledges[i]
    IN  /\ Ends(i, "sold")
        /\ Late(p) \/ Sunk(p)
        /\ n <= p.shares /\ Fair(p, n)
        /\ estate' = Given(Given(estate, buyer, p.stock, n), p.owner, p.stock, p.shares - n)

-----------------------------------------------------------------------------
Elapse == time' = time + 1 /\ UNCHANGED <<mark, terms, pledges, estate, income>>
Quote  == UNCHANGED <<time, terms, pledges, estate, income>>
Retune == UNCHANGED <<time, mark, pledges, estate, income>>

Next ==
    \/ Lend \/ Elapse \/ Quote \/ Retune
    \/ \E i \in 1..Len(pledges) :
          \/ Return(i)
          \/ \E buyer \in Accounts, n \in 0..pledges[i].shares : Sell(i, buyer, n)

Spec == Init /\ [][Next]_vars

=============================================================================
