----------------------------- MODULE PrefixSums -----------------------------
(***************************************************************************)
(* Sums over an interval of the naturals, written as a recursive function  *)
(* so that they can be both evaluated and proved about.  The Polaris       *)
(* contracts keep running totals (lockedOf, outstanding); the invariants   *)
(* compare each total with the sum it stands for.                          *)
(***************************************************************************)
EXTENDS Integers

(* The sum c[1] + ... + c[n] of a function c on 1..n.                      *)
SumTo(c, n) ==
    LET s[i \in 0..n] == IF i = 0 THEN 0 ELSE s[i-1] + c[i]
    IN  s[n]

=============================================================================
