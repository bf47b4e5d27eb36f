----------------------------- MODULE MCCollection -----------------------------
(* A plan of two instalments (2 and 1 units, the ladder of the contract),   *)
(* two attempts before the last rung, and a hub that forgets after 2 ticks. *)
EXTENDS Collection, TLC

LadderKeys == {<<i, n>> : i \in 1..2, n \in 1..MaxAttempts} \cup {<<0, 1>>}
ShortLadder == <<0, 1, 2>>
=============================================================================
