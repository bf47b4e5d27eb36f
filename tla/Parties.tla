------------------------------ MODULE Parties ------------------------------
(***************************************************************************)
(* Who and what the stock-credit contracts talk about: addresses, and the  *)
(* stock tokens they accept.                                               *)
(***************************************************************************)
EXTENDS Addresses

CONSTANT Stocks         \* the stock tokens

=============================================================================
