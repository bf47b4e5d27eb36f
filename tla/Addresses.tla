----------------------------- MODULE Addresses -----------------------------
(***************************************************************************)
(* An address is a number, as on the chain: externally owned accounts are  *)
(* 1..NumAccounts, and 0 stands for the contract that owns a ledger's      *)
(* custody slot (the engine in the ledger of shares, the pool in the       *)
(* ledger of stablecoin, the loan engine in the ledger of the credit line).*)
(***************************************************************************)
EXTENDS Integers

CONSTANT NumAccounts    \* how many accounts there are

ASSUME PartiesAssumption == NumAccounts \in Nat

Accounts == 1..NumAccounts
Contract == 0
Holders == 0..NumAccounts

=============================================================================
