----------------------------- MODULE StockToken -----------------------------
(***************************************************************************)
(* The tokenized shares the engine takes as collateral.  The token is the  *)
(* issuer's: what matters of it is that balances move, that the issuer can *)
(* block an address in either direction (polaris/testing/BlockableStock.sol*)
(* stands for it in the tests), and that a token may keep a unit of every  *)
(* transfer for itself.  The contract's slot of a ledger is the engine's.  *)
(***************************************************************************)
EXTENDS Parties

CONSTANTS
    ShareSupply,        \* account -> shares of every stock it starts with
    Blockable,          \* the addresses the issuer may block
    SkimChoices         \* the stocks whose issuer may charge for transfers

Engine == Contract

ASSUME TokenAssumption ==
    /\ ShareSupply \in [Accounts -> Nat]
    /\ Blockable \subseteq Holders
    /\ SkimChoices \subseteq Stocks

VARIABLES
    shares,             \* stock -> holder -> balance
    blocked,            \* stock -> the addresses its issuer refuses
    skimming            \* the stocks that now charge a unit per transfer

tokenVars == <<shares, blocked, skimming>>

TokenTypeOK ==
    /\ shares \in [Stocks -> [Holders -> Nat]]
    /\ blocked \in [Stocks -> SUBSET Holders]
    /\ skimming \subseteq Stocks

TokenInit ==
    /\ shares = [s \in Stocks |->
                    [a \in Holders |-> IF a = Engine THEN 0 ELSE ShareSupply[a]]]
    /\ blocked = [s \in Stocks |-> {}]
    /\ skimming = {}

-----------------------------------------------------------------------------
Arriving(s, amount) == IF s \in skimming /\ amount > 0 THEN amount - 1 ELSE amount

(* Whether a transfer goes through on a given ledger, and the ledger after.*)
Transferable(ledger, s, from, to, amount) ==
    /\ from \notin blocked[s] /\ to \notin blocked[s]
    /\ amount <= ledger[s][from]

AfterTransfer(ledger, s, from, to, amount) ==
    [ledger EXCEPT ![s][from] = @ - amount, ![s][to] = @ + Arriving(s, amount)]

SetBlocked(s, who, v) ==
    /\ blocked' = [blocked EXCEPT ![s] = IF v THEN @ \cup {who} ELSE @ \ {who}]
    /\ UNCHANGED <<shares, skimming>>

SetSkimming(s, v) ==
    /\ skimming' = IF v THEN skimming \cup {s} ELSE skimming \ {s}
    /\ UNCHANGED <<shares, blocked>>

TokenNext ==
    \/ \E s \in Stocks, who \in Blockable, v \in BOOLEAN : SetBlocked(s, who, v)
    \/ \E s \in SkimChoices, v \in BOOLEAN : SetSkimming(s, v)

=============================================================================
