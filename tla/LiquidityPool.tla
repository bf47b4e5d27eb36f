---------------------------- MODULE LiquidityPool ----------------------------
(***************************************************************************)
(* polaris/LiquidityPool.sol: the stablecoin merchants are paid out of.    *)
(* The stablecoin is external; only its balances matter here, and the      *)
(* contract's slot is the pool's own.  Allowances are given in the         *)
(* caller's own transaction and are left out.                              *)
(***************************************************************************)
EXTENDS Parties

CONSTANTS
    StableSupply,       \* account -> stablecoin it starts with
    Funders,            \* the accounts that fund, and that withdrawals go to
    FundAmounts,        \* amounts fund() and withdraw() are called with
    EngineChoices       \* what the owner may set pool.engine to: TRUE is the engine

Pool == Contract

ASSUME PoolAssumption ==
    /\ StableSupply \in [Accounts -> Nat]
    /\ Funders \subseteq Accounts
    /\ FundAmounts \subseteq Nat
    /\ EngineChoices \subseteq BOOLEAN

VARIABLES
    stable,             \* stablecoin balances
    outstanding,        \* principal out on loan, as the pool books it
    earned,             \* fees earned, all time
    contributed,        \* history: funded minus withdrawn
    engineWired         \* pool.engine is the engine of this system

poolVars == <<stable, outstanding, earned, contributed, engineWired>>

PoolTypeOK ==
    /\ stable \in [Holders -> Nat]
    /\ outstanding \in Nat /\ earned \in Nat /\ contributed \in Int
    /\ engineWired \in BOOLEAN

PoolInit ==
    /\ stable = [a \in Holders |-> IF a = Pool THEN 0 ELSE StableSupply[a]]
    /\ outstanding = 0 /\ earned = 0 /\ contributed = 0
    /\ engineWired = TRUE

-----------------------------------------------------------------------------
Available == stable[Pool]

(* One ERC-20 transfer of stablecoin; it reverts on a short balance.       *)
PayStable(from, to, amount) ==
    /\ amount <= stable[from]
    /\ stable' = [stable EXCEPT ![from] = @ - amount, ![to] = @ + amount]

Fund(from, amount) ==
    /\ amount # 0
    /\ PayStable(from, Pool, amount)
    /\ contributed' = contributed + amount
    /\ UNCHANGED <<outstanding, earned, engineWired>>

Withdraw(to, amount) ==
    /\ amount <= Available
    /\ PayStable(Pool, to, amount)
    /\ contributed' = contributed - amount
    /\ UNCHANGED <<outstanding, earned, engineWired>>

SetEngine(wired) ==
    /\ engineWired' = wired
    /\ UNCHANGED <<stable, outstanding, earned, contributed>>

(* Called by the engine while it opens a loan.                             *)
Draw(to, amount) ==
    /\ engineWired
    /\ amount <= Available
    /\ outstanding' = outstanding + amount
    /\ PayStable(Pool, to, amount)
    /\ UNCHANGED <<earned, contributed, engineWired>>

(* The engine moves principal + fees in and books them: the principal is   *)
(* capped at what the pool believes is outstanding.                        *)
CappedPrincipal(principal) == IF principal > outstanding THEN outstanding ELSE principal

OnRepaid(from, principal, fees) ==
    /\ engineWired
    /\ PayStable(from, Pool, principal + fees)
    /\ outstanding' = outstanding - CappedPrincipal(principal)
    /\ earned' = earned + fees
    /\ UNCHANGED <<contributed, engineWired>>

PoolNext ==
    \/ \E a \in Funders, amount \in FundAmounts : Fund(a, amount) \/ Withdraw(a, amount)
    \/ \E wired \in EngineChoices : SetEngine(wired)

=============================================================================
