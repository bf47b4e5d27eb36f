--------------------------- MODULE CollateralVault ---------------------------
(***************************************************************************)
(* CollateralVault.sol: stablecoin locked to raise a credit limit.  It     *)
(* leaves only to its owner while the loan engine reports no debt, or to   *)
(* the engine on a default.                                                *)
(***************************************************************************)
EXTENDS Stablecoin

CONSTANTS
    LockAmounts,        \* what borrowers lock and withdraw
    MultiplierChoices,  \* what the owner may set the multiplier to
    SeizerChoices       \* subset of BOOLEAN: isSeizer[engine], loanEngine set or not

ASSUME VaultAssumption ==
    /\ LockAmounts \subseteq Nat
    /\ MultiplierChoices \subseteq Nat
    /\ SeizerChoices \subseteq BOOLEAN

VARIABLES
    lockedOf, seizedOf, totalLocked,
    creditMultiplierBps,
    engineSeizes,       \* isSeizer[engine]
    debtChecked         \* loanEngine is set

vaultBook == <<lockedOf, seizedOf, totalLocked>>
vaultParams == <<creditMultiplierBps, engineSeizes, debtChecked>>
vaultVars == <<vaultBook, vaultParams>>

MaxMultiplierBps == 30000

VaultTypeOK ==
    /\ lockedOf \in [Accounts -> Nat] /\ seizedOf \in [Accounts -> Nat]
    /\ totalLocked \in Nat
    /\ creditMultiplierBps \in 1..MaxMultiplierBps
    /\ engineSeizes \in BOOLEAN /\ debtChecked \in BOOLEAN

VaultInit ==
    /\ lockedOf = [a \in Accounts |-> 0] /\ seizedOf = [a \in Accounts |-> 0]
    /\ totalLocked = 0
    /\ creditMultiplierBps = 15000
    /\ engineSeizes = TRUE /\ debtChecked = TRUE    \* deploy-fixed.js

-----------------------------------------------------------------------------
CreditBoostOf(a) == (lockedOf[a] * creditMultiplierBps) \div 10000

Lock(a, amount) ==
    /\ amount # 0
    /\ Pullable(Vault, a, amount)
    /\ usdc' = Moved(usdc, a, Vault, amount)
    /\ allowance' = Spent(Vault, a, amount)
    /\ lockedOf' = [lockedOf EXCEPT ![a] = @ + amount]
    /\ totalLocked' = totalLocked + amount
    /\ UNCHANGED <<seizedOf, vaultParams>>

\* A slip: the engine is not asked.
NotAsked(debt) == TRUE

Releasable(debt) == debtChecked => debt = 0

(* withdraw: all or nothing while there is debt.                           *)
WithdrawCollateral(a, amount, debt) ==
    /\ amount # 0
    /\ amount <= lockedOf[a]
    /\ Releasable(debt)
    /\ lockedOf' = [lockedOf EXCEPT ![a] = @ - amount]
    /\ totalLocked' = totalLocked - amount
    /\ usdc' = Moved(usdc, Vault, a, amount)
    /\ UNCHANGED <<allowance, seizedOf, vaultParams>>

\* A slip: a shortfall of collateral is not capped.
Uncapped(a, wanted) == wanted

Seizable(a, wanted) == IF wanted > lockedOf[a] THEN lockedOf[a] ELSE wanted

\* A slip: the running total is forgotten.
SeizeOne(a, taken) ==
    /\ lockedOf' = [lockedOf EXCEPT ![a] = @ - taken]
    /\ seizedOf' = [seizedOf EXCEPT ![a] = @ + taken]
    /\ UNCHANGED totalLocked

(* The books of seize; the engine's action moves the money.                *)
Seize(a, taken) ==
    /\ lockedOf' = [lockedOf EXCEPT ![a] = @ - taken]
    /\ seizedOf' = [seizedOf EXCEPT ![a] = @ + taken]
    /\ totalLocked' = totalLocked - taken

ValidMultiplier(bps) == bps # 0 /\ bps <= MaxMultiplierBps

SetCreditMultiplierBps(bps) ==
    /\ ValidMultiplier(bps)
    /\ creditMultiplierBps' = bps
    /\ UNCHANGED <<coinVars, vaultBook, engineSeizes, debtChecked>>

SetSeizer(v) ==
    /\ engineSeizes' = v
    /\ UNCHANGED <<coinVars, vaultBook, creditMultiplierBps, debtChecked>>

SetLoanEngine(v) ==
    /\ debtChecked' = v
    /\ UNCHANGED <<coinVars, vaultBook, creditMultiplierBps, engineSeizes>>

VaultNext ==
    \/ \E a \in Accounts, amount \in LockAmounts : Lock(a, amount)
    \/ \E bps \in MultiplierChoices : SetCreditMultiplierBps(bps)
    \/ \E v \in SeizerChoices : SetSeizer(v) \/ SetLoanEngine(v)

=============================================================================
