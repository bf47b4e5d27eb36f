----------------------------- MODULE Stablecoin -----------------------------
(***************************************************************************)
(* The stablecoin of the credit line (MockUSDC.sol, an OpenZeppelin ERC20),*)
(* which is also the collateral token of the deployed vault.  Balances and *)
(* standing allowances are what the credit line rests on: a borrower signs *)
(* once and every later instalment is pulled against that allowance, while *)
(* nothing stops the borrower from spending the money or taking the        *)
(* allowance back.                                                         *)
(***************************************************************************)
EXTENDS Addresses

CONSTANTS
    UsdcSupply,         \* account -> what it starts with
    EngineApprovals,    \* the allowances accounts give the loan engine
    VaultApprovals,     \* the allowances accounts give the vault
    Unlimited,          \* type(uint256).max, which transferFrom never spends
    Signers, Movers,    \* the accounts seen approving and sending
    MoveAmounts         \* what they send

Vault == -1
Spenders == {Contract, Vault}
Wallets == {Vault} \cup Holders

ASSUME StablecoinAssumption ==
    /\ UsdcSupply \in [Accounts -> Nat]
    /\ EngineApprovals \subseteq Nat /\ VaultApprovals \subseteq Nat
    /\ Unlimited \in Nat
    /\ Signers \subseteq Accounts /\ Movers \subseteq Accounts
    /\ MoveAmounts \subseteq Nat

VARIABLES
    usdc,               \* wallet -> balance
    allowance           \* spender -> account -> what it may still pull

coinVars == <<usdc, allowance>>

CoinTypeOK ==
    /\ usdc \in [Wallets -> Nat]
    /\ allowance \in [Spenders -> [Accounts -> Nat]]

CoinInit ==
    /\ usdc = [w \in Wallets |-> IF w \in Accounts THEN UsdcSupply[w] ELSE 0]
    /\ allowance = [s \in Spenders |-> [a \in Accounts |-> 0]]

-----------------------------------------------------------------------------
(* One after the other: whoever sends to itself ends with what it had.     *)
Moved(ledger, from, to, amount) ==
    [[ledger EXCEPT ![from] = @ - amount] EXCEPT ![to] = @ + amount]

(* transferFrom by a spender: what it needs, and what it leaves.           *)
Pullable(spender, owner, amount) ==
    amount <= usdc[owner] /\ amount <= allowance[spender][owner]

Spent(spender, owner, amount) ==
    [allowance EXCEPT ![spender][owner] = IF @ = Unlimited THEN @ ELSE @ - amount]

Approve(owner, spender, amount) ==
    /\ allowance' = [allowance EXCEPT ![spender][owner] = amount]
    /\ UNCHANGED usdc

Transfer(from, to, amount) ==
    /\ amount <= usdc[from]
    /\ usdc' = Moved(usdc, from, to, amount)
    /\ UNCHANGED allowance

CoinNext ==
    \/ \E a \in Signers, amount \in EngineApprovals : Approve(a, Contract, amount)
    \/ \E a \in Signers, amount \in VaultApprovals : Approve(a, Vault, amount)
    \/ \E a, to \in Movers, amount \in MoveAmounts : Transfer(a, to, amount)

=============================================================================
