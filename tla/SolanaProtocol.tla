---------------------------- MODULE SolanaProtocol ----------------------------
(***************************************************************************)
(* The accounts of the Polaris program every product shares: its settings, *)
(* the merchant, and the pool merchants are paid from.  Where payouts and  *)
(* fees go, and the counters no instruction reads, are left out.           *)
(***************************************************************************)
EXTENDS SolanaCluster

CONSTANTS
    Multipliers,            \* credit multipliers the authority may set, in bps
    Caps, DefaultCap,       \* order caps, and the one of a new merchant
    FundAmounts, TakeAmounts,
    MaxSupply,              \* bound on the liquidity put in
    MinInterval, Year,      \* the shortest and the longest period or interval
    Orders                  \* order references

ASSUME ProtocolAssumption ==
    /\ MaxSupply \in Nat /\ MinInterval \in Nat \ {0} /\ Year \in Nat \ {0}
    /\ Multipliers \subseteq Nat /\ Caps \subseteq Nat /\ DefaultCap \in Nat
    /\ FundAmounts \subseteq Nat /\ TakeAmounts \subseteq Nat

VARIABLES
    multiplier,             \* credit_multiplier_bps
    merchant,
    pool,                   \* the liquidity vault, the fees owed out of it,
                            \* and the losses booked
    flows                   \* history: liquidity put in net of withdrawals,
                            \* and fees swept

protocolVars == <<multiplier, merchant, pool, flows>>

MaxMultiplier == 30000

ProtocolTypeOK ==
    /\ multiplier \in 1..MaxMultiplier
    /\ merchant \in [registered : BOOLEAN, active : BOOLEAN, cap : Nat]
    /\ pool \in [cash : Nat, fees : Nat, badDebt : Nat]
    /\ flows \in [supplied : Int, swept : Nat]

ProtocolInit ==
    /\ multiplier = 15000
    /\ merchant = [registered |-> FALSE, active |-> FALSE, cap |-> 0]
    /\ pool = [cash |-> 0, fees |-> 0, badDebt |-> 0]
    /\ flows = [supplied |-> 0, swept |-> 0]

-----------------------------------------------------------------------------
SetConfig(bps) ==
    /\ bps > 0 /\ bps <= MaxMultiplier
    /\ multiplier' = bps
    /\ UNCHANGED <<merchant, pool, flows>>

(* A merchant registers itself and is switched on by the authority.        *)
RegisterMerchant ==
    /\ ~merchant.registered
    /\ merchant' = [registered |-> TRUE, active |-> FALSE, cap |-> DefaultCap]
    /\ UNCHANGED <<multiplier, pool, flows>>

SetMerchantActive(v) ==
    /\ merchant.registered
    /\ merchant' = [merchant EXCEPT !.active = v]
    /\ UNCHANGED <<multiplier, pool, flows>>

SetMaxOrder(cap) ==
    /\ merchant.registered
    /\ merchant' = [merchant EXCEPT !.cap = cap]
    /\ UNCHANGED <<multiplier, pool, flows>>

FundLiquidity(amount) ==
    /\ amount > 0 /\ flows.supplied + amount <= MaxSupply
    /\ pool' = [pool EXCEPT !.cash = @ + amount]
    /\ flows' = [flows EXCEPT !.supplied = @ + amount]
    /\ UNCHANGED <<multiplier, merchant>>

(* What the treasury is owed is not the funder's to take.                  *)
WithdrawLiquidity(amount) ==
    /\ amount > 0 /\ amount <= Less(pool.cash, pool.fees)
    /\ pool' = [pool EXCEPT !.cash = @ - amount]
    /\ flows' = [flows EXCEPT !.supplied = @ - amount]
    /\ UNCHANGED <<multiplier, merchant>>

SweepFees ==
    /\ pool.fees > 0 /\ pool.fees <= pool.cash
    /\ pool' = [pool EXCEPT !.cash = @ - pool.fees, !.fees = 0]
    /\ flows' = [flows EXCEPT !.swept = @ + pool.fees]
    /\ UNCHANGED <<multiplier, merchant>>

ProtocolNext ==
    \/ RegisterMerchant \/ SweepFees
    \/ \E v \in BOOLEAN : SetMerchantActive(v)
    \/ \E cap \in Caps : SetMaxOrder(cap)
    \/ \E bps \in Multipliers : SetConfig(bps)
    \/ \E amount \in FundAmounts : FundLiquidity(amount)
    \/ \E amount \in TakeAmounts : WithdrawLiquidity(amount)

=============================================================================
