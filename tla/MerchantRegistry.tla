-------------------------- MODULE MerchantRegistry --------------------------
(***************************************************************************)
(* MerchantRegistry.sol: merchants sign themselves up and the protocol     *)
(* activates them and caps what they may originate.                        *)
(***************************************************************************)
EXTENDS Addresses

CONSTANTS
    Merchants,          \* the accounts that sell
    ActiveChoices,      \* subset of BOOLEAN
    CapChoices,         \* the caps the owner may set
    DefaultCap          \* 500e6

ASSUME RegistryAssumption ==
    /\ Merchants \subseteq Accounts
    /\ ActiveChoices \subseteq BOOLEAN
    /\ CapChoices \subseteq Nat /\ DefaultCap \in Nat

VARIABLE merchants      \* merchant -> [registered, active, maxOrderValue]

Merchant == [registered : BOOLEAN, active : BOOLEAN, maxOrderValue : Nat]

RegistryTypeOK == merchants \in [Merchants -> Merchant]

RegistryInit ==
    merchants = [m \in Merchants |->
                    [registered |-> FALSE, active |-> FALSE, maxOrderValue |-> 0]]

-----------------------------------------------------------------------------
Register(m) ==
    /\ ~merchants[m].registered
    /\ merchants' = [merchants EXCEPT ![m] =
          [registered |-> TRUE, active |-> FALSE, maxOrderValue |-> DefaultCap]]

SetActive(m, v) ==
    /\ merchants[m].registered
    /\ merchants' = [merchants EXCEPT ![m].active = v]

SetMaxOrderValue(m, cap) ==
    /\ merchants[m].registered
    /\ merchants' = [merchants EXCEPT ![m].maxOrderValue = cap]

CanOriginate(m, orderValue) ==
    merchants[m].active /\ orderValue <= merchants[m].maxOrderValue

RegistryNext ==
    \E m \in Merchants :
        \/ Register(m)
        \/ \E v \in ActiveChoices : SetActive(m, v)
        \/ \E cap \in CapChoices : SetMaxOrderValue(m, cap)

=============================================================================
