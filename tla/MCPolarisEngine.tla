--------------------------- MODULE MCPolarisEngine ---------------------------
(* Small instances of the stock-credit system for TLC.  Account 1 shops,    *)
(* account 2 is the merchant, account 3 owns the contracts, relays prints   *)
(* and liquidates.                                                          *)
EXTENDS PolarisEngine, FiniteSets, Functions, TLC

CONSTANT aapl

Risk(ltv, haircut, threshold, bonus) ==
    [maxLtvBps |-> ltv, closedMarketHaircutBps |-> haircut,
     liquidationThresholdBps |-> threshold, liquidationBonusBps |-> bonus]
Fees(origination, apr) == [originationFeeBps |-> origination, interestAprBps |-> apr]

DeployedRisk == Risk(3500, 1000, 5000, 500)
DeployedFees == Fees(100, 1200)
TighterRisk == {Risk(2000, 500, 2500, 1000), Risk(7000, 0, 4000, 500)}
OtherFees == {Fees(500, 5000), Fees(501, 0)}

CoreStable == (1 :> 800) @@ (2 :> 400) @@ (3 :> 1500)
CoreShares == [a \in Accounts |-> IF a = 1 THEN 20 ELSE 0]
AgePairs == {<<1, 3>>, <<2, 1>>}
Swaps == {{}, {aapl}}

AdminStable == (1 :> 400) @@ (2 :> 10) @@ (3 :> 1100)
LiveStable == (1 :> 800) @@ (2 :> 1100) @@ (3 :> 400)

\* Bound of the instance where the owner and the issuer act: at any time one
\* group of the owner's settings, and one thing the issuer may do, differ from
\* the deployment.
OwnerChanges ==
    <<acceptedStocks # Stocks,
      registeredMerchants # {} \/ requireRegisteredMerchant,
      risk # DefaultRisk, fees # DefaultFees,
      feedSet \/ gracePeriod # DefaultGrace \/ ~sequencer.up,
      ~engineWired,
      relayers # {Owner} \/ maxAge # DefaultMaxAge \/ maxDeviationBps # 2000>>
FewChanges ==
    /\ Cardinality({i \in DOMAIN OwnerChanges : OwnerChanges[i]}) <= 1
    /\ Cardinality(UNION Range(blocked) \cup (IF skimming = {} THEN {} ELSE {-1})) <= 1

=============================================================================
