------------------------- MODULE MCPolarisLoanEngine -------------------------
(* Small instances of the credit line for TLC.  Account 1 shops, account 2  *)
(* is the merchant, account 3 owns the contracts, originates and funds.     *)
EXTENDS PolarisLoanEngine, FiniteSets, TLC

LineSupply == (1 :> 420) @@ (2 :> 0) @@ (3 :> 600)

(* Bounds of the instance.  The funder approves only what it puts in, and a *)
(* second depositor is seen with one plan, two plans with one depositor. At *)
(* any time one of the owner's settings may differ from the deployment, and *)
(* then the shopper takes the plain course: one plan, approved in full, no  *)
(* money moved aside.  With the deployed settings everything else is open.  *)
OwnerChanges ==
    <<~engineWrites, ~boostRead, creditMultiplierBps # 15000, ~engineSeizes, ~debtChecked,
      originators # {Owner}, treasury # Owner, ~vaultSet, ~registrySet, supplied \notin {0, 600},
      \E m \in Merchants : merchants[m].registered /\ merchants[m].maxOrderValue # DefaultCap,
      \E m \in Merchants : merchants[m].registered /\ ~merchants[m].active>>
Plain ==
    /\ Len(loans) <= 1
    /\ supplied > 0 /\ usdc[2] \in {0, 390} /\ usdc[3] \notin {300, 900}
    /\ allowance[Contract][1] # 450 /\ allowance[Vault][3] = 0 /\ lockedOf[3] = 0
    /\ \A id \in LoanIds :
          /\ loans[id].principal = 390 /\ loans[id].totalRepaid \notin {100, 200, 305}
          /\ allowance[Contract][1] + loans[id].totalRepaid >= 600
OneChange ==
    LET changes == {i \in DOMAIN OwnerChanges : OwnerChanges[i]}
    IN  /\ supplied > 0 => allowance[Contract][3] = 0
        /\ allowance[Vault][3] + lockedOf[3] > 0 => Len(loans) <= 1
        /\ changes = {} \/ (Cardinality(changes) = 1 /\ Plain)

=============================================================================
