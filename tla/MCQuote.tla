------------------------------ MODULE MCQuote ------------------------------
(* A small instance of Quote: tenths of a share, tenths of a dollar, weeks. *)
(* Collateral is worth up to 60000, so that the fractions of a basis point  *)
(* quote() drops add up to several units and its walk back is taken.        *)
EXTENDS Quote

Risk(ltv, haircut, threshold, bonus) ==
    [maxLtvBps |-> ltv, closedMarketHaircutBps |-> haircut,
     liquidationThresholdBps |-> threshold, liquidationBonusBps |-> bonus]
Fees(origination, apr) == [originationFeeBps |-> origination, interestAprBps |-> apr]

\* The deployed parameters, a tight pair, and one the setter must refuse.
Risks == {Risk(3500, 1000, 5000, 500), Risk(4999, 0, 5000, 2000), Risk(5001, 0, 5000, 500)}
FeeTables == {Fees(100, 1200), Fees(500, 4990), Fees(0, 0)}

=============================================================================
