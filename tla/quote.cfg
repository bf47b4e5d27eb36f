SPECIFICATION Spec
CONSTANTS
    ShareUnit = 10
    PriceUnit = 2
    StableUnit = 10
    Wad = 3
    Year = 52
    ShareAmounts = {0, 1, 7, 10, 23}
    Prices = {1, 33, 257, 5198}
    Tenors = {1, 2}
    RiskChoices <- Risks
    FeeChoices <- FeeTables
INVARIANTS
    QuoteIsAccepted
    QuoteIsMaximal
