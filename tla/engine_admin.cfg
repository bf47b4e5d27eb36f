SPECIFICATION Spec
CONSTANTS
    aapl = aapl
    Stocks = {aapl}
    NumAccounts = 3
    Owner = 3
    Borrowers = {1}
    Merchants = {2}
    Liquidators = {3}
    DefaultMaxAge = 1
    DefaultMaxAgeWhenClosed = 2
    TightestMaxAge = 1
    LoosestMaxAge = 3
    Prices = {100, 60}
    AgeChoices <- AgePairs
    DeviationChoices = {5000}
    RelayerChoices = {1}
    MaxTime = 2
    StableSupply <- AdminStable
    Funders = {3}
    FundAmounts = {700}
    EngineChoices = {FALSE}
    ShareSupply <- CoreShares
    Blockable = {0, 1}
    SkimChoices = {aapl}
    ShareUnit = 10
    PriceUnit = 1
    StableUnit = 10
    Wad = 100
    Year = 50
    MinTenor = 1
    MaxTenor = 2
    DefaultRisk <- DeployedRisk
    DefaultFees <- DeployedFees
    OrderRefs = {1}
    ShareAmounts = {10}
    BorrowAmounts = {345}
    Tenors = {1}
    StockToggles = {aapl}
    MerchantToggles = {2}
    RiskChoices <- TighterRisk
    FeeChoices <- OtherFees
    GraceChoices = {0, 1, 4}
    GateChoices = {TRUE}
    FeedChoices = {TRUE}
    OracleSwaps <- Swaps
    MaxGrace = 3
    DefaultGrace = 1
    StallBy = 2
    MaxLoans = 1
INVARIANTS
    CustodyIsExact
    ExitAlwaysOpen
    LiquidatableIsClearable
PROPERTIES
    FreshLoanIsSafe
CONSTRAINT
    FewChanges
