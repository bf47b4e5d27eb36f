SPECIFICATION Spec
CONSTANTS
    aapl = aapl
    Stocks = {aapl}
    NumAccounts = 3
    Owner = 3
    Borrowers = {1}
    Merchants = {2}
    Liquidators = {3}
    DefaultMaxAge = 1
    DefaultMaxAgeWhenClosed = 2
    TightestMaxAge = 1
    LoosestMaxAge = 3
    Prices = {100, 30}
    AgeChoices = {}
    DeviationChoices = {}
    RelayerChoices = {}
    MaxTime = 2
    StableSupply <- CoreStable
    Funders = {3}
    FundAmounts = {700}
    EngineChoices = {}
    ShareSupply <- CoreShares
    Blockable = {}
    SkimChoices = {}
    ShareUnit = 10
    PriceUnit = 1
    StableUnit = 10
    Wad = 100
    Year = 50
    MinTenor = 1
    MaxTenor = 2
    DefaultRisk <- DeployedRisk
    DefaultFees <- DeployedFees
    OrderRefs = {1}
    ShareAmounts = {10}
    BorrowAmounts = {345}
    Tenors = {1}
    StockToggles = {}
    MerchantToggles = {}
    RiskChoices = {}
    FeeChoices = {}
    GraceChoices = {}
    GateChoices = {}
    FeedChoices = {}
    OracleSwaps = {}
    MaxGrace = 3
    DefaultGrace = 1
    StallBy = 0
    MaxLoans = 1
PROPERTIES
    PoolWearsTheShortfall
