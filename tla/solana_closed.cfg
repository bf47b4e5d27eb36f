SPECIFICATION FairSpec
CONSTANTS
    Wealth = 315
    Delegations = {0, 425}
    Transfers = {245}
    MaxTime = 4
    Multipliers = {15000}
    Caps = {500}
    DefaultCap = 500
    FundAmounts = {500}
    TakeAmounts = {500}
    MaxSupply = 500
    Window = 1
    MinInterval = 1
    Year = 4
    Prices = {105}
    Periods = {1}
    Orders = {1, 2}
    Grace = 1
    LimitUnit = 1
    Principals = {201}
    Counts = {2}
    Intervals = {1}
    RepayAmounts = {70}
    LockAmounts = {150}
    Evidence <- OneWallet
    MaxLoans = 2
    MaxOutages = 1
PROPERTY
    NeverUnliquidatable
CONSTRAINT OneTurn
CHECK_DEADLOCK FALSE
