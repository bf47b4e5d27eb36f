SPECIFICATION Spec
CONSTANTS
    NumAccounts = 3
    UsdcSupply <- LineSupply
    EngineApprovals = {0, 450, 600}
    VaultApprovals = {150}
    Unlimited = 100000
    Signers = {1, 3}
    Movers = {1, 3}
    MoveAmounts = {300}
    LimitUnit = 1
    WriterChoices = {TRUE, FALSE}
    BoostChoices = {TRUE, FALSE}
    LockAmounts = {150}
    MultiplierChoices = {15000, 30000, 30001}
    SeizerChoices = {TRUE, FALSE}
    Merchants = {2}
    ActiveChoices = {TRUE, FALSE}
    CapChoices = {100, 500}
    DefaultCap = 500
    Year = 4
    MinInterval = 1
    GracePeriod = 1
    Owner = 3
    Borrowers = {1}
    Operators = {1, 3}
    Principals = {390, 90}
    Counts = {2}
    Intervals = {1}
    RepayAmounts = {100, 205}
    FundAmounts = {600}
    TakeAmounts = {415}
    WiringChoices = {TRUE, FALSE}
    TreasuryChoices = {2, 3}
    MaxTime = 3
    MaxLoans = 2
INVARIANTS
    TypeOK
    DebtsAreExact
    InstallmentsMatchMoney
    LineBooksBalance
    FeesComeFromInterest
    ScoredPerInstallment
    DefaultIsClearable
PROPERTIES
    ApprovalBacksEveryPlan
    BadDebtIsLastResort
    CollateralStaysWhileOwed
    OnlyLendingSpendsFees
    KeepsInstalmentPromise
CONSTRAINT OneChange
CHECK_DEADLOCK FALSE
