SPECIFICATION FairSpec
CONSTANTS
    Window = 2
    Price = 1
    Periods = {1, 3}
    Purses = {0, 1}
    OrderRefs = {1}
    MaxSubs = 2
    Instalments = {1, 2}
    OrderOf <- TwoOrders
    AmountOf <- UnitSizes
    NamedOrders = 1
    MinAmount = 1
    Floats = {0, 3}
    Deployments <- EachRail
    Keys <- PayoutKeys
    Ttl = 2
    MaxFaults = 1
INVARIANTS
    PaidOutAgainOnlyIf
PROPERTIES
    NothingDueWaits
