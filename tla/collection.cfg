SPECIFICATION FairSpec
CONSTANTS
    Count = 2
    TotalOwed = 3
    Interval = 1
    Grace = 1
    Opening = 2
    TopUps = {2}
    MaxTopUps = 1
    Paydays = {2}
    Payments = {3}
    Keys <- LadderKeys
    Ttl = 2
    MaxFaults = 1
    PollFaults = {"indefinite", "operator", "other"}
    Delays <- ShortLadder
    MaxAttempts = 6
INVARIANTS
    TypeOK
    
CHECK_DEADLOCK FALSE
PROPERTIES
    BookCatchesUp
    DefaultIsResolved
