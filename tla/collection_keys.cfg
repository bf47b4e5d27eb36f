SPECIFICATION Spec
CONSTANTS
    Count = 2
    TotalOwed = 3
    Interval = 1
    Grace = 1
    Opening = 2
    TopUps = {2}
    MaxTopUps = 1
    Paydays = {1, 2, 3, 4}
    Payments = {3}
    Keys <- LadderKeys
    Ttl = 10
    MaxFaults = 1
    PollFaults = {"indefinite", "other"}
    Delays <- ShortLadder
    MaxAttempts = 6
INVARIANTS
    ChargedOnce
CHECK_DEADLOCK FALSE
