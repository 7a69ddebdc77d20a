CONSTANTS
    Runs = {r1}
    NoRunId = NoRunId
    Workers = {w1, w2}
    Attempts = {1, 2, 3, 4, 5, 6}
    NoAttempt = 0
    ReclaimMinIdle = 1
    LeaseTicks = 2
    MaxDeliveries = 3
    MaxAttemptCount = 3
    MaxFaults = 1
    MaxCrashes = 1
SPECIFICATION FairSpec
INVARIANTS DistinctAttempts DeliveriesBounded UnclaimedIsKept
PROPERTIES LeaseIsHonoured MessageSettles
