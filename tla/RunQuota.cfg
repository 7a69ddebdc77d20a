SPECIFICATION Spec
CONSTANTS
    Creates = {c1, c2, c3}
    Finishers = {f1}
    MaxConcurrentRuns = 1
    MaxRunsPerHour = 2
    MaxModelTokens = 5
    TokenReservation = 2
    TokenUsages = {3}
    FaultKinds = {"redis", "store", "crash"}
    MaxFaults = 1
    c1 = c1
    c2 = c2
    c3 = c3
    f1 = f1
SYMMETRY RequestSymmetry
INVARIANT LimitsHold
INVARIANT HeldIsCounted
INVARIANT SettledAtEnd
CHECK_DEADLOCK FALSE
