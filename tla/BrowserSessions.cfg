SPECIFICATION Spec
CONSTANTS
    Keys = {1, 2, 3}
    FirstKey = 1
    KidOf <- SecondTakesId
    Parallel = 2
    MaxRotations = 1
    MaxFetchFaults = 1
    MaxLogins = 1
    MaxCalls = 3
    FaultKinds = {"store", "crash"}
    MaxFaults = 1
INVARIANT OneSessionPerLogin
INVARIANT PublishedKeyAccepted
INVARIANT WithdrawnKeyRefused
PROPERTY ReplayRefused
CHECK_DEADLOCK FALSE
