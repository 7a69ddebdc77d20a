SPECIFICATION FairSpec
CONSTANTS
    w1 = w1
    w2 = w2
    a = a
    b = b
    Writers = {w1, w2}
    Readers = {r1}
    Replicas = {a, b}
    Deployments <- MCDeployments
    OutSize = 1
    MaxEvents = 3
    MaxDisconnects = 2
    MaxFaults = 1
INVARIANT AppliedOnce
INVARIANT NoEventSkipped
INVARIANT MissedEventsReplayed
PROPERTY CatchesUp
CHECK_DEADLOCK FALSE
