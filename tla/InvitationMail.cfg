SPECIFICATION FairSpec
CONSTANTS
    Invitations = {i1}
    Emails = {e1}
    EmailOf <- OneAddress
    Deployments <- AllDeployments
    Workers = {w1, w2}
    Parallel = 2
    MaxCalls = 3
    RetryAttempts = 2
    QueueSize = 1
    ProviderTypes = {"deferred", "open"}
    MaxItems = 1
    FaultKinds = {"store", "crash"}
    MaxFaults = 1
    i1 = i1
    e1 = e1
    w1 = w1
    w2 = w2

INVARIANT TriesWithinBudget
INVARIANT OneWorkerPerLock
PROPERTY NoDeliveryAfterComplaint
PROPERTY DeliverySettles
CHECK_DEADLOCK FALSE
