CONSTANTS
    Runners = {r1, r2}
    Prober = prober
    MaxConcurrent = 1
    MaxAttempts = 2
    Minute = 2
    MaxTicks = 2
    Scenarios <- MCScenarios
SPECIFICATION FairModelSpec
INVARIANTS
    ProviderLimits
    AnswersCountedOnce
PROPERTY CallsReturn
CHECK_DEADLOCK FALSE
