CONSTANTS
    Callers = {c1, c2}
    Runs = {r1, r2}
    Skills = {"search", "cli.exec", "crm", "docs", "erase"}
    RiskDenied = {"erase"}
    KindOf <- MCKindOf
    HostOf <- MCHostOf
    RateLimit <- MCRateLimit
    MaxAttempts = 2
    Minute = 2
    MaxTicks = 2
    Scenarios <- MCScenarios
    Budgets <- MCBudgets
    MaxToolCallsPerDay = 2
    MaxSandboxSecondsPerDay = 3
    ReservedSeconds = 1
    SandboxHalves = {1}
    SandboxSkills = {"cli.exec"}
    MaxCalls = 3
SYMMETRY Attempts
SPECIFICATION ToolSpec
INVARIANTS
    QuotaKept
    InvocationRowsClosed
    OnlyAllowedDialed
    AdmittedWithinLimit
CHECK_DEADLOCK FALSE
