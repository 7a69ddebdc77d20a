CONSTANTS
    Runs = {r1}
    Requests = {q1, q2, q3}
    RuntimeCalls = {"approval", "register", "complete"}
    Attempts = {a1, a2}
    NoAttempt = NoAttempt
    Artifacts = {x1}
    NoArtifact = NoArtifact
    Store = "postgres"
    MaxAttemptCount = 2
SPECIFICATION Spec
SYMMETRY Symmetry
INVARIANTS SucceededIsSettled  AnswersWithinAttempts
CHECK_DEADLOCK FALSE
