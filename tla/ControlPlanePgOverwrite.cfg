CONSTANTS
    Runs = {r1}
    Requests = {q1, q2, q3}
    RuntimeCalls = {"complete"}
    Attempts = {a1, a2}
    NoAttempt = NoAttempt
    Artifacts = {}
    NoArtifact = NoArtifact
    Store = "postgres"
    MaxAttemptCount = 2
SPECIFICATION Spec
PROPERTY TerminalIsFinal
CHECK_DEADLOCK FALSE
