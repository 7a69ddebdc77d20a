CONSTANTS
    Runs = {r1}
    Requests = {q1, q2, q3}
    RuntimeCalls = {"approval", "complete", "fail"}
    Attempts = {a1, a2}
    NoAttempt = NoAttempt
    Artifacts = {}
    NoArtifact = NoArtifact
    Store = "memory"
    MaxAttemptCount = 2
SPECIFICATION FairSpec
INVARIANTS TerminalEventMeansTerminal FinishIsReported
PROPERTIES TerminalIsFinal ImplementsLifecycle FinishersFinish
CHECK_DEADLOCK FALSE
