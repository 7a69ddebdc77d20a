------------------------------ MODULE RunStore ------------------------------
(***************************************************************************)
(* The run rows of the control plane's store, and the operations on one    *)
(* row that decide who may move a run and where to.  Memory store:         *)
(* repository/store.go; Postgres store: repository/postgres_store.go.      *)
(* Both stores take the same decisions; they differ in whether             *)
(* UpdateRunStatus decides and writes in one critical section (memory) or  *)
(* reads the row first and writes it in a second statement (Postgres).     *)
(*                                                                         *)
(* Time is abstracted: a lease is "none" (lease_expires_at IS NULL),       *)
(* "live" (still in the future) or "expired".                              *)
(***************************************************************************)
EXTENDS Naturals

CONSTANTS
    Attempts,   \* the attempt ids that queue messages and workers generate
    NoAttempt   \* the empty attempt id of a run nobody has claimed

ASSUME NoAttemptAssumption == NoAttempt \notin Attempts

ActiveStatuses == {"queued", "running", "waiting_for_approval"}
FinalStatuses == {"succeeded", "failed", "canceled"}

\* "absent" stands for a run id that has no row yet.
RunStatuses == ActiveStatuses \cup FinalStatuses \cup {"absent"}

IsTerminalRunStatus(status) == status \in FinalStatuses

LeaseStates == {"none", "live", "expired"}

Run == [status       : RunStatuses,
        attempt      : Attempts \cup {NoAttempt},
        lease        : LeaseStates,
        attemptCount : Nat,
        started      : BOOLEAN,      \* started_at is set
        finished     : BOOLEAN]      \* finished_at is set

NoRun == [status |-> "absent", attempt |-> NoAttempt, lease |-> "none",
          attemptCount |-> 0, started |-> FALSE, finished |-> FALSE]

\* The row that AddUserMessage inserts.
QueuedRun == [NoRun EXCEPT !.status = "queued"]

-----------------------------------------------------------------------------
\* Faulty: a lease that is still live does not protect the run.
ClaimConflictNoLease(run, attempt) ==
    /\ ~IsTerminalRunStatus(run.status)
    /\ run.attempt \notin {NoAttempt, attempt}
    /\ run.lease = "none"

\* A claim is refused when another attempt holds the run and its lease is
\* missing or has not run out.
ClaimConflict(run, attempt) ==
    /\ ~IsTerminalRunStatus(run.status)
    /\ run.attempt \notin {NoAttempt, attempt}
    /\ run.lease # "expired"

\* Faulty: a heartbeat puts a finished run back to running.
ClaimRunAttemptRevives(run, attempt) ==
    [run EXCEPT !.attempt = attempt, !.lease = "live",
                !.attemptCount = IF run.attempt = attempt THEN @ ELSE @ + 1,
                !.status = "running", !.started = TRUE]

\* A claim that is not refused.  The claim of a finished run answers with the
\* row and leaves it alone; a renewal by the same attempt (the heartbeat)
\* extends the lease and puts the run back to running.
ClaimRunAttempt(run, attempt) ==
    IF IsTerminalRunStatus(run.status)
    THEN run
    ELSE [run EXCEPT !.attempt = attempt,
                     !.lease = "live",
                     !.attemptCount = IF run.attempt = attempt THEN @ ELSE @ + 1,
                     !.status = "running",
                     !.started = TRUE]

\* Faulty: no fence.
CheckRunAttemptOff(run, attempt) == TRUE

\* The fence in front of every call of a runtime: the caller's attempt must be
\* the one that holds the run.  The lease is not looked at.
CheckRunAttempt(run, attempt) == attempt = run.attempt

\* Faulty: a run that waits for approval is treated like a finished one.
StatusRefusedWaiting(run, status) ==
    (IsTerminalRunStatus(run.status) \/ run.status = "waiting_for_approval") /\ run.status # status

\* A finished run only accepts the status it already has.
StatusRefused(run, status) ==
    IsTerminalRunStatus(run.status) /\ run.status # status

\* Faulty: the status is assigned without looking at the old one.
UpdateRunStatusUnguarded(run, status) ==
    [run EXCEPT !.status = status,
                !.started = @ \/ status = "running",
                !.finished = @ \/ IsTerminalRunStatus(status)]

\* Memory store: decision and assignment under one lock.
UpdateRunStatus(run, status) ==
    IF StatusRefused(run, status)
    THEN run
    ELSE [run EXCEPT !.status = status,
                     !.started = @ \/ status = "running",
                     !.finished = @ \/ IsTerminalRunStatus(status)]

\* Postgres store: the UPDATE that follows the SELECT.  It sets status,
\* started_at and finished_at from the row that was read (seen), whatever the
\* row holds now.
WriteRunStatus(run, seen, status) ==
    [run EXCEPT !.status = status,
                !.started = seen.started \/ status = "running",
                !.finished = seen.finished \/ IsTerminalRunStatus(status)]
=============================================================================
