----------------------------- MODULE RunWorker ------------------------------
(***************************************************************************)
(* The Redis run queue and the agent runtimes that consume it              *)
(* (dispatch/queue.go, runqueue/worker.go, engine/eino_engine.go): a       *)
(* stream with one consumer group, workers that read, reclaim, claim,      *)
(* execute and acknowledge, their heartbeats, crashes and restarts, and    *)
(* calls to Redis and to the control plane that fail.                      *)
(*                                                                         *)
(* A call of a worker to the control plane is one step here; how the       *)
(* handlers behind the calls interleave is the subject of ControlPlane.    *)
(* Every run is enqueued once, so a message is named by its run.  Time     *)
(* passes in ticks that nothing bounds from above: a worker may be paused  *)
(* for as long as it takes its lease to run out.                           *)
(***************************************************************************)
EXTENDS RunStore, Sequences, FiniteSets

CONSTANTS
    Runs,             \* run ids
    NoRunId,          \* the run of a worker that has none
    Workers,          \* the consumers of the group
    ReclaimMinIdle,   \* RUN_QUEUE_RECLAIM_MIN_IDLE_SECONDS, in ticks
    LeaseTicks,       \* the lease a claim takes, in ticks
    MaxDeliveries,    \* RUN_QUEUE_MAX_DELIVERIES
    MaxAttemptCount,  \* bound on attempt_count, for heartbeats that win a run back
    MaxFaults,        \* bound on the calls that fail
    MaxCrashes        \* bound on the crashes of workers

ASSUME RunWorkerAssumption ==
    /\ NoRunId \notin Runs /\ IsFiniteSet(Workers)
    /\ ReclaimMinIdle \in Nat \ {0} /\ LeaseTicks \in Nat \ {0} /\ MaxDeliveries \in Nat \ {0}
    /\ MaxAttemptCount \in Nat /\ MaxFaults \in Nat /\ MaxCrashes \in Nat
    /\ Attempts \subseteq Nat \ {0} /\ 1 \in Attempts

VARIABLES
    runs,       \* the run rows of the control plane
    leaseLeft,  \* ticks until the lease of each run expires
    stream,     \* the messages that were added, oldest first
    delivered,  \* how many of them XREADGROUP has handed out
    msg,        \* each message's entry in the group
    dlq,        \* the messages in the dead letter stream
    worker,     \* the workers
    faults,     \* calls that have failed
    crashes     \* crashes so far

vars == <<runs, leaseLeft, stream, delivered, msg, dlq, worker, faults, crashes>>
queue == <<stream, delivered, msg, dlq>>
rows == <<runs, leaseLeft>>

-----------------------------------------------------------------------------
Message == [state : {"none", "new", "pending", "acked"},
            idle  : 0..ReclaimMinIdle,     \* ticks since the last delivery
            count : Nat]                   \* deliveries, as XPENDING reports them

PCs == {"idle", "autoclaim", "retry_count", "dead_letter", "ack_dead", "fetch", "claim",
        "emit_started", "is_canceled", "agent", "fail", "complete", "ack", "ended"}

\* The engine is running and startLeaseHeartbeat's goroutine with it.
Executing == {"emit_started", "is_canceled", "agent", "fail", "complete"}

\* stopped: the heartbeat canceled the context of the execution.
\* result: the status of the RunResult that Execute returns and nobody reads.
Worker == [pc : PCs, run : Runs \cup {NoRunId}, attempt : Attempts \cup {NoAttempt},
           stopped : BOOLEAN, result : {"none", "succeeded", "failed", "canceled"}]

IdleWorker == [pc |-> "idle", run |-> NoRunId, attempt |-> NoAttempt, stopped |-> FALSE,
               result |-> "none"]

TypeOK ==
    /\ runs \in [Runs -> Run]
    /\ leaseLeft \in [Runs -> 0..LeaseTicks]
    /\ stream \in Seq(Runs) /\ delivered \in 0..Len(stream)
    /\ msg \in [Runs -> Message]
    /\ dlq \subseteq Runs
    /\ worker \in [Workers -> Worker]
    /\ faults \in 0..MaxFaults /\ crashes \in 0..MaxCrashes

\* createMessage has stored the runs and is about to dispatch them.
Init ==
    /\ runs = [r \in Runs |-> QueuedRun]
    /\ leaseLeft = [r \in Runs |-> 0]
    /\ stream = <<>> /\ delivered = 0
    /\ msg = [r \in Runs |-> [state |-> "none", idle |-> 0, count |-> 0]]
    /\ dlq = {}
    /\ worker = [w \in Workers |-> IdleWorker]
    /\ faults = 0 /\ crashes = 0

At(w, pc) == worker[w].pc = pc
RunOf(w) == worker[w].run
Goto(w, pc) == worker' = [worker EXCEPT ![w].pc = pc]
\* Execute returns and executeQueuedRun reports no error.
Return(w, result) == worker' = [worker EXCEPT ![w].pc = "ack", ![w].result = result]
\* ProcessNext returns; Run calls it again.
GiveUp(w) == worker' = [worker EXCEPT ![w] = IdleWorker]
\* ProcessNext returns the timeout of a call, which counts as
\* context.DeadlineExceeded: Run returns too, and the process lives on without
\* a worker.
LoopEnds(w) == worker' = [worker EXCEPT ![w] = [IdleWorker EXCEPT !.pc = "ended"]]

CallFails == faults < MaxFaults /\ faults' = faults + 1

-----------------------------------------------------------------------------
(***************************************************************************)
(* The queue.                                                              *)
(***************************************************************************)

\* QueueDispatcher.Dispatch: XADD of a message with a new attempt id.
Enqueue(r) ==
    /\ msg[r].state = "none"
    /\ stream' = Append(stream, r)
    /\ msg' = [msg EXCEPT ![r].state = "new"]
    /\ UNCHANGED <<rows, delivered, dlq, worker, faults, crashes>>

\* XREADGROUP hands out the oldest message that no consumer has had.  The
\* attempt is the one of the message: attempt 1 of its run.
ReadGroup(w) ==
    /\ At(w, "idle")
    /\ delivered < Len(stream)
    /\ LET r == stream[delivered + 1] IN
         /\ msg' = [msg EXCEPT ![r] = [state |-> "pending", idle |-> 0, count |-> 1]]
         /\ worker' = [worker EXCEPT ![w] = [IdleWorker EXCEPT !.pc = "fetch", !.run = r,
                                                               !.attempt = 1]]
    /\ delivered' = delivered + 1
    /\ UNCHANGED <<rows, stream, dlq, faults, crashes>>

\* XREADGROUP runs into its block timeout.
ReadEmpty(w) ==
    /\ At(w, "idle")
    /\ delivered = Len(stream)
    /\ Goto(w, "autoclaim")
    /\ UNCHANGED <<rows, queue, faults, crashes>>

\* The pending messages that have been idle for long enough, by position.
Reclaimable == {i \in 1..Len(stream) : /\ msg[stream[i]].state = "pending"
                                       /\ msg[stream[i]].idle >= ReclaimMinIdle}

\* Faulty: a reclaimed message keeps the attempt id of its first delivery.
AutoClaimSameAttempt(w) ==
    /\ At(w, "autoclaim")
    /\ \/ Reclaimable = {} /\ GiveUp(w) /\ UNCHANGED msg
       \/ \E i \in Reclaimable : LET r == stream[i] IN
            /\ \A j \in Reclaimable : i <= j
            /\ msg[r].count + 1 \in Attempts
            /\ msg' = [msg EXCEPT ![r] = [state |-> "pending", idle |-> 0, count |-> @.count + 1]]
            /\ worker' = [worker EXCEPT ![w] = [IdleWorker EXCEPT
                            !.pc = "retry_count", !.run = r, !.attempt = 1]]
    /\ UNCHANGED <<rows, stream, delivered, dlq, faults, crashes>>

\* XAUTOCLAIM from 0-0 with count 1 takes the oldest of them over and counts a
\* delivery.  ProcessNext gives the reclaimed message a fresh attempt id: the
\* delivery count, which no other delivery of the run has.
AutoClaim(w) ==
    /\ At(w, "autoclaim")
    /\ \/ Reclaimable = {} /\ GiveUp(w) /\ UNCHANGED msg
       \/ \E i \in Reclaimable : LET r == stream[i] IN
            /\ \A j \in Reclaimable : i <= j
            /\ msg[r].count + 1 \in Attempts
            /\ msg' = [msg EXCEPT ![r] = [state |-> "pending", idle |-> 0, count |-> @.count + 1]]
            /\ worker' = [worker EXCEPT ![w] = [IdleWorker EXCEPT
                            !.pc = "retry_count", !.run = r, !.attempt = msg[r].count + 1]]
    /\ UNCHANGED <<rows, stream, delivered, dlq, faults, crashes>>

\* Faulty: one delivery too many.
PendingRetryCountOffByOne(w) ==
    /\ At(w, "retry_count")
    /\ LET count == IF msg[RunOf(w)].state = "pending" THEN msg[RunOf(w)].count ELSE 0 IN
       \/ /\ Goto(w, IF count > MaxDeliveries THEN "dead_letter" ELSE "fetch")
          /\ UNCHANGED faults
       \/ CallFails /\ Goto(w, "fetch")
    /\ UNCHANGED <<rows, queue, crashes>>

\* XPENDING: the delivery count of a message that is still pending, else 0.
\* A failed call counts as 0 too.
PendingRetryCount(w) ==
    /\ At(w, "retry_count")
    /\ LET count == IF msg[RunOf(w)].state = "pending" THEN msg[RunOf(w)].count ELSE 0 IN
       \/ /\ Goto(w, IF count >= MaxDeliveries THEN "dead_letter" ELSE "fetch")
          /\ UNCHANGED faults
       \/ CallFails /\ Goto(w, "fetch")
    /\ UNCHANGED <<rows, queue, crashes>>

\* Faulty: a dead-lettered message is not acknowledged.
DeadLetterNoAck(w) ==
    /\ At(w, "dead_letter")
    /\ dlq' = dlq \cup {RunOf(w)}
    /\ GiveUp(w)
    /\ UNCHANGED <<rows, stream, delivered, msg, faults, crashes>>

DeadLetter(w) ==
    /\ At(w, "dead_letter")
    /\ \/ dlq' = dlq \cup {RunOf(w)} /\ Goto(w, "ack_dead") /\ UNCHANGED faults
       \/ CallFails /\ GiveUp(w) /\ dlq' \in {dlq, dlq \cup {RunOf(w)}}
    /\ UNCHANGED <<rows, stream, delivered, msg, crashes>>

\* XACK removes the message from the group, whoever it was delivered to last.
Ack(w) ==
    /\ At(w, "ack") \/ At(w, "ack_dead")
    /\ \/ msg' = [msg EXCEPT ![RunOf(w)].state = "acked"] /\ UNCHANGED faults
       \/ CallFails /\ msg' \in {msg, [msg EXCEPT ![RunOf(w)].state = "acked"]}
    /\ GiveUp(w)
    /\ UNCHANGED <<rows, stream, delivered, dlq, crashes>>

-----------------------------------------------------------------------------
(***************************************************************************)
(* executeQueuedRun.                                                       *)
(***************************************************************************)

\* Faulty: a failed fetch counts as executed.
FetchExecutionContextSwallowed(w) ==
    /\ At(w, "fetch")
    /\ \/ Goto(w, "claim") /\ UNCHANGED faults
       \/ CallFails /\ Return(w, "failed")
    /\ UNCHANGED <<rows, queue, crashes>>

\* GET execution-context, with an error or a timeout.
FetchExecutionContext(w) ==
    /\ At(w, "fetch")
    /\ \/ Goto(w, "claim") /\ UNCHANGED faults
       \/ CallFails /\ (GiveUp(w) \/ LoopEnds(w))
    /\ UNCHANGED <<rows, queue, crashes>>

\* The control plane grants the claim: the lease starts anew unless the run
\* is finished.
Grant(r, a) ==
    /\ ~ClaimConflict(runs[r], a)
    /\ runs' = [runs EXCEPT ![r] = ClaimRunAttempt(@, a)]
    /\ leaseLeft' = IF IsTerminalRunStatus(runs[r].status) THEN leaseLeft
                    ELSE [leaseLeft EXCEPT ![r] = LeaseTicks]

\* An attempt that is refused, or whose answer is lost, leaves the message
\* pending; a finished run is acknowledged without being executed.
Claim(w) ==
    /\ At(w, "claim")
    /\ LET r == RunOf(w)
           a == worker[w].attempt IN
       \/ /\ ClaimConflict(runs[r], a)
          /\ GiveUp(w)
          /\ UNCHANGED <<rows, faults>>
       \/ /\ Grant(r, a)
          /\ IF IsTerminalRunStatus(runs[r].status) THEN Return(w, "none") ELSE Goto(w, "emit_started")
          /\ UNCHANGED faults
       \/ /\ CallFails
          /\ Grant(r, a) \/ UNCHANGED rows
          /\ GiveUp(w) \/ LoopEnds(w)
    /\ UNCHANGED <<queue, crashes>>

\* A heartbeat claims the run again.  It may win back a run that another
\* attempt took and let expire.
Renew(r, a) ==
    /\ runs[r].attempt # a => runs[r].attemptCount < MaxAttemptCount
    /\ Grant(r, a)

\* The heartbeat renews the claim; when that fails, or the run is finished, it
\* cancels the execution's context and ends.
Heartbeat(w) ==
    /\ worker[w].pc \in Executing
    /\ ~worker[w].stopped
    /\ LET r == RunOf(w)
           a == worker[w].attempt
           Stop == worker' = [worker EXCEPT ![w].stopped = TRUE] IN
       \/ /\ ClaimConflict(runs[r], a)
          /\ Stop
          /\ UNCHANGED <<rows, faults>>
       \/ /\ Renew(r, a)
          /\ IF IsTerminalRunStatus(runs[r].status) THEN Stop ELSE UNCHANGED worker
          /\ UNCHANGED faults
       \/ /\ CallFails
          /\ Renew(r, a) \/ UNCHANGED rows
          /\ Stop
    /\ UNCHANGED <<queue, crashes>>

-----------------------------------------------------------------------------
(***************************************************************************)
(* EinoAgentEngine.execute.                                                *)
(***************************************************************************)

\* The control plane lets the worker's attempt through.
Fenced(w) == CheckRunAttempt(runs[RunOf(w)], worker[w].attempt)
SetStatus(w, status) == runs' = [runs EXCEPT ![RunOf(w)] = UpdateRunStatus(@, status)]

\* Emit of run.started; an error ends the execution without a call of Fail.
EmitStarted(w) ==
    /\ At(w, "emit_started")
    /\ \/ Fenced(w) /\ SetStatus(w, "running") /\ Goto(w, "is_canceled") /\ UNCHANGED faults
       \/ ~Fenced(w) /\ Return(w, "failed") /\ UNCHANGED <<runs, faults>>
       \/ /\ CallFails
          /\ UNCHANGED runs \/ (Fenced(w) /\ SetStatus(w, "running"))
          /\ Return(w, "failed")
    /\ UNCHANGED <<leaseLeft, queue, crashes>>

\* A canceled run is not executed; Fail leaves it alone.  A failed call counts
\* as not canceled.
IsCanceled(w) ==
    /\ At(w, "is_canceled")
    /\ \/ /\ IF runs[RunOf(w)].status = "canceled" THEN Return(w, "canceled") ELSE Goto(w, "agent")
          /\ UNCHANGED faults
       \/ CallFails /\ Goto(w, "agent")
    /\ UNCHANGED <<rows, queue, crashes>>

\* The agent loop: it ends with an error (of the model, of a tool, or of its
\* canceled context), sees that the run was canceled, or has an answer.
Agent(w) ==
    /\ At(w, "agent")
    /\ \/ Goto(w, "fail")
       \/ runs[RunOf(w)].status = "canceled" /\ Return(w, "canceled")
       \/ Goto(w, "complete")
    /\ UNCHANGED <<rows, queue, faults, crashes>>

\* POST fail; its error is dropped.
Fail(w) ==
    /\ At(w, "fail")
    /\ \/ IF Fenced(w) THEN SetStatus(w, "failed") /\ UNCHANGED faults ELSE UNCHANGED <<runs, faults>>
       \/ CallFails /\ (UNCHANGED runs \/ (Fenced(w) /\ SetStatus(w, "failed")))
    /\ Return(w, "failed")
    /\ UNCHANGED <<leaseLeft, queue, crashes>>

\* POST complete; an error is only reported in the result.
Complete(w) ==
    /\ At(w, "complete")
    /\ \/ Fenced(w) /\ SetStatus(w, "succeeded") /\ Return(w, "succeeded") /\ UNCHANGED faults
       \/ ~Fenced(w) /\ Return(w, "failed") /\ UNCHANGED <<runs, faults>>
       \/ /\ CallFails
          /\ UNCHANGED runs \/ (Fenced(w) /\ SetStatus(w, "succeeded"))
          /\ Return(w, "failed")
    /\ UNCHANGED <<leaseLeft, queue, crashes>>

-----------------------------------------------------------------------------
(***************************************************************************)
(* The environment.                                                        *)
(***************************************************************************)

\* A user cancels the run.
Cancel(r) ==
    /\ ~IsTerminalRunStatus(runs[r].status)
    /\ runs' = [runs EXCEPT ![r] = UpdateRunStatus(@, "canceled")]
    /\ UNCHANGED <<leaseLeft, queue, worker, faults, crashes>>

\* A worker's process dies at any point and is started again.
Crash(w) ==
    /\ ~At(w, "idle")
    /\ crashes < MaxCrashes
    /\ crashes' = crashes + 1
    /\ GiveUp(w)
    /\ UNCHANGED <<rows, queue, faults>>

Tick ==
    /\ msg' = [r \in Runs |-> IF msg[r].state = "pending" /\ msg[r].idle < ReclaimMinIdle
                              THEN [msg[r] EXCEPT !.idle = @ + 1] ELSE msg[r]]
    /\ leaseLeft' = [r \in Runs |-> IF leaseLeft[r] > 0 THEN leaseLeft[r] - 1 ELSE 0]
    /\ runs' = [r \in Runs |-> IF leaseLeft[r] = 1 THEN [runs[r] EXCEPT !.lease = "expired"]
                               ELSE runs[r]]
    /\ msg' # msg \/ leaseLeft' # leaseLeft
    /\ UNCHANGED <<stream, delivered, dlq, worker, faults, crashes>>

-----------------------------------------------------------------------------
\* The worker's own goroutine takes its next step.
WorkerStep(w) ==
    \/ ReadGroup(w) \/ ReadEmpty(w) \/ AutoClaim(w) \/ PendingRetryCount(w)
    \/ DeadLetter(w) \/ Ack(w) \/ FetchExecutionContext(w) \/ Claim(w)
    \/ EmitStarted(w) \/ IsCanceled(w) \/ Agent(w) \/ Fail(w) \/ Complete(w)

Next ==
    \/ \E w \in Workers : WorkerStep(w) \/ Heartbeat(w) \/ Crash(w)
    \/ \E r \in Runs : Enqueue(r) \/ Cancel(r)
    \/ Tick

Spec == Init /\ [][Next]_vars

\* A worker's goroutine goes on as long as its loop does (every call has a
\* timeout), and time passes.
Fairness == WF_vars(Tick) /\ \A w \in Workers : WF_vars(WorkerStep(w))

FairSpec == Spec /\ Fairness

-----------------------------------------------------------------------------
(***************************************************************************)
(* Properties.                                                             *)
(***************************************************************************)

\* Two workers that have the same run, because one was reclaimed from the
\* other, never have the same attempt: the control plane's fence can tell them
\* apart.
DistinctAttempts ==
    \A v, w \in Workers :
        v # w /\ RunOf(v) = RunOf(w) /\ RunOf(w) # NoRunId => worker[v].attempt # worker[w].attempt

\* A run is taken from an attempt only after the lease of that attempt has run
\* out, although messages are reclaimed from workers that are alive.
LeaseIsHonoured ==
    [][\A r \in Runs : runs'[r].attempt # runs[r].attempt =>
          runs[r].attempt = NoAttempt \/ leaseLeft[r] = 0]_vars

\* Redelivery is bounded: a limit of at least two is only exceeded by the
\* deliveries that failed calls and crashes cost and by workers that reclaim a
\* message while another is on its way to dead-letter it.  The worker whose claim
\* was granted is not among them: it acknowledges when it is done.
DeliveriesBounded ==
    MaxDeliveries > 1 =>
        \A r \in Runs :
            msg[r].count <= MaxDeliveries + faults + crashes + Cardinality(Workers) - 2

\* No run is dropped before anybody claimed it: a message that has left the
\* group is in the dead letter stream, or its run was claimed or had ended.
UnclaimedIsKept ==
    \A r \in Runs : msg[r].state = "acked" =>
        r \in dlq \/ runs[r].attemptCount > 0 \/ IsTerminalRunStatus(runs[r].status)

\* Whatever crashes and fails, no message stays in the group for ever while
\* some worker's loop runs: each is executed to the end or dead-lettered, and
\* acknowledged.
MessageSettles ==
    \A r \in Runs : msg[r].state = "new" ~>
        msg[r].state = "acked" \/ \A w \in Workers : At(w, "ended")
=============================================================================
