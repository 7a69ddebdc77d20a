---------------------------- MODULE ControlPlane ----------------------------
(***************************************************************************)
(* The control plane's handlers that move a run: createMessage and cancel  *)
(* on the public API, and the internal API the runtimes call back (claim,  *)
(* events, artifacts, complete, fail), with RepositorySink, which complete *)
(* and fail share with the dispatchers.  Handlers run concurrently, each   *)
(* in its own goroutine, and every store call of a handler is one step: a  *)
(* value a handler has read may be stale at its next call.                 *)
(*                                                                         *)
(* A request occupies a slot of Requests, is received at most once, and    *)
(* walks through its store calls by its pc.  Claims are one store call and *)
(* need no slot.                                                           *)
(***************************************************************************)
EXTENDS RunStore, FiniteSets

CONSTANTS
    Runs,             \* run ids
    Requests,         \* the requests the control plane may receive
    RuntimeCalls,     \* the kinds of call that runtimes make
    Artifacts,        \* artifact ids a runtime may register
    NoArtifact,       \* no artifact is being registered
    Store,            \* "memory" or "postgres"
    MaxAttemptCount   \* bound on attempt_count

\* Kinds of request.  The event writes are told apart by the type they carry;
\* dispatch_fail is HTTPDispatcher's call of RepositorySink.Fail.
EventKinds == {"started", "approval", "token"}
RuntimeKinds == EventKinds \cup {"register", "complete", "fail"}
Kinds == RuntimeKinds \cup {"create", "cancel", "dispatch_fail"}

ASSUME ControlPlaneAssumption ==
    /\ Runs # {}
    /\ RuntimeCalls \subseteq RuntimeKinds
    /\ Store \in {"memory", "postgres"}
    /\ NoArtifact \notin Artifacts
    /\ MaxAttemptCount \in Nat

VARIABLES
    runs,        \* the run rows
    events,      \* the types of event in the log of each run
    answers,     \* the attempts that wrote an assistant message for each run
    artifacts,   \* the artifacts registered for each run
    usage,       \* the attempt whose usage is recorded for each run
    dispatched,  \* the runs a worker may have heard of
    req          \* the requests

rows == <<runs, events, answers, artifacts, usage>>
vars == <<runs, events, answers, artifacts, usage, dispatched, req>>

-----------------------------------------------------------------------------
\* The status a kind asks UpdateRunStatus for, and the event that reports it.
WantedStatus ==
    [started |-> "running", approval |-> "waiting_for_approval",
     complete |-> "succeeded", fail |-> "failed", dispatch_fail |-> "failed",
     create |-> "failed", cancel |-> "canceled"]

EventOf(status) ==
    CASE status = "queued" -> "run.queued"
      [] status = "running" -> "run.started"
      [] status = "waiting_for_approval" -> "approval.needed"
      [] status = "succeeded" -> "run.succeeded"
      [] status = "failed" -> "run.failed"
      [] OTHER -> "run.canceled"

WrittenEvent(kind) ==
    IF kind = "token" THEN "model.token" ELSE EventOf(WantedStatus[kind])

TerminalEvents == {"run.succeeded", "run.failed", "run.canceled"}
EventTypes == TerminalEvents \cup
    {"run.queued", "run.started", "approval.needed", "model.token", "artifact.created"}

FinishingKinds == {"complete", "fail", "dispatch_fail", "create", "cancel"}

PCs == {"idle", "check", "add_user_message", "commit_quota", "queued_event",
        "dispatch", "add_event", "save_usage", "get_run", "register",
        "get_artifact", "add_artifact", "artifact_event", "add_answer",
        "update", "write", "announce", "done"}

Request == [kind : Kinds, run : Runs, attempt : Attempts \cup {NoAttempt},
            artifacts : SUBSET Artifacts, artifact : Artifacts \cup {NoArtifact},
            seen : Run, pc : PCs]

TypeOK ==
    /\ runs \in [Runs -> Run]
    /\ events \in [Runs -> SUBSET EventTypes]
    /\ answers \in [Runs -> SUBSET Attempts]
    /\ artifacts \in [Runs -> SUBSET Artifacts]
    /\ usage \in [Runs -> Attempts \cup {NoAttempt}]
    /\ dispatched \in SUBSET Runs
    /\ req \in [Requests -> Request]

\* A slot whose request has not been received.
Idle == [kind |-> "token", run |-> CHOOSE r \in Runs : TRUE, attempt |-> NoAttempt,
         artifacts |-> {}, artifact |-> NoArtifact, seen |-> NoRun, pc |-> "idle"]

Init ==
    /\ runs = [r \in Runs |-> NoRun]
    /\ events = [r \in Runs |-> {}]
    /\ answers = [r \in Runs |-> {}]
    /\ artifacts = [r \in Runs |-> {}]
    /\ usage = [r \in Runs |-> NoAttempt]
    /\ dispatched = {}
    /\ req = [q \in Requests |-> Idle]

Goto(q, pc) == req' = [req EXCEPT ![q].pc = pc]
At(q, pc) == req[q].pc = pc
RunOf(q) == runs[req[q].run]
LogEvent(r, type) == events' = [events EXCEPT ![r] = @ \cup {type}]

-----------------------------------------------------------------------------
(***************************************************************************)
(* Requests arrive.                                                        *)
(***************************************************************************)

\* A user posts a message; the run id is fresh.
ReceiveCreate(q, r) ==
    /\ At(q, "idle")
    /\ runs[r].status = "absent"
    /\ \A p \in Requests : req[p].kind = "create" => req[p].run # r
    /\ req' = [req EXCEPT ![q] = [Idle EXCEPT !.kind = "create", !.run = r,
                                              !.pc = "add_user_message"]]
    /\ UNCHANGED <<rows, dispatched>>

\* A user cancels a run that exists.
ReceiveCancel(q, r) ==
    /\ At(q, "idle")
    /\ runs[r].status # "absent"
    /\ req' = [req EXCEPT ![q] = [Idle EXCEPT !.kind = "cancel", !.run = r,
                                              !.pc = "update"]]
    /\ UNCHANGED <<rows, dispatched>>

\* A runtime that was handed the run calls the internal API.  An attempt
\* executes once and its engine completes once, without retries.
ReceiveFromRuntime(q, kind, r, a, arts) ==
    /\ At(q, "idle")
    /\ r \in dispatched
    /\ arts = {} \/ kind \in {"register", "complete"}
    /\ kind = "complete" =>
          \A p \in Requests : ~(req[p].kind = "complete" /\ req[p].run = r /\ req[p].attempt = a)
    /\ req' = [req EXCEPT ![q] = [Idle EXCEPT !.kind = kind, !.run = r, !.attempt = a,
                                              !.artifacts = arts, !.pc = "check"]]
    /\ UNCHANGED <<rows, dispatched>>

\* HTTPDispatcher's goroutine gets an error or times out and fails the run
\* through RepositorySink, which checks no attempt.
DispatchFails(q, r) ==
    /\ At(q, "idle")
    /\ r \in dispatched
    /\ req' = [req EXCEPT ![q] = [Idle EXCEPT !.kind = "dispatch_fail", !.run = r,
                                              !.pc = "get_run"]]
    /\ UNCHANGED <<rows, dispatched>>

-----------------------------------------------------------------------------
(***************************************************************************)
(* createMessage, store call by store call.                                *)
(***************************************************************************)

AddUserMessage(q) ==
    /\ At(q, "add_user_message")
    /\ runs' = [runs EXCEPT ![req[q].run] = QueuedRun]
    /\ Goto(q, "commit_quota")
    /\ UNCHANGED <<events, answers, artifacts, usage, dispatched>>

\* reservation.Commit; a failure fails the run.
CommitQuota(q) ==
    /\ At(q, "commit_quota")
    /\ Goto(q, "queued_event") \/ Goto(q, "update")
    /\ UNCHANGED <<rows, dispatched>>

QueuedEvent(q) ==
    /\ At(q, "queued_event")
    /\ LogEvent(req[q].run, EventOf("queued"))
    /\ Goto(q, "dispatch")
    /\ UNCHANGED <<runs, answers, artifacts, usage, dispatched>>

\* A dispatch that reports an error may have reached the queue all the same.
Dispatch(q) ==
    /\ At(q, "dispatch")
    /\ \/ dispatched' = dispatched \cup {req[q].run} /\ Goto(q, "done")
       \/ dispatched' = dispatched \cup {req[q].run} /\ Goto(q, "update")
       \/ dispatched' = dispatched /\ Goto(q, "update")
    /\ UNCHANGED rows

-----------------------------------------------------------------------------
(***************************************************************************)
(* The internal API.                                                       *)
(***************************************************************************)

\* internalClaimRun: a worker's first claim, its heartbeat, or the claim of a
\* worker that took the queue message over.  A conflict changes nothing.
ClaimRun(r, a) ==
    /\ r \in dispatched
    /\ ~ClaimConflict(runs[r], a)
    /\ runs[r].attempt # a => runs[r].attemptCount < MaxAttemptCount
    /\ runs' = [runs EXCEPT ![r] = ClaimRunAttempt(@, a)]
    /\ UNCHANGED <<events, answers, artifacts, usage, dispatched, req>>

\* The clock passes lease_expires_at.
LeaseExpires(r) ==
    /\ runs[r].lease = "live"
    /\ runs' = [runs EXCEPT ![r].lease = "expired"]
    /\ UNCHANGED <<events, answers, artifacts, usage, dispatched, req>>

\* The first call of a runtime's request: the attempt fence.  Register and
\* complete also stop at a finished run, from the same read.
CheckAttempt(q) ==
    /\ At(q, "check")
    /\ Goto(q, IF \/ ~CheckRunAttempt(RunOf(q), req[q].attempt)
                  \/ req[q].kind \in {"register", "complete"}
                        /\ IsTerminalRunStatus(RunOf(q).status)
               THEN "done"
               ELSE CASE req[q].kind \in EventKinds -> "add_event"
                      [] req[q].kind = "register" -> "register"
                      [] req[q].kind = "complete" -> "save_usage"
                      [] OTHER -> "get_run")
    /\ UNCHANGED <<rows, dispatched>>

\* internalWriteRunEvent: log the event, then move the status if the type asks
\* for it.
WriteEvent(q) ==
    /\ At(q, "add_event")
    /\ LogEvent(req[q].run, WrittenEvent(req[q].kind))
    /\ Goto(q, IF req[q].kind = "token" THEN "done" ELSE "update")
    /\ UNCHANGED <<runs, answers, artifacts, usage, dispatched>>

\* internalCompleteRun: SaveRunUsage overwrites what is recorded.  The engine
\* always names a provider, so the usage is never zero.
SaveUsage(q) ==
    /\ At(q, "save_usage")
    /\ usage' = [usage EXCEPT ![req[q].run] = req[q].attempt]
    /\ Goto(q, "get_run")
    /\ UNCHANGED <<runs, events, answers, artifacts, dispatched>>

-----------------------------------------------------------------------------
(***************************************************************************)
(* RepositorySink.                                                         *)
(***************************************************************************)

\* Faulty: a complete without artifacts skips the answer.
SinkGetRunNoAnswer(q) ==
    /\ At(q, "get_run")
    /\ Goto(q, IF IsTerminalRunStatus(RunOf(q).status) THEN "done"
               ELSE IF req[q].artifacts # {} THEN "register" ELSE "update")
    /\ UNCHANGED <<rows, dispatched>>

\* Complete and Fail read the run first and give up on a finished one.
SinkGetRun(q) ==
    /\ At(q, "get_run")
    /\ Goto(q, IF IsTerminalRunStatus(RunOf(q).status) THEN "done"
               ELSE IF req[q].kind # "complete" THEN "update"
               ELSE IF req[q].artifacts # {} THEN "register" ELSE "add_answer")
    /\ UNCHANGED <<rows, dispatched>>

\* Where a request goes once its artifacts are registered.
AfterArtifacts(q) == IF req[q].kind = "complete" THEN "add_answer" ELSE "done"
NextArtifact(q, rest) == IF rest = {} THEN AfterArtifacts(q) ELSE "get_artifact"

\* RegisterArtifacts reads the run again.  A finished run gets no artifacts;
\* Complete carries on with the answer all the same.
RegisterArtifacts(q) ==
    /\ At(q, "register")
    /\ Goto(q, IF IsTerminalRunStatus(RunOf(q).status) THEN AfterArtifacts(q)
               ELSE NextArtifact(q, req[q].artifacts))
    /\ UNCHANGED <<rows, dispatched>>

\* An artifact that the run already has is skipped.  A lookup that fails counts
\* as not found.
GetArtifact(q) ==
    /\ At(q, "get_artifact")
    /\ \E x \in req[q].artifacts :
         LET rest == req[q].artifacts \ {x} IN
         \/ /\ x \in artifacts[req[q].run]
            /\ req' = [req EXCEPT ![q].artifacts = rest, ![q].pc = NextArtifact(q, rest)]
         \/ /\ x \notin artifacts[req[q].run] \/ Store = "postgres"
            /\ req' = [req EXCEPT ![q].artifacts = rest, ![q].artifact = x, ![q].pc = "add_artifact"]
    /\ UNCHANGED <<rows, dispatched>>

AddArtifact(q) ==
    /\ At(q, "add_artifact")
    /\ artifacts' = [artifacts EXCEPT ![req[q].run] = @ \cup {req[q].artifact}]
    /\ Goto(q, "artifact_event")
    /\ UNCHANGED <<runs, events, answers, usage, dispatched>>

ArtifactEvent(q) ==
    /\ At(q, "artifact_event")
    /\ LogEvent(req[q].run, "artifact.created")
    /\ req' = [req EXCEPT ![q].artifact = NoArtifact,
                          ![q].pc = NextArtifact(q, req[q].artifacts)]
    /\ UNCHANGED <<runs, answers, artifacts, usage, dispatched>>

\* Faulty: the run succeeds although its answer was not stored.
AddAssistantMessageDropped(q) ==
    /\ At(q, "add_answer")
    /\ Goto(q, "update")
    /\ UNCHANGED <<rows, dispatched>>

AddAssistantMessage(q) ==
    /\ At(q, "add_answer")
    /\ answers' = [answers EXCEPT ![req[q].run] = @ \cup {req[q].attempt}]
    /\ Goto(q, "update")
    /\ UNCHANGED <<runs, events, artifacts, usage, dispatched>>

-----------------------------------------------------------------------------
(***************************************************************************)
(* UpdateRunStatus in the two stores, and what follows it.                 *)
(***************************************************************************)

\* Faulty: cancel logs no event.
AfterUpdateSilentCancel(kind) ==
    IF kind \in FinishingKinds \ {"cancel"} THEN "announce" ELSE "done"

\* The handlers that finish a run report it; they do so whether or not the
\* store accepted the status.
AfterUpdate(kind) == IF kind \in FinishingKinds THEN "announce" ELSE "done"

MemoryUpdate(q) ==
    /\ Store = "memory"
    /\ At(q, "update")
    /\ runs' = [runs EXCEPT ![req[q].run] = UpdateRunStatus(@, WantedStatus[req[q].kind])]
    /\ Goto(q, AfterUpdate(req[q].kind))
    /\ UNCHANGED <<events, answers, artifacts, usage, dispatched>>

PostgresRead(q) ==
    /\ Store = "postgres"
    /\ At(q, "update")
    /\ req' = [req EXCEPT ![q] =
                 IF StatusRefused(RunOf(q), WantedStatus[req[q].kind])
                 THEN [@ EXCEPT !.pc = AfterUpdate(req[q].kind)]
                 ELSE [@ EXCEPT !.seen = RunOf(q), !.pc = "write"]]
    /\ UNCHANGED <<rows, dispatched>>

PostgresWrite(q) ==
    /\ At(q, "write")
    /\ runs' = [runs EXCEPT ![req[q].run] =
                  WriteRunStatus(@, req[q].seen, WantedStatus[req[q].kind])]
    /\ req' = [req EXCEPT ![q].seen = NoRun, ![q].pc = AfterUpdate(req[q].kind)]
    /\ UNCHANGED <<events, answers, artifacts, usage, dispatched>>

Announce(q) ==
    /\ At(q, "announce")
    /\ LogEvent(req[q].run, EventOf(WantedStatus[req[q].kind]))
    /\ Goto(q, "done")
    /\ UNCHANGED <<runs, answers, artifacts, usage, dispatched>>

-----------------------------------------------------------------------------
(***************************************************************************)
(* Failures.  The memory store never fails and dies with the process, so   *)
(* both exist for Postgres only.                                           *)
(***************************************************************************)

\* A store call returns an error.  Handlers give up, except createMessage,
\* which drops the errors of its event and status writes, and RegisterArtifacts,
\* which drops those of its lookup.
StoreError(q) ==
    /\ Store = "postgres"
    /\ req[q].pc \notin {"idle", "commit_quota", "dispatch", "get_artifact", "done"}
    /\ req' = [req EXCEPT ![q].seen = NoRun,
                          ![q].pc = CASE req[q].pc = "queued_event" -> "dispatch"
                                      [] req[q].kind = "create" /\ req[q].pc \in {"update", "write"}
                                           -> "announce"
                                      [] OTHER -> "done"]
    /\ UNCHANGED <<rows, dispatched>>

\* The control plane process dies: every request in flight is gone.
Crash ==
    /\ Store = "postgres"
    /\ \E q \in Requests : req[q].pc \notin {"idle", "done"}
    /\ req' = [q \in Requests |->
                 IF At(q, "idle") THEN req[q]
                 ELSE [req[q] EXCEPT !.seen = NoRun, !.pc = "done"]]
    /\ UNCHANGED <<rows, dispatched>>

-----------------------------------------------------------------------------
\* The next store call of the handler of q.
HandlerStep(q) ==
    \/ AddUserMessage(q) \/ CommitQuota(q) \/ QueuedEvent(q) \/ Dispatch(q)
    \/ CheckAttempt(q) \/ WriteEvent(q) \/ SaveUsage(q)
    \/ SinkGetRun(q) \/ RegisterArtifacts(q) \/ GetArtifact(q)
    \/ AddArtifact(q) \/ ArtifactEvent(q) \/ AddAssistantMessage(q)
    \/ MemoryUpdate(q) \/ PostgresRead(q) \/ PostgresWrite(q) \/ Announce(q)

Receive(q) ==
    \E r \in Runs :
        \/ ReceiveCreate(q, r) \/ ReceiveCancel(q, r) \/ DispatchFails(q, r)
        \/ \E kind \in RuntimeCalls, a \in Attempts, arts \in SUBSET Artifacts :
               ReceiveFromRuntime(q, kind, r, a, arts)

Next ==
    \/ \E q \in Requests : Receive(q) \/ HandlerStep(q) \/ StoreError(q)
    \/ \E r \in Runs : LeaseExpires(r) \/ \E a \in Attempts : ClaimRun(r, a)
    \/ Crash

Spec == Init /\ [][Next]_vars

\* A handler's goroutine runs to its end: nothing in it blocks for ever.
Fairness == \A q \in Requests : WF_vars(HandlerStep(q))

FairSpec == Spec /\ Fairness

-----------------------------------------------------------------------------
(***************************************************************************)
(* Properties.                                                             *)
(***************************************************************************)

\* A finished run keeps its status, however the handlers of cancel, complete,
\* fail, late events and heartbeats interleave (UpdateRunStatus,
\* ClaimRunAttempt).
TerminalIsFinal ==
    [][\A r \in Runs : IsTerminalRunStatus(runs[r].status) =>
                           runs'[r].status = runs[r].status]_vars

\* A reader of the event log who sees a terminal event finds the run
\* finished: Complete, Fail, cancel and createMessage log it only after
\* UpdateRunStatus, and nothing takes the status back.
TerminalEventMeansTerminal ==
    \A r \in Runs :
        events[r] \cap TerminalEvents # {} => IsTerminalRunStatus(runs[r].status)

\* A succeeded run has an assistant message and recorded usage: whoever wrote
\* the status wrote them before (internalCompleteRun, RepositorySink.Complete).
SucceededIsSettled ==
    \A r \in Runs : runs[r].status = "succeeded" =>
                        answers[r] # {} /\ usage[r] # NoAttempt

\* Once the handlers on a finished run are through, its event log holds the
\* event of the status it finished with, so that a replay can end there.
FinishIsReported ==
    \A r \in Runs :
        /\ IsTerminalRunStatus(runs[r].status)
        /\ \A q \in Requests : req[q].run = r => req[q].pc \in {"idle", "done"}
        => EventOf(runs[r].status) \in events[r]

\* However often an attempt loses its lease and others claim the run, the run
\* gets at most one assistant message per attempt that was ever given it:
\* the fence of internalCompleteRun lets no attempt through that never held
\* the run.
AnswersWithinAttempts ==
    \A r \in Runs : Cardinality(answers[r]) <= runs[r].attemptCount

\* A request that has reached the point of finishing its run leaves it finished,
\* be it waiting for approval or finished by another meanwhile (RepositorySink,
\* cancel, createMessage's failures).
FinishersFinish ==
    \A q \in Requests :
        (req[q].kind \in FinishingKinds /\ req[q].pc \in {"save_usage", "get_run", "update"})
            ~> IsTerminalRunStatus(RunOf(q).status)

-----------------------------------------------------------------------------
\* What a client sees of the rows.
Lifecycle ==
    INSTANCE RunLifecycle WITH
        status <- [r \in Runs |-> runs[r].status],
        answered <- {r \in Runs : answers[r] # {}},
        reported <- {r \in Runs : events[r] \cap TerminalEvents # {}}

\* With the memory store the handlers implement the promise of RunLifecycle:
\* every store call is one of its steps or invisible.
ImplementsLifecycle == Lifecycle!Spec
=============================================================================
