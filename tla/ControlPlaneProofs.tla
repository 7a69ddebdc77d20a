------------------------- MODULE ControlPlaneProofs -------------------------
(***************************************************************************)
(* Theorems about ControlPlane for every set of runs, requests, attempts   *)
(* and artifacts, and for both stores where nothing else is said.          *)
(***************************************************************************)
EXTENDS ControlPlane, FiniteSetTheorems, TLAPS

\* What the pc of a request says about its kind and its other fields.
PhaseOK(t) ==
    /\ t.pc \in {"add_user_message", "commit_quota", "queued_event", "dispatch"} => t.kind = "create"
    /\ t.pc = "check" => t.kind \in RuntimeKinds /\ t.attempt \in Attempts
    /\ t.pc = "add_event" => t.kind \in EventKinds
    /\ t.pc = "get_run" => t.kind \in {"complete", "fail", "dispatch_fail"}
    /\ t.pc \in {"register", "get_artifact", "add_artifact", "artifact_event"}
          => t.kind \in {"register", "complete"}
    /\ t.pc = "add_artifact" => t.artifact \in Artifacts
    /\ t.pc \in {"save_usage", "add_answer"} => t.kind = "complete"
    /\ t.kind = "complete" => t.attempt \in Attempts
    /\ t.pc \in {"update", "write"} => t.kind \in DOMAIN WantedStatus
    /\ t.pc = "announce" => t.kind \in FinishingKinds
    /\ t.pc = "write" => Store = "postgres"

PhaseInv == \A q \in Requests : PhaseOK(req[q])

\* A run id without a row is known to nobody but the request that creates it.
CreationInv ==
    /\ \A q \in Requests :
          /\ At(q, "add_user_message") => RunOf(q).status = "absent"
          /\ RunOf(q).status = "absent" => req[q].pc \in {"idle", "add_user_message", "done"}
    /\ \A p, q \in Requests :
          req[p].kind = "create" /\ req[q].kind = "create" /\ req[p].run = req[q].run => p = q
    /\ \A r \in dispatched : runs[r].status # "absent"

\* Where a complete has written its answer, and where it has recorded usage.
Answered == {"update", "write", "announce"}
Charged == Answered \cup {"get_run", "register", "get_artifact", "add_artifact", "artifact_event",
                          "add_answer"}

\* A complete that is about to write or report "succeeded" has written the
\* answer and the usage.
SettledInv ==
    /\ \A q \in Requests : req[q].kind = "complete" =>
          /\ req[q].pc \in Answered => answers[req[q].run] # {}
          /\ req[q].pc \in Charged => usage[req[q].run] # NoAttempt
    /\ SucceededIsSettled

IndInv == TypeOK /\ PhaseInv /\ CreationInv /\ SettledInv

\* With the memory store a terminal event is only written once the run is
\* finished.
ReportInv ==
    /\ \A q \in Requests : At(q, "announce") => IsTerminalRunStatus(RunOf(q).status)
    /\ TerminalEventMeansTerminal

-----------------------------------------------------------------------------
\* The statuses that handlers ask for are statuses of a run that exists.
LEMMA WantedStatusType ==
    ASSUME NEW kind \in DOMAIN WantedStatus
    PROVE  WantedStatus[kind] \in RunStatuses \ {"absent"}
  BY DEF WantedStatus, RunStatuses, ActiveStatuses, FinalStatuses

\* Finishing requests ask for a final status and only complete asks for
\* "succeeded".
LEMMA WantedFinal ==
    /\ \A kind \in FinishingKinds :
          kind \in DOMAIN WantedStatus /\ WantedStatus[kind] \in FinalStatuses
    /\ \A kind \in DOMAIN WantedStatus :
          WantedStatus[kind] = "succeeded" => kind = "complete"
  BY DEF WantedStatus, FinishingKinds, FinalStatuses

\* Every event that a handler logs has a type of the protocol.
LEMMA EventTypesClosed ==
    /\ \A status \in RunStatuses : EventOf(status) \in EventTypes
    /\ \A kind \in EventKinds : WrittenEvent(kind) \in EventTypes \ TerminalEvents
    /\ EventOf("queued") \notin TerminalEvents
  BY DEF EventOf, WrittenEvent, EventTypes, TerminalEvents, EventKinds, WantedStatus

\* The row operations return rows.
LEMMA RowTypes ==
    /\ NoRun \in Run /\ QueuedRun \in Run
    /\ \A run \in Run, a \in Attempts : ClaimRunAttempt(run, a) \in Run
    /\ \A run \in Run, st \in RunStatuses : UpdateRunStatus(run, st) \in Run
    /\ \A run, seen \in Run, st \in RunStatuses : WriteRunStatus(run, seen, st) \in Run
  <1>1. NoRun \in Run /\ QueuedRun \in Run
    BY DEF NoRun, QueuedRun, Run, RunStatuses, ActiveStatuses, LeaseStates
  <1>2. ASSUME NEW run \in Run, NEW a \in Attempts
        PROVE  ClaimRunAttempt(run, a) \in Run
    <2> DEFINE n == IF run.attempt = a THEN run.attemptCount ELSE run.attemptCount + 1
    <2>1. n \in Nat
      BY DEF Run
    <2>2. [run EXCEPT !.attempt = a, !.lease = "live", !.attemptCount = n,
                      !.status = "running", !.started = TRUE] \in Run
      <3> HIDE DEF n
      <3> QED BY <2>1 DEF Run, RunStatuses, ActiveStatuses, LeaseStates
    <2> QED
      BY <2>2 DEF ClaimRunAttempt
  <1>3. ASSUME NEW run \in Run, NEW seen \in Run, NEW st \in RunStatuses
        PROVE  WriteRunStatus(run, seen, st) \in Run
    BY DEF Run, WriteRunStatus, IsTerminalRunStatus
  <1>4. ASSUME NEW run \in Run, NEW st \in RunStatuses
        PROVE  UpdateRunStatus(run, st) \in Run
    BY DEF Run, UpdateRunStatus, IsTerminalRunStatus
  <1> QED
    BY <1>1, <1>2, <1>3, <1>4

\* A slot whose request has not been received is a request in a legal phase.
LEMMA IdleType == Idle \in Request /\ PhaseOK(Idle)
  <1>1. (CHOOSE r \in Runs : TRUE) \in Runs
    BY ControlPlaneAssumption
  <1>2. NoRun \in Run
    BY RowTypes
  <1> QED
    BY <1>1, <1>2 DEF Idle, Request, Kinds, RuntimeKinds, EventKinds, PCs, PhaseOK

-----------------------------------------------------------------------------
\* One request moves to a state its phase allows.
LEMMA RequestStep ==
    ASSUME req \in [Requests -> Request], PhaseInv, NEW q \in Requests,
           NEW t \in Request, PhaseOK(t), req' = [req EXCEPT ![q] = t]
    PROVE  req' \in [Requests -> Request] /\ PhaseInv'
  <1>1. \A p \in Requests : req'[p] = IF p = q THEN t ELSE req[p]
    OBVIOUS
  <1>2. \A p \in Requests : PhaseOK(req[p])'
    BY <1>1 DEF PhaseInv, PhaseOK
  <1> QED
    BY <1>2 DEF PhaseInv

\* The same for a step that only changes the pc.
LEMMA GotoStep ==
    ASSUME req \in [Requests -> Request], PhaseInv, NEW q \in Requests,
           NEW pc \in PCs, Goto(q, pc), PhaseOK([req[q] EXCEPT !.pc = pc])
    PROVE  req' \in [Requests -> Request] /\ PhaseInv'
  <1> DEFINE t == [req[q] EXCEPT !.pc = pc]
  <1>1. t \in Request
    BY DEF Request
  <1>2. req' = [req EXCEPT ![q] = t]
    BY DEF Goto
  <1> HIDE DEF t
  <1> QED
    BY <1>1, <1>2, RequestStep DEF t

\* After an artifact a handler is at its next artifact, at the answer or done.
LEMMA NextArtifactPC ==
    ASSUME NEW q, NEW rest
    PROVE  /\ NextArtifact(q, rest) \in PCs
           /\ NextArtifact(q, rest) \in {"add_answer", "done", "get_artifact"}
           /\ NextArtifact(q, rest) = "add_answer" => req[q].kind = "complete"
  BY DEF NextArtifact, AfterArtifacts, PCs

\* What GetArtifact makes of its request.
LEMMA ArtifactStep ==
    ASSUME req \in [Requests -> Request], PhaseInv, NEW q \in Requests, GetArtifact(q)
    PROVE  \E t \in Request :
              /\ req' = [req EXCEPT ![q] = t] /\ PhaseOK(t)
              /\ t.kind = req[q].kind /\ t.run = req[q].run /\ t.attempt = req[q].attempt
              /\ t.pc \in {"add_answer", "done", "get_artifact", "add_artifact"}
  <1> PICK x \in req[q].artifacts :
        LET rest == req[q].artifacts \ {x} IN
        \/ req' = [req EXCEPT ![q] = [req[q] EXCEPT !.artifacts = rest, !.pc = NextArtifact(q, rest)]]
        \/ req' = [req EXCEPT ![q] = [req[q] EXCEPT !.artifacts = rest, !.artifact = x,
                                                     !.pc = "add_artifact"]]
    BY DEF GetArtifact
  <1> DEFINE rest == req[q].artifacts \ {x}
             pc == NextArtifact(q, rest)
             t1 == [req[q] EXCEPT !.artifacts = rest, !.pc = pc]
             t2 == [req[q] EXCEPT !.artifacts = rest, !.artifact = x, !.pc = "add_artifact"]
  <1>1. req' = [req EXCEPT ![q] = t1] \/ req' = [req EXCEPT ![q] = t2]
    OBVIOUS
  <1>2. /\ pc \in PCs /\ pc \in {"add_answer", "done", "get_artifact"}
        /\ pc = "add_answer" => req[q].kind = "complete"
    BY NextArtifactPC
  <1>3. rest \in SUBSET Artifacts /\ x \in Artifacts /\ req[q] \in Request
    BY DEF Request
  <1>4. req[q].kind \in {"register", "complete"} /\ PhaseOK(req[q])
    BY DEF GetArtifact, At, PhaseInv, PhaseOK
  <1> HIDE DEF rest, pc
  <1>5. t1 \in Request /\ t2 \in Request
    BY <1>2, <1>3 DEF Request, PCs
  <1>6. /\ t1.kind = req[q].kind /\ t1.run = req[q].run /\ t1.attempt = req[q].attempt /\ t1.pc = pc
        /\ t2.kind = req[q].kind /\ t2.run = req[q].run /\ t2.attempt = req[q].attempt
        /\ t2.pc = "add_artifact" /\ t2.artifact = x
    BY <1>3 DEF Request
  <1> HIDE DEF t1, t2
  <1>7. PhaseOK(t1) /\ PhaseOK(t2)
    BY <1>2, <1>3, <1>4, <1>6 DEF PhaseOK
  <1> QED
    BY <1>1, <1>2, <1>5, <1>6, <1>7

\* Types and phases are preserved by every step.
LEMMA BaseStep == TypeOK /\ PhaseInv /\ [Next]_vars => TypeOK' /\ PhaseInv'
  <1> SUFFICES ASSUME TypeOK, PhaseInv, [Next]_vars
               PROVE  TypeOK' /\ PhaseInv'
    OBVIOUS
  <1> USE DEF TypeOK
  <1>0. req \in [Requests -> Request]
    OBVIOUS
  <1>1. ASSUME NEW q \in Requests, NEW r \in Runs, ReceiveCreate(q, r)
        PROVE  TypeOK' /\ PhaseInv'
    <2> DEFINE t == [Idle EXCEPT !.kind = "create", !.run = r, !.pc = "add_user_message"]
    <2>1. t \in Request /\ PhaseOK(t)
      BY IdleType DEF Request, Kinds, PCs, PhaseOK
    <2>2. req' = [req EXCEPT ![q] = t] /\ UNCHANGED <<rows, dispatched>>
      BY <1>1 DEF ReceiveCreate
    <2> HIDE DEF t
    <2> QED
      BY <1>0, <2>1, <2>2, RequestStep DEF rows
  <1>2. ASSUME NEW q \in Requests, NEW r \in Runs, ReceiveCancel(q, r)
        PROVE  TypeOK' /\ PhaseInv'
    <2> DEFINE t == [Idle EXCEPT !.kind = "cancel", !.run = r, !.pc = "update"]
    <2>1. t \in Request /\ PhaseOK(t)
      BY IdleType DEF Request, Kinds, PCs, PhaseOK, WantedStatus
    <2>2. req' = [req EXCEPT ![q] = t] /\ UNCHANGED <<rows, dispatched>>
      BY <1>2 DEF ReceiveCancel
    <2> HIDE DEF t
    <2> QED
      BY <1>0, <2>1, <2>2, RequestStep DEF rows
  <1>3. ASSUME NEW q \in Requests, NEW r \in Runs, DispatchFails(q, r)
        PROVE  TypeOK' /\ PhaseInv'
    <2> DEFINE t == [Idle EXCEPT !.kind = "dispatch_fail", !.run = r, !.pc = "get_run"]
    <2>1. t \in Request /\ PhaseOK(t)
      BY IdleType DEF Request, Kinds, PCs, PhaseOK
    <2>2. req' = [req EXCEPT ![q] = t] /\ UNCHANGED <<rows, dispatched>>
      BY <1>3 DEF DispatchFails
    <2> HIDE DEF t
    <2> QED
      BY <1>0, <2>1, <2>2, RequestStep DEF rows
  <1>4. ASSUME NEW q \in Requests, NEW r \in Runs, NEW kind \in RuntimeCalls,
               NEW a \in Attempts, NEW arts \in SUBSET Artifacts,
               ReceiveFromRuntime(q, kind, r, a, arts)
        PROVE  TypeOK' /\ PhaseInv'
    <2> DEFINE t == [Idle EXCEPT !.kind = kind, !.run = r, !.attempt = a,
                                 !.artifacts = arts, !.pc = "check"]
    <2>1. t \in Request /\ PhaseOK(t)
      <3>1. kind \in RuntimeKinds /\ kind \in Kinds /\ kind # "create"
        BY ControlPlaneAssumption DEF Kinds, RuntimeKinds, EventKinds
      <3>2. t \in Request
        BY <3>1, IdleType DEF Request, PCs
      <3>3. t.pc = "check" /\ t.kind = kind /\ t.attempt = a
        BY IdleType DEF Request
      <3> QED
        BY <3>1, <3>2, <3>3 DEF PhaseOK
    <2>2. req' = [req EXCEPT ![q] = t] /\ UNCHANGED <<rows, dispatched>>
      BY <1>4 DEF ReceiveFromRuntime
    <2> HIDE DEF t
    <2> QED
      BY <1>0, <2>1, <2>2, RequestStep DEF rows
  <1>5. ASSUME NEW q \in Requests, AddUserMessage(q)
        PROVE  TypeOK' /\ PhaseInv'
    <2>1. PhaseOK([req[q] EXCEPT !.pc = "commit_quota"])
      BY <1>5 DEF AddUserMessage, At, PhaseInv, PhaseOK, Request
    <2>2. req' \in [Requests -> Request] /\ PhaseInv'
      BY <1>0, <1>5, <2>1, GotoStep DEF AddUserMessage, PCs
    <2> QED
      BY <1>5, <2>2, RowTypes DEF AddUserMessage, Request
  <1>6. ASSUME NEW q \in Requests, CommitQuota(q)
        PROVE  TypeOK' /\ PhaseInv'
    <2>1. ASSUME NEW pc \in {"queued_event", "update"}, Goto(q, pc)
          PROVE  req' \in [Requests -> Request] /\ PhaseInv'
      <3>1. PhaseOK([req[q] EXCEPT !.pc = pc])
        BY <1>6 DEF CommitQuota, At, PhaseInv, PhaseOK, Request, WantedStatus
      <3> QED
        BY <1>0, <2>1, <3>1, GotoStep DEF PCs
    <2> QED
      BY <1>6, <2>1 DEF CommitQuota, rows
  <1>7. ASSUME NEW q \in Requests, QueuedEvent(q)
        PROVE  TypeOK' /\ PhaseInv'
    <2>1. PhaseOK([req[q] EXCEPT !.pc = "dispatch"])
      BY <1>7 DEF QueuedEvent, At, PhaseInv, PhaseOK, Request
    <2>2. req' \in [Requests -> Request] /\ PhaseInv'
      BY <1>0, <1>7, <2>1, GotoStep DEF QueuedEvent, PCs
    <2> QED
      BY <1>7, <2>2, EventTypesClosed DEF QueuedEvent, LogEvent, Request, RunStatuses, ActiveStatuses
  <1>8. ASSUME NEW q \in Requests, Dispatch(q)
        PROVE  TypeOK' /\ PhaseInv'
    <2>1. ASSUME NEW pc \in {"done", "update"}, Goto(q, pc)
          PROVE  req' \in [Requests -> Request] /\ PhaseInv'
      <3>1. PhaseOK([req[q] EXCEPT !.pc = pc])
        BY <1>8 DEF Dispatch, At, PhaseInv, PhaseOK, Request, WantedStatus
      <3> QED
        BY <1>0, <2>1, <3>1, GotoStep DEF PCs
    <2>2. req[q].run \in Runs
      BY <1>0 DEF Request
    <2> QED
      BY <1>8, <2>1, <2>2 DEF Dispatch, rows
  <1>9. ASSUME NEW r \in Runs, NEW a \in Attempts, ClaimRun(r, a)
        PROVE  TypeOK' /\ PhaseInv'
    BY <1>9, RowTypes DEF ClaimRun, PhaseInv, PhaseOK
  <1>10. ASSUME NEW r \in Runs, LeaseExpires(r)
         PROVE  TypeOK' /\ PhaseInv'
    BY <1>10 DEF LeaseExpires, PhaseInv, PhaseOK, Run, LeaseStates
  <1>11. ASSUME NEW q \in Requests, CheckAttempt(q)
        PROVE  TypeOK' /\ PhaseInv'
    <2> PICK pc \in PCs : Goto(q, pc) /\ PhaseOK([req[q] EXCEPT !.pc = pc])
      BY <1>0, <1>11 DEF CheckAttempt, At, PhaseInv, PhaseOK, Request, PCs, RuntimeKinds, EventKinds
    <2> QED
      BY <1>0, <1>11, GotoStep DEF CheckAttempt, rows
  <1>12. ASSUME NEW q \in Requests, WriteEvent(q)
        PROVE  TypeOK' /\ PhaseInv'
    <2> PICK pc \in PCs : Goto(q, pc) /\ PhaseOK([req[q] EXCEPT !.pc = pc])
      BY <1>0, <1>12 DEF WriteEvent, At, PhaseInv, PhaseOK, Request, PCs, RuntimeKinds, EventKinds, WantedStatus
    <2> QED
      BY <1>0, <1>12, GotoStep, EventTypesClosed DEF WriteEvent, LogEvent, At, PhaseInv, PhaseOK, Request
  <1>13. ASSUME NEW q \in Requests, SaveUsage(q)
        PROVE  TypeOK' /\ PhaseInv'
    <2> PICK pc \in PCs : Goto(q, pc) /\ PhaseOK([req[q] EXCEPT !.pc = pc])
      BY <1>0, <1>13 DEF SaveUsage, At, PhaseInv, PhaseOK, Request, PCs
    <2> QED
      BY <1>0, <1>13, GotoStep DEF SaveUsage, At, PhaseInv, PhaseOK, Request
  <1>14. ASSUME NEW q \in Requests, SinkGetRun(q)
        PROVE  TypeOK' /\ PhaseInv'
    <2> PICK pc \in PCs : Goto(q, pc) /\ PhaseOK([req[q] EXCEPT !.pc = pc])
      BY <1>0, <1>14 DEF SinkGetRun, At, PhaseInv, PhaseOK, Request, PCs, WantedStatus
    <2> QED
      BY <1>0, <1>14, GotoStep DEF SinkGetRun, rows
  <1>15. ASSUME NEW q \in Requests, RegisterArtifacts(q)
        PROVE  TypeOK' /\ PhaseInv'
    <2> PICK pc \in PCs : Goto(q, pc) /\ PhaseOK([req[q] EXCEPT !.pc = pc])
      BY <1>0, <1>15 DEF RegisterArtifacts, At, PhaseInv, PhaseOK, Request, PCs, AfterArtifacts, NextArtifact
    <2> QED
      BY <1>0, <1>15, GotoStep DEF RegisterArtifacts, rows
  <1>16. ASSUME NEW q \in Requests, GetArtifact(q)
         PROVE  TypeOK' /\ PhaseInv'
    BY <1>0, <1>16, ArtifactStep, RequestStep DEF GetArtifact, rows
  <1>17. ASSUME NEW q \in Requests, AddArtifact(q)
        PROVE  TypeOK' /\ PhaseInv'
    <2>1. PhaseOK([req[q] EXCEPT !.pc = "artifact_event"])
      BY <1>17 DEF AddArtifact, At, PhaseInv, PhaseOK, Request
    <2>2. req' \in [Requests -> Request] /\ PhaseInv'
      BY <1>0, <1>17, <2>1, GotoStep DEF AddArtifact, PCs
    <2> QED
      BY <1>17, <2>2 DEF AddArtifact, At, PhaseInv, PhaseOK, Request
  <1>18. ASSUME NEW q \in Requests, ArtifactEvent(q)
         PROVE  TypeOK' /\ PhaseInv'
    <2> DEFINE t == [req[q] EXCEPT !.artifact = NoArtifact, !.pc = NextArtifact(q, req[q].artifacts)]
    <2>1. t \in Request /\ PhaseOK(t)
      BY <1>0, <1>18, NextArtifactPC DEF ArtifactEvent, At, PhaseInv, PhaseOK, Request
    <2>2. req' = [req EXCEPT ![q] = t]
      BY <1>0, <1>18 DEF ArtifactEvent
    <2> HIDE DEF t
    <2>3. req' \in [Requests -> Request] /\ PhaseInv'
      BY <1>0, <2>1, <2>2, RequestStep
    <2> QED
      BY <1>18, <2>3 DEF ArtifactEvent, LogEvent, EventTypes, Request
  <1>19. ASSUME NEW q \in Requests, AddAssistantMessage(q)
        PROVE  TypeOK' /\ PhaseInv'
    <2>1. PhaseOK([req[q] EXCEPT !.pc = "update"])
      BY <1>19 DEF AddAssistantMessage, At, PhaseInv, PhaseOK, Request, WantedStatus
    <2>2. req' \in [Requests -> Request] /\ PhaseInv'
      BY <1>0, <1>19, <2>1, GotoStep DEF AddAssistantMessage, PCs
    <2> QED
      BY <1>19, <2>2 DEF AddAssistantMessage, At, PhaseInv, PhaseOK, Request
  <1>20. ASSUME NEW q \in Requests, MemoryUpdate(q)
        PROVE  TypeOK' /\ PhaseInv'
    <2> PICK pc \in PCs : Goto(q, pc) /\ PhaseOK([req[q] EXCEPT !.pc = pc])
      BY <1>0, <1>20 DEF MemoryUpdate, At, PhaseInv, PhaseOK, Request, PCs, AfterUpdate
    <2> QED
      <3>1. WantedStatus[req[q].kind] \in RunStatuses
        BY <1>20, WantedStatusType DEF MemoryUpdate, At, PhaseInv, PhaseOK
      <3> QED
        BY <1>0, <1>20, <3>1, GotoStep, RowTypes DEF MemoryUpdate
  <1>21. ASSUME NEW q \in Requests, PostgresRead(q)
         PROVE  TypeOK' /\ PhaseInv'
    <2> DEFINE t1 == [req[q] EXCEPT !.pc = AfterUpdate(req[q].kind)]
               t2 == [req[q] EXCEPT !.seen = RunOf(q), !.pc = "write"]
    <2>1. t1 \in Request /\ PhaseOK(t1)
      BY <1>0, <1>21 DEF PostgresRead, At, PhaseInv, PhaseOK, Request, PCs, AfterUpdate
    <2>2. t2 \in Request /\ PhaseOK(t2)
      BY <1>0, <1>21 DEF PostgresRead, At, PhaseInv, PhaseOK, Request, PCs, RunOf
    <2>3. req' = [req EXCEPT ![q] = t1] \/ req' = [req EXCEPT ![q] = t2]
      BY <1>21 DEF PostgresRead
    <2> HIDE DEF t1, t2
    <2> QED
      BY <1>0, <1>21, <2>1, <2>2, <2>3, RequestStep DEF PostgresRead, rows
  <1>22. ASSUME NEW q \in Requests, PostgresWrite(q)
         PROVE  TypeOK' /\ PhaseInv'
    <2> DEFINE t == [req[q] EXCEPT !.seen = NoRun, !.pc = AfterUpdate(req[q].kind)]
    <2>1. t \in Request /\ PhaseOK(t)
      BY <1>0, <1>22, RowTypes DEF PostgresWrite, At, PhaseInv, PhaseOK, Request, PCs, AfterUpdate
    <2>2. req' = [req EXCEPT ![q] = t]
      BY <1>0, <1>22 DEF PostgresWrite
    <2> HIDE DEF t
    <2>3. req' \in [Requests -> Request] /\ PhaseInv'
      BY <1>0, <2>1, <2>2, RequestStep
    <2>4. WantedStatus[req[q].kind] \in RunStatuses /\ req[q].seen \in Run
      BY <1>0, <1>22, WantedStatusType DEF PostgresWrite, At, PhaseInv, PhaseOK, Request
    <2> QED
      BY <1>22, <2>3, <2>4, RowTypes DEF PostgresWrite, Request
  <1>23. ASSUME NEW q \in Requests, Announce(q)
        PROVE  TypeOK' /\ PhaseInv'
    <2>1. PhaseOK([req[q] EXCEPT !.pc = "done"])
      BY <1>23 DEF Announce, At, PhaseInv, PhaseOK, Request
    <2>2. req' \in [Requests -> Request] /\ PhaseInv'
      BY <1>0, <1>23, <2>1, GotoStep DEF Announce, PCs
    <2> QED
      <3>1. EventOf(WantedStatus[req[q].kind]) \in EventTypes
        BY <1>23, WantedFinal, WantedStatusType, EventTypesClosed
           DEF Announce, At, PhaseInv, PhaseOK
      <3> QED
        BY <1>23, <2>2, <3>1 DEF Announce, LogEvent, Request
  <1>24. ASSUME NEW q \in Requests, StoreError(q)
         PROVE  TypeOK' /\ PhaseInv'
    <2> PICK pc \in {"dispatch", "announce", "done"} :
          /\ req' = [req EXCEPT ![q] = [req[q] EXCEPT !.seen = NoRun, !.pc = pc]]
          /\ pc = "dispatch" => At(q, "queued_event")
          /\ pc = "announce" => req[q].kind = "create"
      BY <1>0, <1>24 DEF StoreError, At
    <2> DEFINE t == [req[q] EXCEPT !.seen = NoRun, !.pc = pc]
    <2>1. t \in Request /\ PhaseOK(t)
      BY <1>0, RowTypes DEF At, PhaseInv, PhaseOK, Request, PCs, FinishingKinds
    <2> HIDE DEF t
    <2> QED
      BY <1>0, <1>24, <2>1, RequestStep DEF StoreError, rows, t
  <1>25. ASSUME Crash
         PROVE  TypeOK' /\ PhaseInv'
    <2>1. ASSUME NEW q \in Requests
          PROVE  req'[q] \in Request /\ PhaseOK(req'[q])
      <3> DEFINE t == [req[q] EXCEPT !.seen = NoRun, !.pc = "done"]
      <3>1. t \in Request /\ PhaseOK(t)
        BY <1>0, RowTypes DEF PhaseInv, PhaseOK, Request, PCs
      <3>2. req[q] \in Request /\ PhaseOK(req[q])
        BY <1>0 DEF PhaseInv
      <3>3. req'[q] = req[q] \/ req'[q] = t
        BY <1>25 DEF Crash
      <3> HIDE DEF t
      <3> QED
        BY <3>1, <3>2, <3>3
    <2>2. PhaseInv'
      BY <2>1 DEF PhaseInv, PhaseOK
    <2>3. req' \in [Requests -> Request]
      BY <1>25, <2>1 DEF Crash
    <2> QED
      BY <1>25, <2>2, <2>3 DEF Crash, rows
  <1>26. ASSUME UNCHANGED vars
         PROVE  TypeOK' /\ PhaseInv'
    BY <1>26 DEF vars, PhaseInv, PhaseOK
  <1> QED
    BY <1>1, <1>2, <1>3, <1>4, <1>5, <1>6, <1>7, <1>8, <1>9, <1>10, <1>11, <1>12, <1>13, <1>14,
       <1>15, <1>16, <1>17, <1>18, <1>19, <1>20, <1>21, <1>22, <1>23, <1>24, <1>25, <1>26
       DEF Next, Receive, HandlerStep

-----------------------------------------------------------------------------
\* A handler that is past its first call moves on: it keeps its kind and its
\* run, and never goes back to the start.
Advances(q) ==
    /\ req[q].pc \notin {"idle", "add_user_message", "done"}
    /\ \A p \in Requests :
          /\ req'[p].kind = req[p].kind /\ req'[p].run = req[p].run
          /\ req'[p].attempt = req[p].attempt
          /\ p # q => req'[p] = req[p]
    /\ req'[q].pc # "add_user_message"

\* What a step may do to the rows of runs that do not exist.
LEMMA CreationFrame ==
    ASSUME TypeOK, TypeOK', CreationInv,
           \A r \in Runs : (runs'[r].status = "absent") = (runs[r].status = "absent"),
           \A r \in dispatched' : runs[r].status # "absent",
           \A p \in Requests :
              /\ req'[p].kind = req[p].kind /\ req'[p].run = req[p].run
              /\ \/ req'[p].pc = req[p].pc
                 \/ req'[p].pc = "done"
                 \/ /\ req[p].pc \notin {"idle", "add_user_message", "done"}
                    /\ req'[p].pc # "add_user_message"
    PROVE  CreationInv'
  BY DEF CreationInv, RunOf, At, TypeOK, Request

\* Every store call but the first of createMessage advances its request.
LEMMA HandlersAdvance ==
    ASSUME TypeOK, PhaseInv, NEW q \in Requests, HandlerStep(q), ~At(q, "add_user_message")
    PROVE  Advances(q)
  <1> USE DEF Advances, At, Goto, TypeOK, Request
  <1>1. CASE CommitQuota(q)
    BY <1>1 DEF CommitQuota
  <1>2. CASE QueuedEvent(q)
    BY <1>2 DEF QueuedEvent
  <1>3. CASE Dispatch(q)
    BY <1>3 DEF Dispatch
  <1>4. CASE CheckAttempt(q)
    BY <1>4 DEF CheckAttempt
  <1>5. CASE WriteEvent(q)
    BY <1>5 DEF WriteEvent
  <1>6. CASE SaveUsage(q)
    BY <1>6 DEF SaveUsage
  <1>7. CASE SinkGetRun(q)
    BY <1>7 DEF SinkGetRun
  <1>8. CASE RegisterArtifacts(q)
    BY <1>8 DEF RegisterArtifacts, NextArtifact, AfterArtifacts
  <1>9. CASE GetArtifact(q)
    BY <1>9, ArtifactStep DEF GetArtifact
  <1>10. CASE AddArtifact(q)
    BY <1>10 DEF AddArtifact
  <1>11. CASE ArtifactEvent(q)
    BY <1>11 DEF ArtifactEvent, NextArtifact, AfterArtifacts
  <1>12. CASE AddAssistantMessage(q)
    BY <1>12 DEF AddAssistantMessage
  <1>13. CASE MemoryUpdate(q)
    BY <1>13 DEF MemoryUpdate, AfterUpdate
  <1>14. CASE PostgresRead(q)
    BY <1>14 DEF PostgresRead, AfterUpdate
  <1>15. CASE PostgresWrite(q)
    BY <1>15 DEF PostgresWrite, AfterUpdate
  <1>16. CASE Announce(q)
    BY <1>16 DEF Announce
  <1> QED
    BY <1>1, <1>2, <1>3, <1>4, <1>5, <1>6, <1>7, <1>8, <1>9, <1>10, <1>11, <1>12, <1>13, <1>14, <1>15, <1>16 DEF HandlerStep, AddUserMessage

\* createMessage's first store call is AddUserMessage.
LEMMA FirstCall ==
    ASSUME NEW q \in Requests, HandlerStep(q), At(q, "add_user_message")
    PROVE  AddUserMessage(q)
  BY DEF HandlerStep, CommitQuota, QueuedEvent, Dispatch, CheckAttempt, WriteEvent, SaveUsage,
     SinkGetRun, RegisterArtifacts, GetArtifact, AddArtifact, ArtifactEvent, AddAssistantMessage,
     MemoryUpdate, PostgresRead, PostgresWrite, Announce, At

\* Row operations neither make nor remove a row.
LEMMA RowsStay ==
    /\ QueuedRun.status = "queued"
    /\ \A run \in Run, a \in Attempts :
          (ClaimRunAttempt(run, a).status = "absent") => run.status = "absent"
    /\ \A run \in Run, st \in RunStatuses \ {"absent"} :
          /\ UpdateRunStatus(run, st).status # "absent" \/ run.status = "absent"
          /\ \A seen \in Run : WriteRunStatus(run, seen, st).status # "absent"
  BY DEF QueuedRun, NoRun, ClaimRunAttempt, UpdateRunStatus, WriteRunStatus, StatusRefused,
         IsTerminalRunStatus, FinalStatuses, Run

\* Every step preserves that only createMessage's request for a run can make its row.
LEMMA CreationStep ==
    TypeOK /\ PhaseInv /\ CreationInv /\ [Next]_vars => CreationInv'
  <1> SUFFICES ASSUME TypeOK, PhaseInv, CreationInv, [Next]_vars
               PROVE  CreationInv'
    OBVIOUS
  <1>0. TypeOK'
    BY BaseStep
  <1>1. ASSUME NEW q \in Requests, Advances(q), NEW r \in Runs, r = req[q].run,
               \A s \in Runs : s # r => runs'[s] = runs[s],
               runs[r].status # "absent" => runs'[r].status # "absent",
               dispatched' \subseteq dispatched \cup {r}
        PROVE  CreationInv'
    <2>1. runs[r].status # "absent"
      BY <1>1 DEF CreationInv, Advances, RunOf
    <2>2. \A s \in Runs : (runs'[s].status = "absent") = (runs[s].status = "absent")
      BY <1>1, <2>1
    <2>3. \A s \in dispatched' : runs[s].status # "absent"
      BY <1>1, <2>1 DEF CreationInv
    <2>4. \A p \in Requests :
            /\ req'[p].kind = req[p].kind /\ req'[p].run = req[p].run
            /\ \/ req'[p].pc = req[p].pc
               \/ /\ req[p].pc \notin {"idle", "add_user_message", "done"}
                  /\ req'[p].pc # "add_user_message"
      BY <1>1 DEF Advances
    <2> QED
      BY <1>0, <2>2, <2>3, <2>4, CreationFrame
  <1>2. ASSUME NEW q \in Requests, NEW r \in Runs, ReceiveCreate(q, r)
        PROVE  CreationInv'
    BY <1>2, IdleType DEF ReceiveCreate, CreationInv, RunOf, At, TypeOK, Request, rows
  <1>3. ASSUME NEW q \in Requests, NEW r \in Runs, NEW t \in Request,
               t.kind # "create", t.run = r, t.pc # "add_user_message",
               runs[r].status # "absent",
               req' = [req EXCEPT ![q] = t], UNCHANGED <<rows, dispatched>>
        PROVE  CreationInv'
    BY <1>3 DEF CreationInv, RunOf, At, TypeOK, Request, rows
  <1>4. ASSUME NEW q \in Requests, Receive(q)
        PROVE  CreationInv'
    <2>1. ASSUME NEW r \in Runs, ReceiveCancel(q, r)
          PROVE  CreationInv'
      <3> DEFINE t == [Idle EXCEPT !.kind = "cancel", !.run = r, !.pc = "update"]
      <3>1. t \in Request /\ t.kind = "cancel" /\ t.run = r /\ t.pc = "update"
        BY IdleType DEF Request, Kinds, PCs
      <3>2. req' = [req EXCEPT ![q] = t] /\ UNCHANGED <<rows, dispatched>>
        BY <2>1 DEF ReceiveCancel
      <3>3. runs[r].status # "absent"
        BY <2>1 DEF ReceiveCancel
      <3> HIDE DEF t
      <3> QED
        BY <1>3, <3>1, <3>2, <3>3
    <2>2. ASSUME NEW r \in Runs, DispatchFails(q, r)
          PROVE  CreationInv'
      <3> DEFINE t == [Idle EXCEPT !.kind = "dispatch_fail", !.run = r, !.pc = "get_run"]
      <3>1. t \in Request /\ t.kind = "dispatch_fail" /\ t.run = r /\ t.pc = "get_run"
        BY IdleType DEF Request, Kinds, PCs
      <3>2. req' = [req EXCEPT ![q] = t] /\ UNCHANGED <<rows, dispatched>>
        BY <2>2 DEF DispatchFails
      <3>3. runs[r].status # "absent"
        BY <2>2 DEF DispatchFails, CreationInv
      <3> HIDE DEF t
      <3> QED
        BY <1>3, <3>1, <3>2, <3>3
    <2>3. ASSUME NEW r \in Runs, NEW kind \in RuntimeCalls, NEW a \in Attempts,
                 NEW arts \in SUBSET Artifacts, ReceiveFromRuntime(q, kind, r, a, arts)
          PROVE  CreationInv'
      <3> DEFINE t == [Idle EXCEPT !.kind = kind, !.run = r, !.attempt = a,
                                   !.artifacts = arts, !.pc = "check"]
      <3>0. kind \in Kinds /\ kind # "create"
        BY ControlPlaneAssumption DEF Kinds, RuntimeKinds, EventKinds
      <3>1. t \in Request /\ t.kind # "create" /\ t.run = r /\ t.pc = "check"
        BY <3>0, IdleType DEF Request, PCs
      <3>2. req' = [req EXCEPT ![q] = t] /\ UNCHANGED <<rows, dispatched>>
        BY <2>3 DEF ReceiveFromRuntime
      <3>3. runs[r].status # "absent"
        BY <2>3 DEF ReceiveFromRuntime, CreationInv
      <3> HIDE DEF t
      <3> QED
        BY <1>3, <3>1, <3>2, <3>3
    <2> QED
      BY <1>2, <1>4, <2>1, <2>2, <2>3 DEF Receive
  <1>5. ASSUME NEW q \in Requests, AddUserMessage(q)
        PROVE  CreationInv'
    <2>1. req[q].kind = "create" /\ req[q].run \in Runs
      BY <1>5 DEF AddUserMessage, At, PhaseInv, PhaseOK, TypeOK, Request
    <2>2. \A p \in Requests : /\ req'[p].kind = req[p].kind /\ req'[p].run = req[p].run
                              /\ p # q => req'[p] = req[p]
      BY <1>5 DEF AddUserMessage, Goto, TypeOK, Request
    <2>3. req'[q].pc = "commit_quota"
      BY <1>5 DEF AddUserMessage, Goto, TypeOK, Request
    <2>4. /\ runs'[req[q].run].status = "queued"
          /\ \A r \in Runs : r # req[q].run => runs'[r] = runs[r]
      BY <1>5, <2>1, RowsStay DEF AddUserMessage, TypeOK
    <2>5. \A p \in Requests : At(p, "add_user_message") /\ req[p].run = req[q].run => p = q
      BY <2>1 DEF CreationInv, At, PhaseInv, PhaseOK
    <2>6. dispatched' = dispatched
      BY <1>5 DEF AddUserMessage
    <2> QED
      BY <2>1, <2>2, <2>3, <2>4, <2>5, <2>6 DEF CreationInv, RunOf, At, TypeOK, Request
  <1>6. ASSUME NEW q \in Requests, HandlerStep(q), ~At(q, "add_user_message")
        PROVE  CreationInv'
    <2>1. Advances(q)
      BY <1>6, HandlersAdvance
    <2>2. req[q].run \in Runs /\ RunOf(q) \in Run
      BY DEF TypeOK, Request, RunOf
    <2>3. CASE UNCHANGED runs
      <3>1. dispatched' \subseteq dispatched \cup {req[q].run}
        BY <1>6 DEF HandlerStep, AddUserMessage, CommitQuota, QueuedEvent, Dispatch, CheckAttempt,
             WriteEvent, SaveUsage, SinkGetRun, RegisterArtifacts, GetArtifact, AddArtifact, ArtifactEvent,
             AddAssistantMessage, MemoryUpdate, PostgresRead, PostgresWrite, Announce
      <3> QED
        BY <1>1, <2>1, <2>2, <2>3, <3>1
    <2>4. CASE MemoryUpdate(q) \/ PostgresWrite(q)
      <3>1. WantedStatus[req[q].kind] \in RunStatuses \ {"absent"} /\ req[q].seen \in Run
        BY <2>4, WantedStatusType
           DEF MemoryUpdate, PostgresWrite, At, PhaseInv, PhaseOK, TypeOK, Request
      <3>2. /\ \A r \in Runs : r # req[q].run => runs'[r] = runs[r]
            /\ RunOf(q).status # "absent" => runs'[req[q].run].status # "absent"
            /\ dispatched' = dispatched
        BY <2>2, <2>4, <3>1, RowsStay DEF MemoryUpdate, PostgresWrite, TypeOK, RunOf
      <3> QED
        BY <1>1, <2>1, <2>2, <3>2 DEF RunOf
    <2> QED
      BY <1>6, <2>3, <2>4 DEF HandlerStep, AddUserMessage, CommitQuota, QueuedEvent, Dispatch,
         CheckAttempt, WriteEvent, SaveUsage, SinkGetRun, RegisterArtifacts, GetArtifact, AddArtifact,
         ArtifactEvent, AddAssistantMessage, PostgresRead, Announce, rows
  <1>7. ASSUME NEW q \in Requests, StoreError(q)
        PROVE  CreationInv'
    <2>1. \A p \in Requests :
            /\ req'[p].kind = req[p].kind /\ req'[p].run = req[p].run
            /\ \/ req'[p].pc = req[p].pc
               \/ req'[p].pc = "done"
               \/ /\ req[p].pc \notin {"idle", "add_user_message", "done"}
                  /\ req'[p].pc # "add_user_message"
      BY <1>7 DEF StoreError, TypeOK, Request
    <2> QED
      BY <1>0, <1>7, <2>1, CreationFrame DEF StoreError, rows, CreationInv
  <1>8. ASSUME Crash
        PROVE  CreationInv'
    <2>1. \A p \in Requests :
            /\ req'[p].kind = req[p].kind /\ req'[p].run = req[p].run
            /\ req'[p].pc = req[p].pc \/ req'[p].pc = "done"
      BY <1>8 DEF Crash, TypeOK, Request
    <2> QED
      BY <1>0, <1>8, <2>1, CreationFrame DEF Crash, rows, CreationInv
  <1>9. ASSUME NEW r \in Runs, LeaseExpires(r) \/ \E a \in Attempts : ClaimRun(r, a)
        PROVE  CreationInv'
    <2>1. ASSUME NEW s \in Runs
          PROVE  (runs'[s].status = "absent") = (runs[s].status = "absent")
      <3>1. CASE LeaseExpires(r)
        BY <3>1 DEF LeaseExpires, TypeOK, Run
      <3>2. ASSUME NEW a \in Attempts, ClaimRun(r, a)
            PROVE  (runs'[s].status = "absent") = (runs[s].status = "absent")
        <4>1. runs[r].status # "absent" /\ runs[r] \in Run
          BY <3>2 DEF ClaimRun, CreationInv, TypeOK
        <4>2. runs'[s] = IF s = r THEN ClaimRunAttempt(runs[r], a) ELSE runs[s]
          BY <3>2 DEF ClaimRun, TypeOK
        <4> QED
          BY <4>1, <4>2, RowsStay
      <3> QED
        BY <1>9, <3>1, <3>2
    <2> QED
      BY <1>0, <1>9, <2>1, CreationFrame DEF LeaseExpires, ClaimRun, CreationInv
  <1>10. ASSUME UNCHANGED vars
         PROVE  CreationInv'
    BY <1>10 DEF vars, CreationInv, RunOf, At
  <1>11. ASSUME NEW q \in Requests, HandlerStep(q), At(q, "add_user_message")
         PROVE  AddUserMessage(q)
    BY <1>11, FirstCall
  <1> QED
    BY <1>4, <1>5, <1>6, <1>7, <1>8, <1>9, <1>10, <1>11 DEF Next

-----------------------------------------------------------------------------
\* Answers and usage are never taken back, a run only succeeds when both are
\* there, and a request only enters Answered and Charged with them.
LEMMA SettledFrame ==
    ASSUME TypeOK, TypeOK', SettledInv,
           \A r \in Runs : answers[r] # {} => answers'[r] # {},
           \A r \in Runs : usage[r] # NoAttempt => usage'[r] # NoAttempt,
           \A r \in Runs : runs'[r].status = "succeeded" =>
              runs[r].status = "succeeded" \/ (answers[r] # {} /\ usage[r] # NoAttempt),
           \A p \in Requests : req'[p].kind = "complete" =>
              \/ req'[p].pc \notin Charged
              \/ /\ req[p].kind = "complete" /\ req'[p].run = req[p].run
                 /\ req'[p].pc \in Answered => req[p].pc \in Answered \/ answers'[req[p].run] # {}
                 /\ req[p].pc \in Charged \/ usage'[req[p].run] # NoAttempt
    PROVE  SettledInv'
  <1>1. SucceededIsSettled'
    BY DEF SettledInv, SucceededIsSettled, TypeOK
  <1>2. ASSUME NEW p \in Requests, req'[p].kind = "complete", req'[p].pc \in Charged
        PROVE  /\ req'[p].pc \in Answered => answers'[req'[p].run] # {}
               /\ usage'[req'[p].run] # NoAttempt
    BY <1>2 DEF SettledInv, TypeOK, Request
  <1> QED
    BY <1>1, <1>2 DEF SettledInv, Charged

\* The row operations other than a status write of "succeeded" make no run
\* succeed.
LEMMA RowsSucceed ==
    /\ QueuedRun.status # "succeeded"
    /\ \A run \in Run, a \in Attempts :
          ClaimRunAttempt(run, a).status = "succeeded" => run.status = "succeeded"
    /\ \A run \in Run, st \in RunStatuses :
          /\ UpdateRunStatus(run, st).status = "succeeded" => "succeeded" \in {run.status, st}
          /\ \A seen \in Run : WriteRunStatus(run, seen, st).status = st
  BY DEF QueuedRun, NoRun, ClaimRunAttempt, UpdateRunStatus, WriteRunStatus, Run

\* Every step preserves that success, and every pc close to it, has its answer and usage.
LEMMA SettledStep ==
    TypeOK /\ PhaseInv /\ SettledInv /\ [Next]_vars => SettledInv'
  <1> SUFFICES ASSUME TypeOK, PhaseInv, SettledInv, [Next]_vars
               PROVE  SettledInv'
    OBVIOUS
  <1>0. TypeOK'
    BY BaseStep
  <1>1. ASSUME NEW q \in Requests, Receive(q)
        PROVE  SettledInv'
    <2>1. UNCHANGED rows
      BY <1>1 DEF Receive, ReceiveCreate, ReceiveCancel, DispatchFails, ReceiveFromRuntime
    <2>2. \A p \in Requests : req'[p] = req[p] \/ req'[p].kind # "complete" \/ req'[p].pc = "check"
      <3>1. ASSUME NEW r \in Runs, ReceiveCreate(q, r) \/ ReceiveCancel(q, r) \/ DispatchFails(q, r)
            PROVE  \A p \in Requests : req'[p] = req[p] \/ req'[p].kind # "complete"
        <4>1. CASE ReceiveCreate(q, r)
          BY <4>1, IdleType DEF ReceiveCreate, TypeOK, Request
        <4>2. CASE ReceiveCancel(q, r)
          BY <4>2, IdleType DEF ReceiveCancel, TypeOK, Request
        <4>3. CASE DispatchFails(q, r)
          BY <4>3, IdleType DEF DispatchFails, TypeOK, Request
        <4> QED
          BY <3>1, <4>1, <4>2, <4>3
      <3>2. ASSUME NEW r \in Runs, NEW kind \in RuntimeCalls, NEW a \in Attempts,
                   NEW arts \in SUBSET Artifacts, ReceiveFromRuntime(q, kind, r, a, arts)
            PROVE  \A p \in Requests : req'[p] = req[p] \/ req'[p].pc = "check"
        BY <3>2, IdleType DEF ReceiveFromRuntime, TypeOK, Request
      <3> QED
        BY <1>1, <3>1, <3>2 DEF Receive
    <2> QED
      BY <1>0, <2>1, <2>2, SettledFrame DEF rows, Charged, Answered
  <1>2. ASSUME NEW q \in Requests, Advances(q), UNCHANGED <<runs, answers, usage>>,
               req[q].kind = "complete" =>
                  /\ req'[q].pc \in Answered => req[q].pc \in Answered
                  /\ req'[q].pc \in Charged => req[q].pc \in Charged
        PROVE  SettledInv'
    BY <1>0, <1>2, SettledFrame DEF Advances
  <1>3. ASSUME NEW q \in Requests, AddUserMessage(q)
        PROVE  SettledInv'
    <2>1. \A p \in Requests : req'[p].kind = "complete" => req'[p] = req[p]
      BY <1>3 DEF AddUserMessage, At, PhaseInv, PhaseOK, Goto, TypeOK, Request
    <2>2. \A r \in Runs : runs'[r].status = "succeeded" => runs[r].status = "succeeded"
      BY <1>3, RowsSucceed DEF AddUserMessage, TypeOK, Request
    <2> QED
      BY <1>0, <1>3, <2>1, <2>2, SettledFrame DEF AddUserMessage
  <1>4. ASSUME NEW q \in Requests,
               CommitQuota(q) \/ QueuedEvent(q) \/ Dispatch(q) \/ WriteEvent(q)
        PROVE  SettledInv'
    <2>1. Advances(q) /\ req[q].kind # "complete" /\ UNCHANGED <<runs, answers, usage>>
      BY <1>4, HandlersAdvance DEF HandlerStep, CommitQuota, QueuedEvent, Dispatch, WriteEvent, At,
         PhaseInv, PhaseOK, EventKinds, rows
    <2> QED
      BY <1>2, <2>1
  <1>5. ASSUME NEW q \in Requests, CheckAttempt(q)
        PROVE  SettledInv'
    <2>1. Advances(q) /\ UNCHANGED <<runs, answers, usage>>
      BY <1>5, HandlersAdvance DEF HandlerStep, CheckAttempt, At, rows
    <2>2. req[q].kind = "complete" => req'[q].pc \notin Charged
      BY <1>5 DEF CheckAttempt, Goto, Charged, Answered, EventKinds, TypeOK, Request
    <2> QED
      BY <1>2, <2>1, <2>2 DEF Charged
  <1>6. ASSUME NEW q \in Requests, SaveUsage(q)
        PROVE  SettledInv'
    <2>1. Advances(q) /\ UNCHANGED <<runs, answers>> /\ req'[q].pc = "get_run"
      BY <1>6, HandlersAdvance DEF HandlerStep, SaveUsage, At, Goto, TypeOK, Request
    <2>2. req[q].attempt \in Attempts
      BY <1>6 DEF SaveUsage, At, PhaseInv, PhaseOK
    <2>3. /\ usage'[req[q].run] # NoAttempt
          /\ \A r \in Runs : usage[r] # NoAttempt => usage'[r] # NoAttempt
      BY <1>6, <2>2, NoAttemptAssumption DEF SaveUsage, TypeOK, Request
    <2> QED
      BY <1>0, <2>1, <2>3, SettledFrame DEF Advances, Answered
  <1>7. ASSUME NEW q \in Requests,
               \/ SinkGetRun(q) \/ RegisterArtifacts(q) \/ GetArtifact(q) \/ AddArtifact(q)
               \/ ArtifactEvent(q)
        PROVE  SettledInv'
    <2>1. Advances(q) /\ UNCHANGED <<runs, answers, usage>> /\ req[q].pc \in Charged
      BY <1>7, HandlersAdvance DEF HandlerStep, SinkGetRun, RegisterArtifacts, GetArtifact,
         AddArtifact, ArtifactEvent, At, rows, Charged
    <2>2. req[q].kind = "complete" => req'[q].pc \notin Answered
      <3>1. CASE SinkGetRun(q)
        BY <3>1 DEF SinkGetRun, Goto, Answered, TypeOK, Request
      <3>2. CASE RegisterArtifacts(q)
        BY <3>2 DEF RegisterArtifacts, NextArtifact, AfterArtifacts, Goto, Answered, TypeOK, Request
      <3>3. CASE GetArtifact(q)
        BY <3>3, ArtifactStep DEF Answered, TypeOK
      <3>4. CASE AddArtifact(q)
        BY <3>4 DEF AddArtifact, Goto, Answered, TypeOK, Request
      <3>5. CASE ArtifactEvent(q)
        BY <3>5 DEF ArtifactEvent, NextArtifact, AfterArtifacts, Answered, TypeOK, Request
      <3> QED
        BY <1>7, <3>1, <3>2, <3>3, <3>4, <3>5
    <2> QED
      BY <1>2, <2>1, <2>2
  <1>8. ASSUME NEW q \in Requests, AddAssistantMessage(q)
        PROVE  SettledInv'
    <2>1. Advances(q) /\ UNCHANGED <<runs, usage>> /\ req[q].pc \in Charged
      BY <1>8, HandlersAdvance DEF HandlerStep, AddAssistantMessage, At, Charged
    <2>2. /\ answers'[req[q].run] # {}
          /\ \A r \in Runs : answers[r] # {} => answers'[r] # {}
      BY <1>8 DEF AddAssistantMessage, TypeOK, Request
    <2> QED
      BY <1>0, <2>1, <2>2, SettledFrame DEF Advances
  <1>9. ASSUME NEW q \in Requests,
               MemoryUpdate(q) \/ PostgresRead(q) \/ PostgresWrite(q) \/ Announce(q)
        PROVE  SettledInv'
    <2>1. Advances(q) /\ UNCHANGED <<answers, usage>> /\ req[q].pc \in Answered
      BY <1>9, HandlersAdvance DEF HandlerStep, MemoryUpdate, PostgresRead, PostgresWrite, Announce,
         At, rows, Answered
    <2>2. ASSUME NEW r \in Runs, runs'[r].status = "succeeded", runs[r].status # "succeeded"
          PROVE  answers[r] # {} /\ usage[r] # NoAttempt
      <3>1. r = req[q].run /\ (MemoryUpdate(q) \/ PostgresWrite(q))
        BY <1>9, <2>2 DEF MemoryUpdate, PostgresRead, PostgresWrite, Announce, rows, TypeOK, Request
      <3>2. req[q].kind \in DOMAIN WantedStatus
        BY <3>1 DEF MemoryUpdate, PostgresWrite, At, PhaseInv, PhaseOK
      <3>3. WantedStatus[req[q].kind] \in RunStatuses
        BY <3>2, WantedStatusType
      <3>4. runs[r] \in Run /\ req[q].seen \in Run
        BY DEF TypeOK, Request
      <3>5. \/ runs'[r] = UpdateRunStatus(runs[r], WantedStatus[req[q].kind])
            \/ runs'[r] = WriteRunStatus(runs[r], req[q].seen, WantedStatus[req[q].kind])
        BY <3>1 DEF MemoryUpdate, PostgresWrite, TypeOK
      <3>6. WantedStatus[req[q].kind] = "succeeded"
        BY <2>2, <3>3, <3>4, <3>5, RowsSucceed
      <3>7. req[q].kind = "complete"
        BY <3>2, <3>6, WantedFinal
      <3> QED
        BY <2>1, <3>1, <3>7 DEF SettledInv, Charged
    <2> QED
      BY <1>0, <2>1, <2>2, SettledFrame DEF Advances, Charged
  <1>10. ASSUME NEW q \in Requests, StoreError(q)
         PROVE  SettledInv'
    <2>1. UNCHANGED rows
      BY <1>10 DEF StoreError
    <2>2. \A p \in Requests : req'[p] = req[p] \/ req'[p].kind # "complete" \/ req'[p].pc = "done"
      BY <1>10 DEF StoreError, At, PhaseInv, PhaseOK, TypeOK, Request
    <2> QED
      BY <1>0, <2>1, <2>2, SettledFrame DEF rows, Charged, Answered
  <1>11. ASSUME Crash
         PROVE  SettledInv'
    <2>1. UNCHANGED rows
      BY <1>11 DEF Crash
    <2>2. \A p \in Requests : req'[p] = req[p] \/ req'[p].pc = "done"
      BY <1>11 DEF Crash, TypeOK, Request
    <2> QED
      BY <1>0, <2>1, <2>2, SettledFrame DEF rows, Charged, Answered
  <1>12. ASSUME NEW r \in Runs, LeaseExpires(r) \/ \E a \in Attempts : ClaimRun(r, a)
         PROVE  SettledInv'
    <2>1. \A s \in Runs : runs'[s].status = "succeeded" => runs[s].status = "succeeded"
      <3>1. CASE LeaseExpires(r)
        BY <3>1 DEF LeaseExpires, TypeOK, Run
      <3>2. ASSUME NEW a \in Attempts, ClaimRun(r, a), NEW s \in Runs
            PROVE  runs'[s].status = "succeeded" => runs[s].status = "succeeded"
        <4>1. runs'[s] = IF s = r THEN ClaimRunAttempt(runs[r], a) ELSE runs[s]
          BY <3>2 DEF ClaimRun, TypeOK
        <4> QED
          BY <4>1, RowsSucceed DEF TypeOK
      <3> QED
        BY <1>12, <3>1, <3>2
    <2> QED
      BY <1>0, <1>12, <2>1, SettledFrame DEF LeaseExpires, ClaimRun
  <1>13. ASSUME UNCHANGED vars
         PROVE  SettledInv'
    BY <1>13 DEF vars, SettledInv, SucceededIsSettled
  <1> QED
    BY <1>1, <1>3, <1>4, <1>5, <1>6, <1>7, <1>8, <1>9, <1>10, <1>11, <1>12, <1>13
       DEF Next, HandlerStep

-----------------------------------------------------------------------------
\* The inductive invariant holds before any request is received.
LEMMA InitInv == Init => IndInv
  <1> SUFFICES ASSUME Init
               PROVE  IndInv
    OBVIOUS
  <1>1. TypeOK
    BY IdleType, RowTypes DEF Init, TypeOK
  <1>2. PhaseInv
    BY IdleType DEF Init, PhaseInv
  <1>3. CreationInv
    BY IdleType DEF Init, CreationInv, Idle, RunOf, At
  <1>4. SettledInv
    BY DEF Init, SettledInv, SucceededIsSettled, Idle, NoRun
  <1> QED
    BY <1>1, <1>2, <1>3, <1>4 DEF IndInv

\* The inductive invariant holds for both stores.
LEMMA Inductive == Spec => []IndInv
  <1>1. IndInv /\ [Next]_vars => IndInv'
    BY BaseStep, CreationStep, SettledStep DEF IndInv
  <1> QED
    BY <1>1, InitInv, PTL DEF Spec

\* Every variable keeps its type: no sequence of handler steps, errors and
\* crashes leaves a request at a pc, or a row at a status, the code does not
\* know.
THEOREM TypeCorrect == Spec => []TypeOK
  <1>1. IndInv => TypeOK
    BY DEF IndInv
  <1> QED
    BY <1>1, Inductive, PTL

\* Both stores: whatever fails or interleaves, a run whose status is
\* "succeeded" has its assistant message and its usage.
THEOREM Settled == Spec => []SucceededIsSettled
  <1>1. IndInv => SucceededIsSettled
    BY DEF IndInv, SettledInv
  <1> QED
    BY <1>1, Inductive, PTL

-----------------------------------------------------------------------------
(***************************************************************************)
(* The memory store: UpdateRunStatus is one critical section.              *)
(***************************************************************************)

\* The rows after a step, for a store that decides and writes at once.
LEMMA MemoryRows ==
    ASSUME Store = "memory", TypeOK, PhaseInv, CreationInv, [Next]_vars, runs' # runs
    PROVE  \E r \in Runs :
              /\ \A s \in Runs \ {r} : runs'[s] = runs[s]
              /\ \/ \E q \in Requests : AddUserMessage(q) /\ r = req[q].run
                 \/ \E q \in Requests : MemoryUpdate(q) /\ r = req[q].run
                 \/ \E a \in Attempts : ClaimRun(r, a)
                 \/ LeaseExpires(r)
  <1>1. ASSUME NEW q \in Requests, HandlerStep(q)
        PROVE  AddUserMessage(q) \/ MemoryUpdate(q)
    <2>1. ~PostgresWrite(q)
      BY DEF PostgresWrite, At, PhaseInv, PhaseOK
    <2> QED
      BY <1>1, <2>1 DEF HandlerStep, CommitQuota, QueuedEvent, Dispatch, CheckAttempt, WriteEvent,
         SaveUsage, SinkGetRun, RegisterArtifacts, GetArtifact, AddArtifact, ArtifactEvent,
         AddAssistantMessage, PostgresRead, Announce, rows
  <1>2. ASSUME NEW q \in Requests
        PROVE  ~Receive(q) /\ ~StoreError(q)
    BY DEF Receive, ReceiveCreate, ReceiveCancel, DispatchFails, ReceiveFromRuntime, StoreError, rows
  <1>3. ~Crash /\ ~UNCHANGED vars
    BY DEF Crash, rows, vars
  <1>4. ASSUME NEW q \in Requests, AddUserMessage(q) \/ MemoryUpdate(q)
        PROVE  req[q].run \in Runs /\ \A s \in Runs \ {req[q].run} : runs'[s] = runs[s]
    BY <1>4 DEF AddUserMessage, MemoryUpdate, TypeOK, Request
  <1>5. ASSUME NEW r \in Runs, LeaseExpires(r) \/ \E a \in Attempts : ClaimRun(r, a)
        PROVE  \A s \in Runs \ {r} : runs'[s] = runs[s]
    BY <1>5 DEF LeaseExpires, ClaimRun, TypeOK
  <1>6. CASE \E q \in Requests : HandlerStep(q)
    BY <1>1, <1>4, <1>6
  <1>7. CASE \E r \in Runs : LeaseExpires(r) \/ \E a \in Attempts : ClaimRun(r, a)
    BY <1>5, <1>7
  <1> QED
    BY <1>2, <1>3, <1>6, <1>7 DEF Next

\* What UpdateRunStatus does to a row that exists.
LEMMA UpdateRow ==
    ASSUME NEW run \in Run, NEW st \in RunStatuses
    PROVE  IF IsTerminalRunStatus(run.status)
           THEN UpdateRunStatus(run, st).status = run.status
           ELSE UpdateRunStatus(run, st).status = st
  BY DEF UpdateRunStatus, StatusRefused, IsTerminalRunStatus, Run

\* Memory store: a step changes the status of a run only while it is not finished.
LEMMA FinalStep ==
    ASSUME Store = "memory", TypeOK, PhaseInv, CreationInv, [Next]_vars,
           NEW r \in Runs, IsTerminalRunStatus(runs[r].status)
    PROVE  runs'[r].status = runs[r].status
  <1> SUFFICES ASSUME runs' # runs
               PROVE  runs'[r].status = runs[r].status
    OBVIOUS
  <1> PICK s \in Runs :
        /\ \A x \in Runs \ {s} : runs'[x] = runs[x]
        /\ \/ \E q \in Requests : AddUserMessage(q) /\ s = req[q].run
           \/ \E q \in Requests : MemoryUpdate(q) /\ s = req[q].run
           \/ \E a \in Attempts : ClaimRun(s, a)
           \/ LeaseExpires(s)
    BY MemoryRows
  <1> SUFFICES ASSUME s = r
               PROVE  runs'[r].status = runs[r].status
    OBVIOUS
  <1>1. ASSUME NEW q \in Requests, AddUserMessage(q), r = req[q].run
        PROVE  FALSE
    BY <1>1 DEF AddUserMessage, CreationInv, RunOf, IsTerminalRunStatus, FinalStatuses
  <1>2. ASSUME NEW q \in Requests, MemoryUpdate(q), r = req[q].run
        PROVE  runs'[r].status = runs[r].status
    <2>1. WantedStatus[req[q].kind] \in RunStatuses
      BY <1>2, WantedStatusType DEF MemoryUpdate, At, PhaseInv, PhaseOK
    <2>2. runs'[r] = UpdateRunStatus(runs[r], WantedStatus[req[q].kind])
      BY <1>2 DEF MemoryUpdate, TypeOK
    <2> QED
      BY <2>1, <2>2, UpdateRow DEF TypeOK
  <1>3. ASSUME NEW a \in Attempts, ClaimRun(r, a)
        PROVE  runs'[r].status = runs[r].status
    BY <1>3 DEF ClaimRun, ClaimRunAttempt, TypeOK
  <1>4. CASE LeaseExpires(r)
    BY <1>4 DEF LeaseExpires, TypeOK, Run
  <1> QED
    BY <1>1, <1>2, <1>3, <1>4

\* Memory store: a finished run keeps its status.
THEOREM Final == ASSUME Store = "memory" PROVE Spec => TerminalIsFinal
  <1>1. IndInv /\ [Next]_vars => [\A r \in Runs : IsTerminalRunStatus(runs[r].status) =>
                                     runs'[r].status = runs[r].status]_vars
    BY FinalStep DEF IndInv
  <1> QED
    BY <1>1, Inductive, PTL DEF Spec, TerminalIsFinal

\* The event log after a step: only Announce writes a terminal event.
LEMMA EventsStep ==
    ASSUME TypeOK, PhaseInv, [Next]_vars, NEW r \in Runs, NEW type \in TerminalEvents,
           type \in events'[r], type \notin events[r]
    PROVE  \E q \in Requests : Announce(q) /\ req[q].run = r
  <1>1. \A q \in Requests : ~Receive(q) /\ ~StoreError(q)
    BY DEF Receive, ReceiveCreate, ReceiveCancel, DispatchFails, ReceiveFromRuntime, StoreError, rows
  <1>2. ~Crash /\ ~UNCHANGED vars /\ \A s \in Runs, a \in Attempts : ~ClaimRun(s, a)
    BY DEF Crash, rows, vars, ClaimRun
  <1>3. \A s \in Runs : ~LeaseExpires(s)
    BY DEF LeaseExpires
  <1>4. PICK q \in Requests : HandlerStep(q)
    BY <1>1, <1>2, <1>3 DEF Next
  <1>5. ~QueuedEvent(q)
    BY EventTypesClosed DEF QueuedEvent, LogEvent, TypeOK
  <1>6. ~WriteEvent(q)
    BY EventTypesClosed DEF WriteEvent, LogEvent, TypeOK, At, PhaseInv, PhaseOK
  <1>7. ~ArtifactEvent(q)
    BY DEF ArtifactEvent, LogEvent, TypeOK, TerminalEvents
  <1>8. Announce(q)
    BY <1>4, <1>5, <1>6, <1>7 DEF HandlerStep, AddUserMessage, CommitQuota, Dispatch, CheckAttempt,
       SaveUsage, SinkGetRun, RegisterArtifacts, GetArtifact, AddArtifact, AddAssistantMessage,
       MemoryUpdate, PostgresRead, PostgresWrite, rows
  <1>9. req[q].run = r
    BY <1>8 DEF Announce, LogEvent, TypeOK
  <1> QED
    BY <1>8, <1>9

\* A request only gets to "announce" through UpdateRunStatus.
LEMMA AnnounceStep ==
    ASSUME Store = "memory", TypeOK, PhaseInv, [Next]_vars,
           NEW q \in Requests, req'[q].pc = "announce"
    PROVE  req'[q].run = req[q].run /\ (At(q, "announce") \/ MemoryUpdate(q))
  <1>1. CASE UNCHANGED req
    BY <1>1 DEF At
  <1>2. ASSUME NEW p \in Requests, Receive(p)
        PROVE  p # q /\ req'[q] = req[q]
    <2>1. ASSUME NEW r \in Runs, ReceiveCreate(p, r)
          PROVE  p # q /\ req'[q] = req[q]
      BY <2>1, IdleType DEF ReceiveCreate, TypeOK, Request
    <2>2. ASSUME NEW r \in Runs, ReceiveCancel(p, r)
          PROVE  p # q /\ req'[q] = req[q]
      BY <2>2, IdleType DEF ReceiveCancel, TypeOK, Request
    <2>3. ASSUME NEW r \in Runs, DispatchFails(p, r)
          PROVE  p # q /\ req'[q] = req[q]
      BY <2>3, IdleType DEF DispatchFails, TypeOK, Request
    <2>4. ASSUME NEW r \in Runs, NEW kind \in RuntimeCalls, NEW a \in Attempts,
                 NEW arts \in SUBSET Artifacts, ReceiveFromRuntime(p, kind, r, a, arts)
          PROVE  p # q /\ req'[q] = req[q]
      BY <2>4, IdleType DEF ReceiveFromRuntime, TypeOK, Request
    <2> QED
      BY <1>2, <2>1, <2>2, <2>3, <2>4 DEF Receive
  <1>3. ASSUME NEW p \in Requests, AddUserMessage(p)
        PROVE  p # q /\ req'[q] = req[q]
    BY <1>3 DEF AddUserMessage, Goto, TypeOK, Request
  <1>4. ASSUME NEW p \in Requests, HandlerStep(p), ~At(p, "add_user_message")
        PROVE  req'[q].run = req[q].run /\ (At(q, "announce") \/ MemoryUpdate(q))
    <2>1. Advances(p)
      BY <1>4, HandlersAdvance
    <2>2. CASE p # q
      BY <2>1, <2>2 DEF Advances, At
    <2>3. CASE p = q
      <3> USE DEF At, Goto, TypeOK, Request
      <3>1. ~CommitQuota(q) /\ ~QueuedEvent(q) /\ ~Dispatch(q) /\ ~WriteEvent(q) /\ ~SaveUsage(q)
        BY DEF CommitQuota, QueuedEvent, Dispatch, WriteEvent, SaveUsage
      <3>2. ~CheckAttempt(q)
        BY DEF CheckAttempt
      <3>3. ~SinkGetRun(q) /\ ~RegisterArtifacts(q)
        BY DEF SinkGetRun, RegisterArtifacts, NextArtifact, AfterArtifacts
      <3>4. ~GetArtifact(q)
        BY ArtifactStep
      <3>5. ~AddArtifact(q) /\ ~ArtifactEvent(q) /\ ~AddAssistantMessage(q) /\ ~Announce(q)
        BY DEF AddArtifact, ArtifactEvent, NextArtifact, AfterArtifacts, AddAssistantMessage, Announce
      <3>6. ~PostgresRead(q) /\ ~PostgresWrite(q)
        BY DEF PostgresRead, PostgresWrite, PhaseInv, PhaseOK
      <3>7. MemoryUpdate(q)
        BY <1>4, <2>3, <3>1, <3>2, <3>3, <3>4, <3>5, <3>6 DEF HandlerStep, AddUserMessage
      <3> QED
        BY <2>1, <2>3, <3>7 DEF Advances
    <2> QED
      BY <2>2, <2>3
  <1>5. ASSUME NEW p \in Requests, HandlerStep(p), At(p, "add_user_message")
        PROVE  AddUserMessage(p)
    BY <1>5, FirstCall
  <1>6. ~Crash /\ \A p \in Requests : ~StoreError(p)
    BY DEF Crash, StoreError
  <1>7. CASE \E r \in Runs : LeaseExpires(r) \/ \E a \in Attempts : ClaimRun(r, a)
    BY <1>1, <1>7 DEF LeaseExpires, ClaimRun
  <1>8. CASE UNCHANGED vars
    BY <1>1, <1>8 DEF vars
  <1>9. CASE \E p \in Requests : Receive(p) \/ HandlerStep(p)
    BY <1>2, <1>3, <1>4, <1>5, <1>9 DEF At
  <1> QED
    BY <1>6, <1>7, <1>8, <1>9 DEF Next

\* Memory store: every step preserves that what is announced has happened.
LEMMA ReportStep ==
    ASSUME Store = "memory", TypeOK, PhaseInv, CreationInv, ReportInv, [Next]_vars
    PROVE  ReportInv'
  <1>1. ASSUME NEW q \in Requests, req'[q].pc = "announce"
        PROVE  IsTerminalRunStatus(runs'[req'[q].run].status)
    <2>1. req'[q].run = req[q].run /\ (At(q, "announce") \/ MemoryUpdate(q)) /\ req[q].run \in Runs
      BY <1>1, AnnounceStep DEF TypeOK, Request
    <2>2. CASE At(q, "announce")
      BY <2>1, <2>2, FinalStep DEF ReportInv, RunOf
    <2>3. CASE MemoryUpdate(q)
      <3>1. req[q].kind \in FinishingKinds
        BY <1>1, <2>3 DEF MemoryUpdate, Goto, AfterUpdate, TypeOK, Request
      <3>2. WantedStatus[req[q].kind] \in FinalStatuses
        BY <3>1, WantedFinal
      <3>3. runs'[req[q].run] = UpdateRunStatus(runs[req[q].run], WantedStatus[req[q].kind])
        BY <2>1, <2>3 DEF MemoryUpdate, TypeOK
      <3> QED
        BY <2>1, <3>2, <3>3, UpdateRow DEF TypeOK, RunStatuses, IsTerminalRunStatus
    <2> QED
      BY <2>1, <2>2, <2>3
  <1>2. ASSUME NEW r \in Runs, NEW type \in TerminalEvents, type \in events'[r]
        PROVE  IsTerminalRunStatus(runs'[r].status)
    <2>1. IsTerminalRunStatus(runs[r].status)
      <3>1. CASE type \in events[r]
        BY <1>2, <3>1 DEF ReportInv, TerminalEventMeansTerminal
      <3>2. CASE type \notin events[r]
        BY <1>2, <3>2, EventsStep DEF Announce, ReportInv, RunOf
      <3> QED
        BY <3>1, <3>2
    <2> QED
      BY <2>1, FinalStep
  <1> QED
    BY <1>1, <1>2 DEF ReportInv, TerminalEventMeansTerminal, At, RunOf

\* Memory store: a terminal event in the log means that the run is finished.
THEOREM Reported == ASSUME Store = "memory" PROVE Spec => []TerminalEventMeansTerminal
  <1>1. Init => ReportInv
    BY DEF Init, ReportInv, TerminalEventMeansTerminal, Idle, At
  <1>2. IndInv /\ ReportInv /\ [Next]_vars => ReportInv'
    BY ReportStep DEF IndInv
  <1>3. ReportInv => TerminalEventMeansTerminal
    BY DEF ReportInv
  <1> QED
    BY <1>1, <1>2, <1>3, Inductive, PTL DEF Spec

-----------------------------------------------------------------------------
(***************************************************************************)
(* The memory store implements RunLifecycle.                               *)
(***************************************************************************)

\* The abstract variables.
Status == [r \in Runs |-> runs[r].status]
WithAnswer == {r \in Runs : answers[r] # {}}
WithReport == {r \in Runs : events[r] \cap TerminalEvents # {}}

\* Only AddAssistantMessage writes an answer.
LEMMA AnswersStep ==
    ASSUME TypeOK, [Next]_vars, answers' # answers
    PROVE  \E q \in Requests : AddAssistantMessage(q)
  <1>1. \A q \in Requests : ~Receive(q) /\ ~StoreError(q)
    BY DEF Receive, ReceiveCreate, ReceiveCancel, DispatchFails, ReceiveFromRuntime, StoreError, rows
  <1>2. ~Crash /\ ~UNCHANGED vars /\ \A r \in Runs : ~LeaseExpires(r) /\ \A a \in Attempts : ~ClaimRun(r, a)
    BY DEF Crash, rows, vars, LeaseExpires, ClaimRun
  <1>3. PICK q \in Requests : HandlerStep(q)
    BY <1>1, <1>2 DEF Next
  <1> QED
    BY <1>3 DEF HandlerStep, AddUserMessage, CommitQuota, QueuedEvent, Dispatch, CheckAttempt,
       WriteEvent, SaveUsage, SinkGetRun, RegisterArtifacts, GetArtifact, AddArtifact, ArtifactEvent,
       MemoryUpdate, PostgresRead, PostgresWrite, Announce, rows

\* The log of a run only grows.
LEMMA EventsGrow ==
    ASSUME TypeOK, [Next]_vars, NEW r \in Runs
    PROVE  events[r] \subseteq events'[r]
  <1>1. CASE \E s \in Runs : \E type : LogEvent(s, type)
    BY <1>1 DEF LogEvent, TypeOK
  <1>2. CASE UNCHANGED events
    BY <1>2
  <1>3. ASSUME NEW q \in Requests, Receive(q)
        PROVE  UNCHANGED events
    BY <1>3 DEF Receive, ReceiveCreate, ReceiveCancel, DispatchFails, ReceiveFromRuntime, rows
  <1>4. ASSUME NEW q \in Requests, HandlerStep(q)
        PROVE  UNCHANGED events \/ \E s \in Runs : \E type : LogEvent(s, type)
    <2>1. req[q].run \in Runs
      BY DEF TypeOK, Request
    <2>2. CASE QueuedEvent(q) \/ WriteEvent(q) \/ ArtifactEvent(q) \/ Announce(q)
      BY <2>1, <2>2 DEF QueuedEvent, WriteEvent, ArtifactEvent, Announce
    <2> QED
      BY <1>4, <2>2 DEF HandlerStep, AddUserMessage, CommitQuota, Dispatch, CheckAttempt, SaveUsage,
         SinkGetRun, RegisterArtifacts, GetArtifact, AddArtifact, AddAssistantMessage, MemoryUpdate,
         PostgresRead, PostgresWrite, rows
  <1>5. ASSUME NEW q \in Requests, StoreError(q)
        PROVE  UNCHANGED events
    BY <1>5 DEF StoreError, rows
  <1>6. ASSUME \/ Crash \/ UNCHANGED vars
               \/ \E s \in Runs : LeaseExpires(s) \/ \E a \in Attempts : ClaimRun(s, a)
        PROVE  UNCHANGED events
    BY <1>6 DEF Crash, LeaseExpires, ClaimRun, rows, vars
  <1> QED
    BY <1>1, <1>2, <1>3, <1>4, <1>5, <1>6 DEF Next

\* A step that changes a status is Queue, Move or Finish of one run.
LEMMA StatusStep ==
    ASSUME Store = "memory", IndInv, [Next]_vars, Status' # Status
    PROVE  \E r \in Runs :
              /\ UNCHANGED <<answers, events>>
              /\ Status' = [Status EXCEPT ![r] = runs'[r].status]
              /\ \/ runs[r].status = "absent" /\ runs'[r].status = "queued"
                 \/ /\ runs[r].status \in ActiveStatuses
                    /\ runs'[r].status \in {"running", "waiting_for_approval"}
                 \/ /\ runs[r].status \in ActiveStatuses
                    /\ runs'[r].status \in FinalStatuses
                    /\ runs'[r].status = "succeeded" => answers[r] # {}
  <1> USE DEF IndInv
  <1>1. runs' # runs
    BY DEF Status
  <1> PICK r \in Runs :
        /\ \A x \in Runs \ {r} : runs'[x] = runs[x]
        /\ \/ \E q \in Requests : AddUserMessage(q) /\ r = req[q].run
           \/ \E q \in Requests : MemoryUpdate(q) /\ r = req[q].run
           \/ \E a \in Attempts : ClaimRun(r, a)
           \/ LeaseExpires(r)
    BY <1>1, MemoryRows
  <1>2. Status' = [Status EXCEPT ![r] = runs'[r].status]
    BY DEF Status
  <1>3. UNCHANGED <<answers, events>>
    BY DEF AddUserMessage, MemoryUpdate, ClaimRun, LeaseExpires
  <1>4. runs'[r].status # runs[r].status
    BY <1>2 DEF Status
  <1>5. ASSUME NEW q \in Requests, AddUserMessage(q), r = req[q].run
        PROVE  runs[r].status = "absent" /\ runs'[r].status = "queued"
    BY <1>5, RowsStay DEF AddUserMessage, CreationInv, RunOf, TypeOK
  <1>6. ASSUME NEW q \in Requests, MemoryUpdate(q), r = req[q].run
        PROVE  /\ runs[r].status \in ActiveStatuses
               /\ \/ runs'[r].status \in {"running", "waiting_for_approval"}
                  \/ /\ runs'[r].status \in FinalStatuses
                     /\ runs'[r].status = "succeeded" => answers[r] # {}
    <2> DEFINE st == WantedStatus[req[q].kind]
    <2>1. req[q].kind \in DOMAIN WantedStatus
      BY <1>6 DEF MemoryUpdate, At, PhaseInv, PhaseOK
    <2>2. st \in {"running", "waiting_for_approval"} \cup FinalStatuses
      BY <2>1 DEF WantedStatus, FinalStatuses
    <2>3. st = "succeeded" => answers[r] # {}
      BY <1>6, <2>1, WantedFinal DEF MemoryUpdate, At, SettledInv, Answered
    <2>4. runs'[r] = UpdateRunStatus(runs[r], st)
      BY <1>6 DEF MemoryUpdate, TypeOK
    <2>5. runs[r] \in Run /\ runs[r].status # "absent" /\ runs[r].status \in RunStatuses
      BY <1>6 DEF MemoryUpdate, At, CreationInv, RunOf, TypeOK, Run
    <2>6. st \in RunStatuses
      BY <2>2 DEF RunStatuses, ActiveStatuses
    <2> HIDE DEF st
    <2>7. ~IsTerminalRunStatus(runs[r].status) /\ runs'[r].status = st
      BY <1>4, <2>4, <2>5, <2>6, UpdateRow
    <2> QED
      BY <2>2, <2>3, <2>5, <2>7 DEF RunStatuses, IsTerminalRunStatus
  <1>7. ASSUME NEW a \in Attempts, ClaimRun(r, a)
        PROVE  runs[r].status \in ActiveStatuses /\ runs'[r].status = "running"
    <2>1. runs'[r] = ClaimRunAttempt(runs[r], a) /\ runs[r] \in Run
      BY <1>7 DEF ClaimRun, TypeOK
    <2>2. runs[r].status # "absent"
      BY <1>7 DEF ClaimRun, CreationInv
    <2> QED
      BY <1>4, <2>1, <2>2 DEF ClaimRunAttempt, Run, RunStatuses, IsTerminalRunStatus
  <1>8. ~LeaseExpires(r)
    BY <1>4 DEF LeaseExpires, TypeOK, Run
  <1> QED
    BY <1>2, <1>3, <1>5, <1>6, <1>7, <1>8

\* Memory store: the handlers, interleaved store call by store call, implement
\* RunLifecycle.
THEOREM Refinement == ASSUME Store = "memory" PROVE Spec => ImplementsLifecycle
  <1> USE DEF Lifecycle!vars
  <1>1. Init => Lifecycle!Init
    BY DEF Init, Lifecycle!Init, NoRun
  <1>2. IndInv /\ ReportInv /\ [Next]_vars => [Lifecycle!Next]_(Lifecycle!vars)
    <2> SUFFICES ASSUME IndInv, ReportInv, [Next]_vars
                 PROVE  Lifecycle!Next \/ UNCHANGED <<Status, WithAnswer, WithReport>>
      BY DEF Status, WithAnswer, WithReport
    <2>1. CASE Status' # Status
      <3> PICK r \in Runs :
            /\ UNCHANGED <<answers, events>>
            /\ Status' = [Status EXCEPT ![r] = runs'[r].status]
            /\ \/ runs[r].status = "absent" /\ runs'[r].status = "queued"
               \/ /\ runs[r].status \in ActiveStatuses
                  /\ runs'[r].status \in {"running", "waiting_for_approval"}
               \/ /\ runs[r].status \in ActiveStatuses
                  /\ runs'[r].status \in FinalStatuses
                  /\ runs'[r].status = "succeeded" => answers[r] # {}
        BY <2>1, StatusStep
      <3>1. Lifecycle!Queue(r) \/ Lifecycle!Move(r) \/ Lifecycle!Finish(r)
        BY DEF Lifecycle!Queue, Lifecycle!Move, Lifecycle!Finish, Lifecycle!Active, Lifecycle!Final,
               ActiveStatuses, FinalStatuses, Status
      <3>2. CASE Lifecycle!Queue(r)
        BY <3>2 DEF Lifecycle!Next
      <3>3. CASE Lifecycle!Move(r)
        BY <3>3 DEF Lifecycle!Next
      <3>4. CASE Lifecycle!Finish(r)
        BY <3>4 DEF Lifecycle!Next
      <3> QED
        BY <3>1, <3>2, <3>3, <3>4
    <2>2. CASE answers' # answers
      <3> PICK q \in Requests : AddAssistantMessage(q)
        BY <2>2, AnswersStep DEF IndInv
      <3> PICK r \in Runs : r = req[q].run
        BY DEF IndInv, TypeOK, Request
      <3>1. runs[r].status # "absent"
        BY DEF AddAssistantMessage, At, IndInv, CreationInv, RunOf
      <3>2. UNCHANGED <<runs, events>> /\ WithAnswer' = WithAnswer \cup {r}
        BY DEF AddAssistantMessage, WithAnswer, IndInv, TypeOK
      <3>3. Lifecycle!Answer(r)
        BY <3>1, <3>2 DEF Lifecycle!Answer, WithAnswer
      <3> QED
        BY <3>3 DEF Lifecycle!Next
    <2>3. CASE Status' = Status /\ answers' = answers /\ WithReport' # WithReport
      <3>1. PICK r \in Runs, type \in TerminalEvents : type \in events'[r] /\ type \notin events[r]
        <4>1. \A r \in Runs : events[r] \subseteq events'[r]
          BY EventsGrow DEF IndInv
        <4> QED
          BY <2>3, <4>1 DEF WithReport
      <3>2. PICK q \in Requests : Announce(q) /\ req[q].run = r
        BY <3>1, EventsStep DEF IndInv
      <3>3. IsTerminalRunStatus(runs[r].status)
        BY <3>2 DEF Announce, ReportInv, RunOf
      <3>4. WithReport' = WithReport \cup {r}
        <4>1. \A s \in Runs : s # r => events'[s] = events[s]
          BY <3>2 DEF Announce, LogEvent, IndInv, TypeOK
        <4> QED
          BY <3>1, <4>1 DEF WithReport
      <3>5. Lifecycle!Report(r)
        BY <2>3, <3>3, <3>4 DEF Lifecycle!Report, Lifecycle!Final, IsTerminalRunStatus, FinalStatuses,
           Status, WithReport
      <3> QED
        BY <3>5 DEF Lifecycle!Next
    <2> QED
      BY <2>1, <2>2, <2>3 DEF WithAnswer
  <1>3. Init => ReportInv
    BY DEF Init, ReportInv, TerminalEventMeansTerminal, Idle, At
  <1>4. IndInv /\ ReportInv /\ [Next]_vars => ReportInv'
    BY ReportStep DEF IndInv
  <1> QED
    BY <1>1, <1>2, <1>3, <1>4, Inductive, PTL DEF Spec, ImplementsLifecycle, Lifecycle!Spec

-----------------------------------------------------------------------------
(***************************************************************************)
(* The memory store: a finish is reported.                                 *)
(***************************************************************************)

\* A finished run has its event in the log, or a request that is about to
\* write it.
FinishInv ==
    \A r \in Runs : IsTerminalRunStatus(runs[r].status) =>
        \/ EventOf(runs[r].status) \in events[r]
        \/ \E q \in Requests : /\ At(q, "announce") /\ req[q].run = r
                               /\ WantedStatus[req[q].kind] = runs[r].status

\* Memory store: a request about to report a finish stays there until it has.
LEMMA AnnouncerStays ==
    ASSUME Store = "memory", TypeOK, PhaseInv, [Next]_vars,
           NEW q \in Requests, At(q, "announce")
    PROVE  req'[q] = req[q] \/ Announce(q)
  <1>1. CASE UNCHANGED req
    BY <1>1
  <1>2. ASSUME NEW p \in Requests, Receive(p)
        PROVE  req'[q] = req[q]
    <2>1. At(p, "idle") /\ \E t : req' = [req EXCEPT ![p] = t]
      BY <1>2 DEF Receive, ReceiveCreate, ReceiveCancel, DispatchFails, ReceiveFromRuntime
    <2> QED
      BY <2>1 DEF At, TypeOK
  <1>3. ASSUME NEW p \in Requests, HandlerStep(p), p # q
        PROVE  req'[q] = req[q]
    <2>1. CASE At(p, "add_user_message")
      <3>1. AddUserMessage(p)
        BY <1>3, <2>1, FirstCall
      <3> QED
        BY <1>3, <3>1 DEF AddUserMessage, Goto, TypeOK
    <2>2. CASE ~At(p, "add_user_message")
      BY <1>3, <2>2, HandlersAdvance DEF Advances
    <2> QED
      BY <2>1, <2>2
  <1>4. HandlerStep(q) => Announce(q)
    BY DEF HandlerStep, AddUserMessage, CommitQuota, QueuedEvent, Dispatch, CheckAttempt, WriteEvent,
       SaveUsage, SinkGetRun, RegisterArtifacts, GetArtifact, AddArtifact, ArtifactEvent,
       AddAssistantMessage, MemoryUpdate, PostgresRead, PostgresWrite, At
  <1>5. ~Crash /\ \A p \in Requests : ~StoreError(p)
    BY DEF Crash, StoreError
  <1>6. CASE \E r \in Runs : LeaseExpires(r) \/ \E a \in Attempts : ClaimRun(r, a)
    BY <1>1, <1>6 DEF LeaseExpires, ClaimRun
  <1>7. CASE \E p \in Requests : Receive(p) \/ HandlerStep(p)
    BY <1>2, <1>3, <1>4, <1>7
  <1> QED
    BY <1>1, <1>5, <1>6, <1>7 DEF Next, vars

\* What a claim does to a row that is not finished.
LEMMA ClaimRow ==
    ASSUME NEW run \in Run, NEW a \in Attempts, ~IsTerminalRunStatus(run.status)
    PROVE  /\ ClaimRunAttempt(run, a).status = "running"
           /\ ClaimRunAttempt(run, a).attempt = a
           /\ ClaimRunAttempt(run, a).attemptCount =
                 IF run.attempt = a THEN run.attemptCount ELSE run.attemptCount + 1
  BY DEF ClaimRunAttempt, Run

\* Memory store: only the status write of a finishing handler finishes a run.
LEMMA FinishedBy ==
    ASSUME Store = "memory", TypeOK, PhaseInv, CreationInv, [Next]_vars, NEW r \in Runs,
           ~IsTerminalRunStatus(runs[r].status), IsTerminalRunStatus(runs'[r].status)
    PROVE  \E q \in Requests : /\ req'[q].pc = "announce" /\ req'[q].run = r
                               /\ WantedStatus[req'[q].kind] = runs'[r].status
  <1> PICK s \in Runs :
        /\ \A x \in Runs \ {s} : runs'[x] = runs[x]
        /\ \/ \E q \in Requests : AddUserMessage(q) /\ s = req[q].run
           \/ \E q \in Requests : MemoryUpdate(q) /\ s = req[q].run
           \/ \E a \in Attempts : ClaimRun(s, a)
           \/ LeaseExpires(s)
    BY MemoryRows
  <1>1. s = r
    OBVIOUS
  <1>2. ASSUME NEW q \in Requests, AddUserMessage(q), r = req[q].run
        PROVE  FALSE
    BY <1>2, RowsStay DEF AddUserMessage, TypeOK, IsTerminalRunStatus, FinalStatuses
  <1>3. ASSUME NEW a \in Attempts, ClaimRun(r, a)
        PROVE  FALSE
    <2>1. runs'[r] = ClaimRunAttempt(runs[r], a) /\ runs[r] \in Run
      BY <1>3 DEF ClaimRun, TypeOK
    <2>2. runs'[r].status = "running"
      BY <2>1, ClaimRow
    <2> QED
      BY <2>2 DEF IsTerminalRunStatus, FinalStatuses
  <1>4. ~LeaseExpires(r)
    BY DEF LeaseExpires, TypeOK, Run
  <1>5. PICK q \in Requests : MemoryUpdate(q) /\ r = req[q].run
    BY <1>1, <1>2, <1>3, <1>4
  <1>6. req[q].kind \in DOMAIN WantedStatus
    BY <1>5 DEF MemoryUpdate, At, PhaseInv, PhaseOK
  <1>7. WantedStatus[req[q].kind] \in RunStatuses
    BY <1>6, WantedStatusType
  <1>8. runs'[r] = UpdateRunStatus(runs[r], WantedStatus[req[q].kind])
    BY <1>5 DEF MemoryUpdate, TypeOK
  <1>9. runs'[r].status = WantedStatus[req[q].kind]
    BY <1>7, <1>8, UpdateRow DEF TypeOK
  <1>10. req[q].kind \in FinishingKinds
    BY <1>6, <1>9 DEF WantedStatus, FinishingKinds, IsTerminalRunStatus, FinalStatuses
  <1>11. req'[q] = [req[q] EXCEPT !.pc = "announce"]
    BY <1>5, <1>10 DEF MemoryUpdate, Goto, AfterUpdate, TypeOK
  <1>12. req'[q].pc = "announce" /\ req'[q].run = r /\ req'[q].kind = req[q].kind
    BY <1>5, <1>11 DEF TypeOK, Request
  <1> QED
    BY <1>9, <1>12

\* Memory store: every step preserves that a finish is reported or about to be.
LEMMA FinishStep ==
    ASSUME Store = "memory", TypeOK, PhaseInv, CreationInv, FinishInv, [Next]_vars
    PROVE  FinishInv'
  <1> SUFFICES ASSUME NEW r \in Runs, IsTerminalRunStatus(runs'[r].status)
               PROVE  \/ EventOf(runs'[r].status) \in events'[r]
                      \/ \E q \in Requests : /\ req'[q].pc = "announce" /\ req'[q].run = r
                                             /\ WantedStatus[req'[q].kind] = runs'[r].status
    BY DEF FinishInv, At
  <1>1. CASE ~IsTerminalRunStatus(runs[r].status)
    BY <1>1, FinishedBy
  <1>2. CASE IsTerminalRunStatus(runs[r].status)
    <2>1. runs'[r].status = runs[r].status
      BY <1>2, FinalStep
    <2>2. CASE EventOf(runs[r].status) \in events[r]
      BY <2>1, <2>2, EventsGrow
    <2>3. ASSUME NEW q \in Requests, At(q, "announce"), req[q].run = r,
                 WantedStatus[req[q].kind] = runs[r].status
          PROVE  \/ EventOf(runs'[r].status) \in events'[r]
                 \/ /\ req'[q].pc = "announce" /\ req'[q].run = r
                    /\ WantedStatus[req'[q].kind] = runs'[r].status
      <3>1. CASE req'[q] = req[q]
        BY <2>1, <2>3, <3>1 DEF At
      <3>2. CASE Announce(q)
        <4>1. events'[r] = events[r] \cup {EventOf(WantedStatus[req[q].kind])}
          BY <2>3, <3>2 DEF Announce, LogEvent, TypeOK
        <4> QED
          BY <2>1, <2>3, <4>1
      <3> QED
        BY <2>3, <3>1, <3>2, AnnouncerStays
    <2> QED
      BY <1>2, <2>2, <2>3 DEF FinishInv
  <1> QED
    BY <1>1, <1>2

\* Memory store: once the handlers on a finished run are through, its log holds
\* the event of the status it finished with.
THEOREM FinishReported == ASSUME Store = "memory" PROVE Spec => []FinishIsReported
  <1>1. Init => FinishInv
    BY DEF Init, FinishInv, NoRun, IsTerminalRunStatus, FinalStatuses
  <1>2. IndInv /\ FinishInv /\ [Next]_vars => FinishInv'
    BY FinishStep DEF IndInv
  <1>3. FinishInv => FinishIsReported
    BY DEF FinishInv, FinishIsReported, At
  <1> QED
    BY <1>1, <1>2, <1>3, Inductive, PTL DEF Spec

-----------------------------------------------------------------------------
(***************************************************************************)
(* Both stores: the attempt fence bounds the answers.                      *)
(***************************************************************************)

\* Where a complete is that has passed the fence and has not written its answer.
Fenced == {"save_usage"} \cup (Charged \ Answered)
Answering(q, r) == req[q].kind = "complete" /\ req[q].run = r /\ req[q].pc \in Fenced

\* The attempts that have answered a run, may still answer it, or hold it.
Held(r) ==
    answers[r] \cup {a \in Attempts : \/ runs[r].attempt = a
                                      \/ \E q \in Requests : Answering(q, r) /\ req[q].attempt = a}

\* Every attempt that holds or held a run and may have answered it is counted
\* by attempt_count; a run without a row has counted none.
HeldOK(r) ==
    /\ IsFiniteSet(Held(r)) /\ Cardinality(Held(r)) <= runs[r].attemptCount
    /\ runs[r].status = "absent" => runs[r].attemptCount = 0

HeldInv == \A r \in Runs : HeldOK(r)

-----------------------------------------------------------------------------
\* A request that has just been received has not passed the fence.
LEMMA ReceivedPC ==
    ASSUME TypeOK, NEW p \in Requests, Receive(p)
    PROVE  /\ \A q \in Requests : q # p => req'[q] = req[q]
           /\ req'[p].pc \notin Fenced \/ req'[p].kind # "complete"
  <1>1. ASSUME NEW r \in Runs, ReceiveCreate(p, r)
        PROVE  req'[p].kind = "create"
    BY <1>1, IdleType DEF ReceiveCreate, TypeOK, Request
  <1>2. ASSUME NEW r \in Runs, ReceiveCancel(p, r)
        PROVE  req'[p].kind = "cancel"
    BY <1>2, IdleType DEF ReceiveCancel, TypeOK, Request
  <1>3. ASSUME NEW r \in Runs, DispatchFails(p, r)
        PROVE  req'[p].kind = "dispatch_fail"
    BY <1>3, IdleType DEF DispatchFails, TypeOK, Request
  <1>4. ASSUME NEW r \in Runs, NEW kind \in RuntimeCalls, NEW a \in Attempts,
               NEW arts \in SUBSET Artifacts, ReceiveFromRuntime(p, kind, r, a, arts)
        PROVE  req'[p].pc = "check"
    BY <1>4, IdleType DEF ReceiveFromRuntime, TypeOK, Request
  <1>5. \E t : req' = [req EXCEPT ![p] = t]
    BY DEF Receive, ReceiveCreate, ReceiveCancel, DispatchFails, ReceiveFromRuntime
  <1>6. \A q \in Requests : q # p => req'[q] = req[q]
    BY <1>5 DEF TypeOK
  <1>7. "check" \notin Fenced
    BY DEF Fenced, Charged, Answered
  <1> QED
    BY <1>1, <1>2, <1>3, <1>4, <1>6, <1>7 DEF Receive

\* A complete only gets past the fence for the attempt that holds the run.
LEMMA FenceStep ==
    ASSUME TypeOK, PhaseInv, [Next]_vars, NEW q \in Requests,
           req'[q].kind = "complete", req'[q].pc \in Fenced
    PROVE  /\ req[q].kind = "complete"
           /\ req'[q].run = req[q].run /\ req'[q].attempt = req[q].attempt
           /\ req[q].pc \in Fenced \/ req[q].attempt = RunOf(q).attempt
  <1>1. CASE req'[q] = req[q]
    BY <1>1
  <1>2. ASSUME HandlerStep(q)
        PROVE  /\ req[q].kind = "complete"
               /\ req'[q].run = req[q].run /\ req'[q].attempt = req[q].attempt
               /\ req[q].pc \in Fenced \/ req[q].attempt = RunOf(q).attempt
    <2>1. ~At(q, "add_user_message")
      <3>1. SUFFICES ASSUME At(q, "add_user_message")
                     PROVE  FALSE
        OBVIOUS
      <3>2. AddUserMessage(q)
        BY <1>2, <3>1, FirstCall
      <3>3. req'[q].pc = "commit_quota"
        BY <3>2 DEF AddUserMessage, Goto, TypeOK, Request
      <3> QED
        BY <3>3 DEF Fenced, Charged, Answered
    <2>2. Advances(q)
      BY <1>2, <2>1, HandlersAdvance
    <2>3. /\ req[q].kind = "complete"
          /\ req'[q].run = req[q].run /\ req'[q].attempt = req[q].attempt
      BY <2>2 DEF Advances
    <2>4. ASSUME req[q].pc \notin Fenced
          PROVE  req[q].attempt = RunOf(q).attempt
      <3>1. ~CommitQuota(q) /\ ~QueuedEvent(q) /\ ~Dispatch(q) /\ ~WriteEvent(q)
        BY <2>3 DEF CommitQuota, QueuedEvent, Dispatch, WriteEvent, At, PhaseInv, PhaseOK, EventKinds
      <3>2. /\ ~SaveUsage(q) /\ ~SinkGetRun(q) /\ ~RegisterArtifacts(q) /\ ~GetArtifact(q)
            /\ ~AddArtifact(q) /\ ~ArtifactEvent(q) /\ ~AddAssistantMessage(q)
        BY <2>4 DEF SaveUsage, SinkGetRun, RegisterArtifacts, GetArtifact, AddArtifact,
           ArtifactEvent, AddAssistantMessage, At, Fenced, Charged, Answered
      <3>3. ~MemoryUpdate(q) /\ ~PostgresRead(q) /\ ~PostgresWrite(q) /\ ~Announce(q)
        <4> SUFFICES req'[q].pc \in {"write", "announce", "done"} \/
                     (~MemoryUpdate(q) /\ ~PostgresRead(q) /\ ~PostgresWrite(q) /\ ~Announce(q))
          BY DEF Fenced, Charged, Answered
        <4> USE DEF AfterUpdate, Goto, TypeOK, Request
        <4>1. MemoryUpdate(q) => req'[q].pc \in {"announce", "done"}
          BY DEF MemoryUpdate
        <4>2. PostgresRead(q) => req'[q].pc \in {"write", "announce", "done"}
          BY DEF PostgresRead
        <4>3. PostgresWrite(q) => req'[q].pc \in {"announce", "done"}
          BY DEF PostgresWrite
        <4>4. Announce(q) => req'[q].pc = "done"
          BY DEF Announce
        <4> QED
          BY <4>1, <4>2, <4>3, <4>4
      <3>4. CheckAttempt(q)
        BY <1>2, <2>1, <3>1, <3>2, <3>3 DEF HandlerStep, AddUserMessage
      <3>5. req'[q].pc # "done"
        BY DEF Fenced, Charged, Answered
      <3> QED
        BY <3>4, <3>5 DEF CheckAttempt, CheckRunAttempt, Goto, TypeOK, Request
    <2> QED
      BY <2>3, <2>4
  <1>3. ASSUME NEW p \in Requests, HandlerStep(p), p # q
        PROVE  req'[q] = req[q]
    <2>1. CASE At(p, "add_user_message")
      <3>1. AddUserMessage(p)
        BY <1>3, <2>1, FirstCall
      <3> QED
        BY <1>3, <3>1 DEF AddUserMessage, Goto, TypeOK
    <2>2. CASE ~At(p, "add_user_message")
      BY <1>3, <2>2, HandlersAdvance DEF Advances
    <2> QED
      BY <2>1, <2>2
  <1>4. ASSUME NEW p \in Requests, Receive(p)
        PROVE  req'[q] = req[q]
    BY <1>4, ReceivedPC
  <1>5. ASSUME NEW p \in Requests, StoreError(p)
        PROVE  req'[q] = req[q]
    <2>1. CASE p = q
      <3>1. req'[q].pc \in {"dispatch", "announce", "done"}
        BY <1>5, <2>1 DEF StoreError, TypeOK, Request
      <3> QED
        BY <3>1 DEF Fenced, Charged, Answered
    <2>2. CASE p # q
      BY <1>5, <2>2 DEF StoreError, TypeOK
    <2> QED
      BY <2>1, <2>2
  <1>6. Crash => req'[q] = req[q]
    <2> SUFFICES ASSUME Crash PROVE req'[q] = req[q]
      OBVIOUS
    <2>1. req'[q] = req[q] \/ req'[q].pc = "done"
      BY DEF Crash, TypeOK, Request
    <2> QED
      BY <2>1 DEF Fenced, Charged, Answered
  <1>7. ASSUME NEW r \in Runs, LeaseExpires(r) \/ \E a \in Attempts : ClaimRun(r, a)
        PROVE  req'[q] = req[q]
    BY <1>7 DEF LeaseExpires, ClaimRun
  <1>8. CASE \E p \in Requests : Receive(p) \/ HandlerStep(p) \/ StoreError(p)
    BY <1>1, <1>2, <1>3, <1>4, <1>5, <1>8
  <1> QED
    BY <1>1, <1>6, <1>7, <1>8 DEF Next, vars

\* What the row operations do to the attempt that holds a run, and to its count.
LEMMA RowsHolder ==
    /\ QueuedRun.attempt = NoAttempt /\ QueuedRun.attemptCount = 0
    /\ \A run \in Run, st \in RunStatuses :
          /\ UpdateRunStatus(run, st).attempt = run.attempt
          /\ UpdateRunStatus(run, st).attemptCount = run.attemptCount
          /\ \A seen \in Run :
                /\ WriteRunStatus(run, seen, st).attempt = run.attempt
                /\ WriteRunStatus(run, seen, st).attemptCount = run.attemptCount
  BY DEF QueuedRun, NoRun, UpdateRunStatus, WriteRunStatus, Run

\* Only a claim gives a run to an attempt.
LEMMA HolderStep ==
    ASSUME TypeOK, PhaseInv, CreationInv, [Next]_vars, NEW r \in Runs
    PROVE  \/ /\ runs'[r].attempt = runs[r].attempt
              /\ runs'[r].attemptCount = runs[r].attemptCount
              /\ runs'[r].status = "absent" => runs[r].status = "absent"
           \/ /\ runs'[r].attempt = NoAttempt /\ runs'[r].attemptCount = 0
              /\ runs[r].status = "absent"
           \/ \E a \in Attempts :
                 /\ runs'[r].attempt = a /\ runs'[r].attemptCount = runs[r].attemptCount + 1
                 /\ runs'[r].status # "absent"
  <1> DEFINE Kept == /\ runs'[r].attempt = runs[r].attempt
                     /\ runs'[r].attemptCount = runs[r].attemptCount
                     /\ runs'[r].status = "absent" => runs[r].status = "absent"
  <1>0. runs[r] \in Run
    BY DEF TypeOK
  <1>1. CASE runs'[r] = runs[r]
    BY <1>1
  <1>2. ASSUME NEW q \in Requests, AddUserMessage(q), req[q].run = r
        PROVE  /\ runs'[r].attempt = NoAttempt /\ runs'[r].attemptCount = 0
               /\ runs[r].status = "absent"
    <2>1. runs'[r] = QueuedRun
      BY <1>2 DEF AddUserMessage, TypeOK
    <2> QED
      BY <1>2, <2>1, RowsHolder DEF AddUserMessage, CreationInv, RunOf
  <1>3. ASSUME NEW q \in Requests, MemoryUpdate(q) \/ PostgresWrite(q), req[q].run = r
        PROVE  Kept
    <2>1. WantedStatus[req[q].kind] \in RunStatuses \ {"absent"} /\ req[q].seen \in Run
      BY <1>3, WantedStatusType
         DEF MemoryUpdate, PostgresWrite, At, PhaseInv, PhaseOK, TypeOK, Request
    <2>2. \/ runs'[r] = UpdateRunStatus(runs[r], WantedStatus[req[q].kind])
          \/ runs'[r] = WriteRunStatus(runs[r], req[q].seen, WantedStatus[req[q].kind])
      BY <1>3 DEF MemoryUpdate, PostgresWrite, TypeOK
    <2> QED
      BY <1>0, <2>1, <2>2, RowsHolder, RowsStay
  <1>4. ASSUME NEW q \in Requests, HandlerStep(q)
        PROVE  \/ runs'[r] = runs[r]
               \/ req[q].run = r /\ (AddUserMessage(q) \/ MemoryUpdate(q) \/ PostgresWrite(q))
    BY <1>4 DEF HandlerStep, AddUserMessage, CommitQuota, QueuedEvent, Dispatch, CheckAttempt,
       WriteEvent, SaveUsage, SinkGetRun, RegisterArtifacts, GetArtifact, AddArtifact, ArtifactEvent,
       AddAssistantMessage, MemoryUpdate, PostgresRead, PostgresWrite, Announce, rows, TypeOK, Request
  <1>5. ASSUME NEW s \in Runs, NEW a \in Attempts, ClaimRun(s, a), runs'[r] # runs[r]
        PROVE  Kept \/ \E b \in Attempts :
                 /\ runs'[r].attempt = b /\ runs'[r].attemptCount = runs[r].attemptCount + 1
                 /\ runs'[r].status # "absent"
    <2>1. s = r /\ runs'[r] = ClaimRunAttempt(runs[r], a)
      BY <1>5 DEF ClaimRun, TypeOK
    <2>2. ~IsTerminalRunStatus(runs[r].status)
      BY <1>5, <2>1 DEF ClaimRunAttempt
    <2>3. /\ runs'[r].status = "running" /\ runs'[r].attempt = a
          /\ runs'[r].attemptCount =
                 IF runs[r].attempt = a THEN runs[r].attemptCount ELSE runs[r].attemptCount + 1
      BY <1>0, <2>1, <2>2, ClaimRow
    <2>4. CASE runs[r].attempt = a
      BY <2>3, <2>4
    <2>5. CASE runs[r].attempt # a
      BY <2>3, <2>5
    <2> QED
      BY <2>4, <2>5
  <1>6. ASSUME NEW s \in Runs, LeaseExpires(s)
        PROVE  Kept
    <2>1. runs'[r] = runs[r] \/ runs'[r] = [runs[r] EXCEPT !.lease = "expired"]
      BY <1>6 DEF LeaseExpires, TypeOK
    <2> QED
      BY <1>0, <2>1 DEF Run
  <1>7. ASSUME NEW q \in Requests, Receive(q) \/ StoreError(q)
        PROVE  runs'[r] = runs[r]
    BY <1>7 DEF Receive, ReceiveCreate, ReceiveCancel, DispatchFails, ReceiveFromRuntime, StoreError, rows
  <1>8. Crash \/ UNCHANGED vars => runs'[r] = runs[r]
    BY DEF Crash, rows, vars
  <1>9. CASE \E q \in Requests : Receive(q) \/ HandlerStep(q) \/ StoreError(q)
    BY <1>1, <1>2, <1>3, <1>4, <1>7, <1>9
  <1>10. CASE \E s \in Runs : LeaseExpires(s) \/ \E a \in Attempts : ClaimRun(s, a)
    BY <1>1, <1>5, <1>6, <1>10
  <1> QED
    BY <1>1, <1>8, <1>9, <1>10 DEF Next

\* An answer is written by an attempt that has passed the fence.
LEMMA AnswersFenced ==
    ASSUME TypeOK, PhaseInv, [Next]_vars, NEW r \in Runs, NEW a \in answers'[r], a \notin answers[r]
    PROVE  \E q \in Requests : Answering(q, r) /\ req[q].attempt = a
  <1>1. PICK q \in Requests : AddAssistantMessage(q)
    BY AnswersStep
  <1>2. answers' = [answers EXCEPT ![req[q].run] = answers[req[q].run] \cup {req[q].attempt}]
    BY <1>1 DEF AddAssistantMessage
  <1>3. req[q].run = r /\ req[q].attempt = a
    BY <1>2 DEF TypeOK
  <1>4. req[q].kind = "complete" /\ req[q].pc \in Fenced
    BY <1>1 DEF AddAssistantMessage, At, PhaseInv, PhaseOK, Fenced, Charged, Answered
  <1> QED
    BY <1>3, <1>4 DEF Answering

\* A step adds at most the new holder of a run to those who may answer it.
LEMMA HeldGrows ==
    ASSUME TypeOK, TypeOK', PhaseInv, [Next]_vars, NEW r \in Runs
    PROVE  Held(r)' \subseteq Held(r) \cup ({runs'[r].attempt} \ {NoAttempt})
  <1> SUFFICES ASSUME NEW a \in Held(r)', a # runs'[r].attempt
               PROVE  a \in Held(r)
    BY NoAttemptAssumption DEF Held, TypeOK
  <1>1. a \in Attempts
    BY DEF Held, TypeOK
  <1>2. CASE a \in answers'[r]
    <2>1. CASE a \in answers[r]
      BY <2>1 DEF Held
    <2>2. CASE a \notin answers[r]
      BY <1>1, <1>2, <2>2, AnswersFenced DEF Held
    <2> QED
      BY <2>1, <2>2
  <1>3. ASSUME NEW q \in Requests, Answering(q, r)', req'[q].attempt = a
        PROVE  a \in Held(r)
    BY <1>1, <1>3, FenceStep DEF Held, Answering, RunOf
  <1> QED
    BY <1>1, <1>2, <1>3 DEF Held

\* Every step preserves that attempt_count covers the attempts that may answer.
LEMMA HeldStep ==
    ASSUME TypeOK, PhaseInv, CreationInv, HeldInv, [Next]_vars
    PROVE  HeldInv'
  <1> SUFFICES ASSUME NEW r \in Runs
               PROVE  /\ IsFiniteSet(Held(r)') /\ Cardinality(Held(r)') <= runs'[r].attemptCount
                      /\ runs'[r].status = "absent" => runs'[r].attemptCount = 0
    BY DEF HeldInv, HeldOK
  <1>0. TypeOK'
    BY BaseStep
  <1> DEFINE Old == Held(r)
             New == Held(r)'
             n == runs[r].attemptCount
             m == runs'[r].attemptCount
  <1>1. New \subseteq Old \cup ({runs'[r].attempt} \ {NoAttempt})
    BY <1>0, HeldGrows
  <1>2. IsFiniteSet(Old) /\ Cardinality(Old) <= n
    BY DEF HeldInv, HeldOK
  <1>3. n \in Nat /\ m \in Nat
    BY <1>0 DEF TypeOK, Run
  <1>4. runs[r].attempt \in Old \cup {NoAttempt} /\ runs[r].attempt \in Attempts \cup {NoAttempt}
    BY DEF Held, TypeOK, Run
  <1>5. runs[r].status = "absent" => n = 0
    BY DEF HeldInv, HeldOK
  <1>6. Cardinality(Old) \in Nat
    BY <1>2, FS_CardinalityType
  <1>7. ASSUME New \subseteq Old
        PROVE  IsFiniteSet(New) /\ Cardinality(New) <= Cardinality(Old) /\ Cardinality(New) \in Nat
    <2>1. IsFiniteSet(New) /\ Cardinality(New) <= Cardinality(Old)
      BY <1>2, <1>7, FS_Subset
    <2> QED
      BY <2>1, FS_CardinalityType
  <1>8. ASSUME NEW a \in Attempts, New \subseteq Old \cup {a}
        PROVE  IsFiniteSet(New) /\ Cardinality(New) <= Cardinality(Old) + 1 /\ Cardinality(New) \in Nat
    <2>1. /\ IsFiniteSet(Old \cup {a})
          /\ Cardinality(Old \cup {a}) = Cardinality(Old) \/ Cardinality(Old \cup {a}) = Cardinality(Old) + 1
      BY <1>2, FS_AddElement
    <2>2. Cardinality(Old \cup {a}) <= Cardinality(Old) + 1
      BY <1>6, <2>1
    <2>3. IsFiniteSet(New) /\ Cardinality(New) <= Cardinality(Old \cup {a})
      BY <1>8, <2>1, FS_Subset
    <2>4. Cardinality(New) \in Nat /\ Cardinality(Old \cup {a}) \in Nat
      BY <2>1, <2>3, FS_CardinalityType
    <2> QED
      BY <1>6, <2>2, <2>3, <2>4
  <1> HIDE DEF Old, New
  <1>9. CASE /\ runs'[r].attempt = runs[r].attempt /\ m = n
             /\ runs'[r].status = "absent" => runs[r].status = "absent"
    <2>1. New \subseteq Old
      BY <1>1, <1>4, <1>9
    <2> QED
      BY <1>2, <1>3, <1>5, <1>6, <1>7, <1>9, <2>1 DEF New
  <1>10. CASE runs'[r].attempt = NoAttempt /\ m = 0 /\ runs[r].status = "absent"
    <2>1. New \subseteq Old
      BY <1>1, <1>10
    <2> QED
      BY <1>2, <1>3, <1>5, <1>6, <1>7, <1>10, <2>1 DEF New
  <1>11. CASE \E a \in Attempts : /\ runs'[r].attempt = a /\ m = n + 1
                                  /\ runs'[r].status # "absent"
    <2> PICK a \in Attempts : runs'[r].attempt = a /\ m = n + 1 /\ runs'[r].status # "absent"
      BY <1>11
    <2>1. New \subseteq Old \cup {a}
      BY <1>1
    <2>2. IsFiniteSet(New) /\ Cardinality(New) <= Cardinality(Old) + 1 /\ Cardinality(New) \in Nat
      BY <1>8, <2>1
    <2>3. Cardinality(New) <= n + 1
      BY <1>2, <1>3, <1>6, <2>2
    <2> QED
      BY <2>2, <2>3 DEF New
  <1> QED
    BY <1>9, <1>10, <1>11, HolderStep

\* Both stores: however the lease moves from attempt to attempt, a run gets at
\* most one assistant message per attempt that was ever given it.
THEOREM AnswersBounded == Spec => []AnswersWithinAttempts
  <1>1. Init => HeldInv
    <2> SUFFICES ASSUME Init, NEW r \in Runs
                 PROVE  HeldOK(r)
      BY DEF HeldInv
    <2>1. Held(r) = {}
      BY NoAttemptAssumption DEF Init, Held, Answering, Idle, NoRun, Fenced, Charged, Answered
    <2>2. runs[r].attemptCount = 0
      BY DEF Init, NoRun
    <2> QED
      BY <2>1, <2>2, FS_EmptySet DEF HeldOK
  <1>2. IndInv /\ HeldInv /\ [Next]_vars => HeldInv'
    BY HeldStep DEF IndInv
  <1>3. IndInv /\ HeldInv => AnswersWithinAttempts
    <2> SUFFICES ASSUME IndInv, HeldInv, NEW r \in Runs
                 PROVE  Cardinality(answers[r]) <= runs[r].attemptCount
      BY DEF AnswersWithinAttempts
    <2>1. answers[r] \subseteq Held(r)
      BY DEF Held
    <2>2. IsFiniteSet(Held(r)) /\ Cardinality(Held(r)) <= runs[r].attemptCount
      BY DEF HeldInv, HeldOK
    <2>3. IsFiniteSet(answers[r]) /\ Cardinality(answers[r]) <= Cardinality(Held(r))
      BY <2>1, <2>2, FS_Subset
    <2>4. Cardinality(answers[r]) \in Nat /\ Cardinality(Held(r)) \in Nat
      BY <2>2, <2>3, FS_CardinalityType
    <2>5. runs[r].attemptCount \in Nat
      BY DEF IndInv, TypeOK, Run
    <2> QED
      BY <2>2, <2>3, <2>4, <2>5
  <1> QED
    BY <1>1, <1>2, <1>3, Inductive, PTL DEF Spec
=============================================================================
