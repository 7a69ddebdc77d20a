------------------------- MODULE AgentRuntimeProofs -------------------------
(***************************************************************************)
(* Theorems about the agent runtime. The first part is about RunWorker,    *)
(* for every set of runs, workers and attempts, every timing, and any      *)
(* number of failed calls and crashes. The second is about ModelCalls, for *)
(* every number of runs, slots, attempts and requests per minute.          *)
(***************************************************************************)
EXTENDS RunWorker, ModelCalls, FiniteSetTheorems, TLAPS

\* A worker that has a message, from its delivery to the end of ProcessNext.
Holding == {"retry_count", "dead_letter", "ack_dead", "fetch", "claim", "ack"} \cup Executing

\* A message a worker has was delivered, and as often at least as the worker's attempt says.
WorkerInv ==
    \A w \in Workers :
        IF worker[w].pc \in Holding
        THEN /\ RunOf(w) \in Runs /\ worker[w].attempt \in Attempts
             /\ msg[RunOf(w)].state \in {"pending", "acked"}
             /\ worker[w].attempt <= msg[RunOf(w)].count
        ELSE RunOf(w) = NoRunId

\* A message is added once, and new until it has been delivered.
StreamInv ==
    /\ \A i \in 1..Len(stream) :
         /\ msg[stream[i]].state # "none"
         /\ msg[stream[i]].state = "new" <=> i > delivered
    /\ \A i, j \in 1..Len(stream) : stream[i] = stream[j] => i = j

\* Only a lease that has run out is seen as expired.
LeaseInv == \A r \in Runs : runs[r].lease = "expired" => leaseLeft[r] = 0

ClaimedInv == \A r \in Runs : runs[r].attempt # NoAttempt => runs[r].attemptCount > 0

\* A claim was granted, or the run has ended.
Taken(r) == runs[r].attemptCount > 0 \/ IsTerminalRunStatus(runs[r].status)

NextTaken(r) == runs'[r].attemptCount > 0 \/ IsTerminalRunStatus(runs'[r].status)

AckInv ==
    \A w \in Workers :
        /\ worker[w].pc \in Executing \cup {"ack"} => Taken(RunOf(w))
        /\ worker[w].pc = "ack_dead" => RunOf(w) \in dlq

IInv ==
    /\ TypeOK /\ WorkerInv /\ StreamInv /\ LeaseInv /\ ClaimedInv /\ AckInv
    /\ DistinctAttempts /\ UnclaimedIsKept

\* What a step may do to the rows of the control plane.
RowsKept ==
    /\ runs' \in [Runs -> Run] /\ leaseLeft' \in [Runs -> 0..LeaseTicks]
    /\ LeaseInv' /\ ClaimedInv'
    /\ \A r \in Runs : Taken(r) => NextTaken(r)

Honoured ==
    \A r \in Runs : runs'[r].attempt # runs[r].attempt =>
        runs[r].attempt = NoAttempt \/ leaseLeft[r] = 0

\* What it may do to the messages without delivering one.
MessagesKept ==
    /\ msg' \in [Runs -> Message]
    /\ \A r \in Runs :
         /\ msg'[r].count = msg[r].count
         /\ \/ msg'[r].state = msg[r].state
            \/ /\ msg[r].state \in {"pending", "acked"} /\ msg'[r].state = "acked"
               /\ r \in dlq' \/ NextTaken(r)

\* Where a worker may go with the message it has, or without one.
WorkerKept(w, t) ==
    /\ t \in Worker
    /\ IF t.pc \in Holding
       THEN worker[w].pc \in Holding /\ t.run = RunOf(w) /\ t.attempt = worker[w].attempt
       ELSE t.run = NoRunId
    /\ t.pc \in Executing \cup {"ack"} => NextTaken(RunOf(w))
    /\ t.pc = "ack_dead" => RunOf(w) \in dlq'

-----------------------------------------------------------------------------
LEMMA UnchangedRows == ASSUME IInv, UNCHANGED rows PROVE RowsKept /\ Honoured
  BY DEF IInv, TypeOK, RowsKept, Honoured, rows, LeaseInv, ClaimedInv, Taken, NextTaken

\* A status is changed by a call the fence lets through, or by a user.
LEMMA StatusRows ==
    ASSUME IInv, NEW r \in Runs, NEW status \in RunStatuses,
           runs' = [runs EXCEPT ![r] = UpdateRunStatus(@, status)], leaseLeft' = leaseLeft
    PROVE  RowsKept /\ Honoured
  <1> DEFINE row == UpdateRunStatus(runs[r], status)
  <1>1. runs \in [Runs -> Run] /\ runs[r] \in Run
    BY DEF IInv, TypeOK
  <1>2. /\ row \in Run
        /\ row.attempt = runs[r].attempt /\ row.lease = runs[r].lease
        /\ row.attemptCount = runs[r].attemptCount
        /\ IsTerminalRunStatus(runs[r].status) => IsTerminalRunStatus(row.status)
    BY <1>1 DEF Run, UpdateRunStatus, StatusRefused, IsTerminalRunStatus
  <1>3. runs' \in [Runs -> Run] /\ \A q \in Runs : runs'[q] = IF q = r THEN row ELSE runs[q]
    BY <1>1, <1>2
  <1> QED
    BY <1>2, <1>3 DEF IInv, TypeOK, RowsKept, Honoured, LeaseInv, ClaimedInv, Taken, NextTaken

\* A claim is granted of a free run, of one's own, or of one whose lease has run out.
LEMMA GrantRows ==
    ASSUME IInv, NEW r \in Runs, NEW a \in Attempts, Grant(r, a)
    PROVE  RowsKept /\ Honoured /\ NextTaken(r)
  <1> DEFINE row == ClaimRunAttempt(runs[r], a)
  <1>1. runs \in [Runs -> Run] /\ runs[r] \in Run /\ leaseLeft \in [Runs -> 0..LeaseTicks]
    BY DEF IInv, TypeOK
  <1>2. a # NoAttempt /\ LeaseTicks \in Nat
    BY NoAttemptAssumption, RunWorkerAssumption
  <1>3. runs[r].attempt # NoAttempt => runs[r].attemptCount > 0
    BY DEF IInv, ClaimedInv
  <1>4. CASE IsTerminalRunStatus(runs[r].status)
    <2>1. runs' = runs /\ leaseLeft' = leaseLeft
      BY <1>1, <1>4 DEF Grant, ClaimRunAttempt
    <2> QED
      BY <1>4, <2>1, UnchangedRows DEF rows, NextTaken
  <1>5. CASE ~IsTerminalRunStatus(runs[r].status)
    <2>1. row \in Run /\ row.lease = "live" /\ row.attempt = a /\ row.attemptCount > 0
      <3>1. row = [runs[r] EXCEPT !.attempt = a, !.lease = "live",
                      !.attemptCount = IF runs[r].attempt = a THEN @ ELSE @ + 1,
                      !.status = "running", !.started = TRUE]
        BY <1>5 DEF ClaimRunAttempt
      <3>2. /\ runs[r].attemptCount \in Nat
            /\ runs[r].attempt = a => runs[r].attemptCount > 0
        BY <1>1, <1>2, <1>3 DEF Run
      <3> DEFINE n == IF runs[r].attempt = a THEN runs[r].attemptCount ELSE runs[r].attemptCount + 1
      <3>3. n \in Nat /\ n > 0
        BY <3>2
      <3>4. row = [runs[r] EXCEPT !.attempt = a, !.lease = "live", !.attemptCount = n,
                      !.status = "running", !.started = TRUE]
        BY <3>1, Zenon
      <3> HIDE DEF row, n
      <3> QED
        BY <1>1, <3>3, <3>4 DEF Run, LeaseStates, RunStatuses, ActiveStatuses
    <2>2. runs' \in [Runs -> Run] /\ \A q \in Runs : runs'[q] = IF q = r THEN row ELSE runs[q]
      BY <1>1, <2>1 DEF Grant
    <2>3. /\ leaseLeft' \in [Runs -> 0..LeaseTicks]
          /\ \A q \in Runs : q # r => leaseLeft'[q] = leaseLeft[q]
      BY <1>1, <1>2, <1>5 DEF Grant
    <2>4. runs[r].attempt = NoAttempt \/ runs[r].attempt = a \/ leaseLeft[r] = 0
      BY <1>5 DEF Grant, ClaimConflict, IInv, LeaseInv
    <2>5. RowsKept
      BY <2>1, <2>2, <2>3 DEF IInv, RowsKept, LeaseInv, ClaimedInv, Taken, NextTaken
    <2>6. Honoured
      BY <2>1, <2>2, <2>4 DEF Honoured
    <2> QED
      BY <2>1, <2>2, <2>5, <2>6 DEF NextTaken
  <1> QED
    BY <1>4, <1>5

\* A worker that does not move keeps its message.
LEMMA SameKept ==
    ASSUME IInv, RowsKept, dlq \subseteq dlq', NEW v \in Workers
    PROVE  WorkerKept(v, worker[v])
  <1>1. worker[v] \in Worker
    BY DEF IInv, TypeOK
  <1>2. worker[v].pc \in Executing \cup {"ack"} => Taken(RunOf(v)) /\ RunOf(v) \in Runs
    BY DEF IInv, AckInv, WorkerInv, Holding
  <1> QED
    BY <1>1, <1>2 DEF IInv, AckInv, WorkerInv, WorkerKept, RunOf, RowsKept

\* A step keeps the invariant when rows, messages and workers go on as they may.
LEMMA StepKeeps ==
    ASSUME IInv, worker' \in [Workers -> Worker], \A v \in Workers : WorkerKept(v, worker'[v]),
           RowsKept, MessagesKept, UNCHANGED <<stream, delivered>>,
           dlq \subseteq dlq', dlq' \subseteq Runs, faults' \in 0..MaxFaults, crashes' \in 0..MaxCrashes
    PROVE  IInv'
  <1>1. TypeOK'
    BY DEF IInv, TypeOK, RowsKept, MessagesKept
  <1>2. ASSUME NEW v \in Workers
        PROVE  IF worker'[v].pc \in Holding
               THEN /\ worker[v].pc \in Holding /\ worker[v].run \in Runs
                    /\ worker'[v].run = worker[v].run /\ worker'[v].attempt = worker[v].attempt
               ELSE worker'[v].run = NoRunId
    BY DEF IInv, WorkerInv, WorkerKept, RunOf
  <1>3. WorkerInv'
    <2> SUFFICES ASSUME NEW v \in Workers
                 PROVE  IF worker'[v].pc \in Holding
                        THEN /\ worker'[v].run \in Runs /\ worker'[v].attempt \in Attempts
                             /\ msg'[worker'[v].run].state \in {"pending", "acked"}
                             /\ worker'[v].attempt <= msg'[worker'[v].run].count
                        ELSE worker'[v].run = NoRunId
      BY DEF WorkerInv, RunOf
    <2> QED
      BY <1>2 DEF IInv, WorkerInv, RunOf, MessagesKept
  <1>4. StreamInv'
    <2>1. \A i \in 1..Len(stream) : stream[i] \in Runs
      BY DEF IInv, TypeOK
    <2> QED
      BY <2>1 DEF IInv, StreamInv, MessagesKept
  <1>5. AckInv'
    <2> SUFFICES ASSUME NEW v \in Workers
                 PROVE  /\ worker'[v].pc \in Executing \cup {"ack"} => NextTaken(worker'[v].run)
                        /\ worker'[v].pc = "ack_dead" => worker'[v].run \in dlq'
      BY DEF AckInv, RunOf, Taken, NextTaken
    <2> QED
      BY <1>2 DEF WorkerKept, RunOf, Holding
  <1>6. DistinctAttempts'
    <2> SUFFICES ASSUME NEW u \in Workers, NEW v \in Workers, u # v,
                        worker'[u].run = worker'[v].run, worker'[v].run # NoRunId
                 PROVE  worker'[u].attempt # worker'[v].attempt
      BY DEF DistinctAttempts, RunOf
    <2>1. worker'[u].pc \in Holding /\ worker'[v].pc \in Holding
      BY <1>3 DEF WorkerInv, RunOf
    <2> QED
      BY <1>2, <2>1 DEF IInv, DistinctAttempts, RunOf
  <1>7. UnclaimedIsKept'
    <2> SUFFICES ASSUME NEW r \in Runs, msg'[r].state = "acked"
                 PROVE  r \in dlq' \/ NextTaken(r)
      BY DEF UnclaimedIsKept, NextTaken
    <2> QED
      BY DEF IInv, UnclaimedIsKept, MessagesKept, RowsKept, Taken
  <1> QED
    BY <1>1, <1>3, <1>4, <1>5, <1>6, <1>7 DEF IInv, RowsKept

\* The step of one worker.
Goes(w) == \E t : WorkerKept(w, t) /\ worker' = [worker EXCEPT ![w] = t]

LEMMA WorkerStepKeeps ==
    ASSUME IInv, NEW w \in Workers, Goes(w),
           RowsKept, MessagesKept, UNCHANGED <<stream, delivered>>,
           dlq \subseteq dlq', dlq' \subseteq Runs, faults' \in 0..MaxFaults, crashes' \in 0..MaxCrashes
    PROVE  IInv'
  <1>1. PICK t : WorkerKept(w, t) /\ worker' = [worker EXCEPT ![w] = t]
    BY DEF Goes
  <1>2. /\ worker' \in [Workers -> Worker]
        /\ \A v \in Workers : worker'[v] = IF v = w THEN t ELSE worker[v]
    BY <1>1 DEF IInv, TypeOK, WorkerKept
  <1>3. \A v \in Workers : WorkerKept(v, worker'[v])
    BY <1>1, <1>2, SameKept
  <1> QED
    BY <1>2, <1>3, StepKeeps

LEMMA UnchangedMessages == ASSUME IInv, UNCHANGED msg PROVE MessagesKept
  BY DEF IInv, TypeOK, MessagesKept

\* The ways a worker goes on with its message, and without.
LEMMA GotoGoes ==
    ASSUME IInv, NEW w \in Workers, worker[w].pc \in Holding, NEW pc \in Holding, Goto(w, pc),
           pc \in Executing \cup {"ack"} => NextTaken(RunOf(w)),
           pc = "ack_dead" => RunOf(w) \in dlq'
    PROVE  Goes(w)
  <1> DEFINE t == [worker[w] EXCEPT !.pc = pc]
  <1>1. /\ t \in Worker /\ t.pc = pc /\ t.run = RunOf(w) /\ t.attempt = worker[w].attempt
    BY DEF IInv, TypeOK, Worker, Holding, Executing, PCs, RunOf
  <1>2. WorkerKept(w, t)
    BY <1>1 DEF WorkerKept
  <1> QED
    BY <1>2 DEF Goes, Goto

LEMMA ReturnGoes ==
    ASSUME IInv, NEW w \in Workers, worker[w].pc \in Holding, NextTaken(RunOf(w)),
           NEW result \in {"none", "succeeded", "failed", "canceled"}, Return(w, result)
    PROVE  Goes(w)
  <1> DEFINE t == [worker[w] EXCEPT !.pc = "ack", !.result = result]
  <1>1. /\ t \in Worker /\ t.pc = "ack" /\ t.run = RunOf(w) /\ t.attempt = worker[w].attempt
    BY DEF IInv, TypeOK, Worker, PCs, RunOf
  <1>2. WorkerKept(w, t)
    BY <1>1 DEF WorkerKept, Holding
  <1>3. worker' = [worker EXCEPT ![w] = t]
    BY DEF Return
  <1> QED
    BY <1>2, <1>3 DEF Goes

LEMMA GiveUpGoes == ASSUME IInv, NEW w \in Workers, GiveUp(w) \/ LoopEnds(w) PROVE Goes(w)
  <1> DEFINE end == [IdleWorker EXCEPT !.pc = "ended"]
  <1>1. /\ IdleWorker \in Worker /\ IdleWorker.pc = "idle" /\ IdleWorker.run = NoRunId
        /\ end \in Worker /\ end.pc = "ended" /\ end.run = NoRunId
    BY DEF IdleWorker, Worker, PCs
  <1>2. WorkerKept(w, IdleWorker) /\ WorkerKept(w, end)
    BY <1>1 DEF WorkerKept, Holding, Executing
  <1> QED
    BY <1>2 DEF Goes, GiveUp, LoopEnds

LEMMA StopGoes ==
    ASSUME IInv, NEW w \in Workers, worker[w].pc \in Executing, NextTaken(RunOf(w)),
           worker' = [worker EXCEPT ![w].stopped = TRUE] \/ UNCHANGED worker
    PROVE  Goes(w)
  <1> DEFINE t == [worker[w] EXCEPT !.stopped = TRUE]
  <1>1. worker \in [Workers -> Worker] /\ worker[w] \in Worker
    BY DEF IInv, TypeOK
  <1>2. t \in Worker /\ t.pc = worker[w].pc /\ t.run = RunOf(w) /\ t.attempt = worker[w].attempt
    BY <1>1 DEF Worker, RunOf
  <1>3. WorkerKept(w, t) /\ WorkerKept(w, worker[w])
    BY <1>1, <1>2 DEF WorkerKept, RunOf, Holding, Executing
  <1>4. worker' = [worker EXCEPT ![w] = t] \/ worker' = [worker EXCEPT ![w] = worker[w]]
    BY <1>1
  <1> QED
    BY <1>3, <1>4 DEF Goes

-----------------------------------------------------------------------------
\* Every step keeps the invariant and takes a run from no lease that is running.
Good == IInv' /\ Honoured

\* What most steps leave alone.
LEMMA CountersKept ==
    ASSUME IInv PROVE /\ faults \in 0..MaxFaults /\ crashes \in 0..MaxCrashes /\ dlq \subseteq Runs
                      /\ CallFails => faults' \in 0..MaxFaults
                      /\ crashes < MaxCrashes => crashes + 1 \in 0..MaxCrashes
  BY RunWorkerAssumption DEF IInv, TypeOK, CallFails

LEMMA HoldsRun ==
    ASSUME IInv, NEW w \in Workers, worker[w].pc \in Holding
    PROVE  /\ RunOf(w) \in Runs /\ worker[w].attempt \in Attempts
           /\ msg[RunOf(w)].state \in {"pending", "acked"}
           /\ worker[w].attempt <= msg[RunOf(w)].count
           /\ worker[w].pc \in Executing \cup {"ack"} => Taken(RunOf(w))
           /\ worker[w].pc = "ack_dead" => RunOf(w) \in dlq
  BY DEF IInv, WorkerInv, AckInv

\* Steps that touch neither rows nor messages.
LEMMA QuietGood ==
    ASSUME IInv, NEW w \in Workers, Goes(w), UNCHANGED <<rows, stream, delivered, msg>>,
           dlq \subseteq dlq', dlq' \subseteq Runs, faults' \in 0..MaxFaults, crashes' \in 0..MaxCrashes
    PROVE  Good
  BY UnchangedRows, UnchangedMessages, WorkerStepKeeps DEF Good

\* Steps that leave the queue alone.
LEMMA CallGood ==
    ASSUME IInv, NEW w \in Workers, Goes(w), RowsKept, Honoured,
           UNCHANGED <<queue, crashes>>, faults' \in 0..MaxFaults
    PROVE  Good
  BY UnchangedMessages, CountersKept, WorkerStepKeeps DEF Good, queue

LEMMA RetryCountGood ==
    ASSUME IInv, NEW w \in Workers, PendingRetryCount(w) \/ DeadLetter(w) PROVE Good
  <1>1. /\ worker[w].pc \in Holding /\ RunOf(w) \in Runs
        /\ UNCHANGED <<rows, stream, delivered, msg, crashes>>
        /\ faults' \in 0..MaxFaults /\ dlq \subseteq dlq' /\ dlq' \subseteq Runs
    BY HoldsRun, CountersKept DEF PendingRetryCount, DeadLetter, At, Holding, queue
  <1>2. CASE PendingRetryCount(w)
    <2>1. Goto(w, "dead_letter") \/ Goto(w, "fetch")
      BY <1>2 DEF PendingRetryCount
    <2> QED
      BY <1>1, <2>1, GotoGoes, QuietGood, CountersKept DEF Holding, Executing
  <1>3. CASE DeadLetter(w)
    <2>1. (Goto(w, "ack_dead") /\ RunOf(w) \in dlq') \/ GiveUp(w)
      BY <1>3 DEF DeadLetter
    <2> QED
      BY <1>1, <2>1, GotoGoes, GiveUpGoes, QuietGood, CountersKept DEF Holding, Executing
  <1> QED
    BY <1>2, <1>3

LEMMA AckGood == ASSUME IInv, NEW w \in Workers, Ack(w) PROVE Good
  <1> DEFINE r == RunOf(w)
  <1>1. /\ worker[w].pc \in Holding /\ r \in Runs /\ msg[r].state \in {"pending", "acked"}
        /\ r \in dlq \/ Taken(r)
    BY HoldsRun DEF Ack, At, Holding
  <1>2. Goes(w)
    BY GiveUpGoes DEF Ack
  <1>3. UNCHANGED <<runs, leaseLeft, stream, delivered, dlq, crashes>> /\ faults' \in 0..MaxFaults
    BY CountersKept DEF Ack, rows
  <1>4. RowsKept /\ Honoured
    BY <1>3, UnchangedRows DEF rows
  <1>5. MessagesKept
    <2>1. msg \in [Runs -> Message]
      BY DEF IInv, TypeOK
    <2>2. CASE msg' = [msg EXCEPT ![r].state = "acked"]
      <3>1. /\ msg' \in [Runs -> Message]
            /\ \A q \in Runs : /\ msg'[q].count = msg[q].count
                               /\ msg'[q].state = IF q = r THEN "acked" ELSE msg[q].state
        BY <1>1, <2>1, <2>2 DEF Message
      <3> QED
        BY <1>1, <1>3, <1>4, <3>1 DEF MessagesKept, RowsKept
    <2> QED
      BY <2>2, UnchangedMessages DEF Ack
  <1> QED
    BY <1>2, <1>3, <1>4, <1>5, WorkerStepKeeps, CountersKept DEF Good

LEMMA FetchGood == ASSUME IInv, NEW w \in Workers, FetchExecutionContext(w) PROVE Good
  <1>1. /\ worker[w].pc \in Holding
        /\ UNCHANGED <<rows, stream, delivered, msg, dlq, crashes>> /\ faults' \in 0..MaxFaults
    BY CountersKept DEF FetchExecutionContext, At, Holding, queue
  <1>2. Goto(w, "claim") \/ GiveUp(w) \/ LoopEnds(w)
    BY DEF FetchExecutionContext
  <1> QED
    BY <1>1, <1>2, GotoGoes, GiveUpGoes, QuietGood, CountersKept DEF Holding, Executing

LEMMA ClaimGood == ASSUME IInv, NEW w \in Workers, Claim(w) PROVE Good
  <1> DEFINE r == RunOf(w)
             a == worker[w].attempt
  <1>1. worker[w].pc \in Holding /\ r \in Runs /\ a \in Attempts
    BY HoldsRun DEF Claim, At, Holding
  <1>2. UNCHANGED <<queue, crashes>> /\ faults' \in 0..MaxFaults
    BY CountersKept DEF Claim
  <1>3. CASE Grant(r, a) /\ (Return(w, "none") \/ Goto(w, "emit_started"))
    <2>1. RowsKept /\ Honoured /\ NextTaken(r)
      BY <1>1, <1>3, GrantRows
    <2>2. Goes(w)
      BY <1>1, <1>3, <2>1, ReturnGoes, GotoGoes DEF Holding, Executing
    <2> QED
      BY <1>2, <2>1, <2>2, CallGood
  <1>4. CASE (Grant(r, a) \/ UNCHANGED rows) /\ (GiveUp(w) \/ LoopEnds(w))
    BY <1>1, <1>2, <1>4, GrantRows, UnchangedRows, GiveUpGoes, CallGood
  <1> QED
    BY <1>3, <1>4 DEF Claim

LEMMA HeartbeatGood == ASSUME IInv, NEW w \in Workers, Heartbeat(w) PROVE Good
  <1> DEFINE r == RunOf(w)
             a == worker[w].attempt
  <1>1. worker[w].pc \in Executing /\ r \in Runs /\ a \in Attempts /\ Taken(r)
    BY HoldsRun DEF Heartbeat, Holding
  <1>2. UNCHANGED <<queue, crashes>> /\ faults' \in 0..MaxFaults
    BY CountersKept DEF Heartbeat
  <1>3. Grant(r, a) \/ UNCHANGED rows
    BY DEF Heartbeat, Renew
  <1>4. RowsKept /\ Honoured
    BY <1>1, <1>3, GrantRows, UnchangedRows
  <1>5. Goes(w)
    BY <1>1, <1>4, StopGoes DEF Heartbeat, RowsKept
  <1> QED
    BY <1>2, <1>4, <1>5, CallGood

\* The calls of the engine.
LEMMA EngineGood ==
    ASSUME IInv, NEW w \in Workers,
           EmitStarted(w) \/ IsCanceled(w) \/ Agent(w) \/ Fail(w) \/ Complete(w)
    PROVE  Good
  <1> DEFINE r == RunOf(w)
  <1>1. worker[w].pc \in Executing /\ worker[w].pc \in Holding /\ r \in Runs /\ Taken(r)
    BY HoldsRun DEF EmitStarted, IsCanceled, Agent, Fail, Complete, At, Holding, Executing
  <1>2. UNCHANGED <<queue, crashes, leaseLeft>> /\ faults' \in 0..MaxFaults
    BY CountersKept DEF EmitStarted, IsCanceled, Agent, Fail, Complete, rows
  <1>3. \/ UNCHANGED runs
        \/ \E status \in RunStatuses : runs' = [runs EXCEPT ![r] = UpdateRunStatus(@, status)]
    BY DEF EmitStarted, IsCanceled, Agent, Fail, Complete, rows, SetStatus, RunStatuses,
           ActiveStatuses, FinalStatuses
  <1>4. RowsKept /\ Honoured
    BY <1>1, <1>2, <1>3, StatusRows, UnchangedRows DEF rows
  <1>5. \/ \E result \in {"failed", "succeeded", "canceled"} : Return(w, result)
        \/ \E pc \in Executing : Goto(w, pc)
    BY DEF EmitStarted, IsCanceled, Agent, Fail, Complete, Executing
  <1>6. NextTaken(r)
    BY <1>1, <1>4 DEF RowsKept
  <1>7. Goes(w)
    BY <1>1, <1>5, <1>6, ReturnGoes, GotoGoes DEF Holding, Executing
  <1> QED
    BY <1>2, <1>4, <1>7, CallGood

LEMMA CrashGood == ASSUME IInv, NEW w \in Workers, Crash(w) PROVE Good
  <1>1. UNCHANGED <<rows, stream, delivered, msg, dlq, faults>> /\ crashes' \in 0..MaxCrashes
    BY CountersKept DEF Crash, queue
  <1> QED
    BY <1>1, GiveUpGoes, QuietGood, CountersKept DEF Crash

LEMMA ReadEmptyGood == ASSUME IInv, NEW w \in Workers, ReadEmpty(w) PROVE Good
  <1> DEFINE t == [worker[w] EXCEPT !.pc = "autoclaim"]
  <1>1. t \in Worker /\ t.pc = "autoclaim" /\ t.run = RunOf(w)
    BY DEF IInv, TypeOK, Worker, PCs, RunOf
  <1>2. RunOf(w) = NoRunId
    BY DEF ReadEmpty, At, Holding, Executing, IInv, WorkerInv
  <1>3. WorkerKept(w, t)
    BY <1>1, <1>2 DEF WorkerKept, Holding, Executing
  <1>4. Goes(w)
    BY <1>3 DEF Goes, ReadEmpty, Goto
  <1>5. UNCHANGED <<rows, stream, delivered, msg, dlq, faults, crashes>>
    BY DEF ReadEmpty, queue
  <1> QED
    BY <1>4, <1>5, QuietGood, CountersKept

-----------------------------------------------------------------------------
\* Steps of the environment.
LEMMA OthersKept ==
    ASSUME IInv, UNCHANGED worker, RowsKept, MessagesKept,
           UNCHANGED <<stream, delivered, dlq, faults, crashes>>
    PROVE  IInv'
  <1>1. worker' \in [Workers -> Worker]
    BY DEF IInv, TypeOK
  <1>2. \A v \in Workers : WorkerKept(v, worker'[v])
    BY SameKept
  <1> QED
    BY <1>1, <1>2, StepKeeps, CountersKept

LEMMA CancelGood == ASSUME IInv, NEW r \in Runs, Cancel(r) PROVE Good
  <1>1. RowsKept /\ Honoured
    BY StatusRows DEF Cancel, RunStatuses, FinalStatuses
  <1>2. MessagesKept
    BY UnchangedMessages DEF Cancel, queue
  <1> QED
    BY <1>1, <1>2, OthersKept DEF Cancel, queue, Good

LEMMA TickGood == ASSUME IInv, Tick PROVE Good
  <1>1. /\ runs \in [Runs -> Run] /\ leaseLeft \in [Runs -> 0..LeaseTicks] /\ msg \in [Runs -> Message]
        /\ LeaseTicks \in Nat /\ ReclaimMinIdle \in Nat
    BY RunWorkerAssumption DEF IInv, TypeOK
  <1>2. ASSUME NEW r \in Runs
        PROVE  /\ leaseLeft'[r] = IF leaseLeft[r] > 0 THEN leaseLeft[r] - 1 ELSE 0
               /\ leaseLeft'[r] \in 0..LeaseTicks
               /\ runs'[r] \in Run /\ runs'[r].attempt = runs[r].attempt
               /\ runs'[r].attemptCount = runs[r].attemptCount /\ runs'[r].status = runs[r].status
               /\ runs'[r].lease = IF leaseLeft[r] = 1 THEN "expired" ELSE runs[r].lease
    <2>1. leaseLeft'[r] = IF leaseLeft[r] > 0 THEN leaseLeft[r] - 1 ELSE 0
      BY DEF Tick
    <2>2. leaseLeft'[r] \in 0..LeaseTicks
      BY <1>1, <2>1
    <2>3. CASE leaseLeft[r] = 1
      <3>1. runs'[r] = [runs[r] EXCEPT !.lease = "expired"] /\ runs[r] \in Run
        BY <1>1, <2>3 DEF Tick
      <3> QED
        BY <2>1, <2>2, <2>3, <3>1 DEF Run, LeaseStates
    <2>4. CASE leaseLeft[r] # 1
      <3>1. runs'[r] = runs[r]
        BY <2>4 DEF Tick
      <3> QED
        BY <1>1, <2>1, <2>2, <2>4, <3>1
    <2> QED
      BY <2>3, <2>4
  <1>3. ASSUME NEW r \in Runs
        PROVE  msg'[r] \in Message /\ msg'[r].count = msg[r].count /\ msg'[r].state = msg[r].state
    BY <1>1 DEF Tick, Message
  <1>4. RowsKept
    <2>1. runs' \in [Runs -> Run] /\ leaseLeft' \in [Runs -> 0..LeaseTicks]
      BY <1>2 DEF Tick
    <2>2. LeaseInv'
      BY <1>1, <1>2 DEF IInv, LeaseInv
    <2> QED
      BY <1>2, <2>1, <2>2 DEF IInv, RowsKept, ClaimedInv, Taken, NextTaken
  <1>5. MessagesKept
    <2>1. msg' \in [Runs -> Message]
      BY <1>3 DEF Tick
    <2> QED
      BY <1>3, <2>1 DEF MessagesKept
  <1>6. Honoured
    BY <1>2 DEF Honoured
  <1> QED
    BY <1>4, <1>5, <1>6, OthersKept DEF Tick, Good

\* A run is enqueued once.
LEMMA EnqueueGood == ASSUME IInv, NEW r \in Runs, Enqueue(r) PROVE Good
  <1>1. /\ runs \in [Runs -> Run] /\ msg \in [Runs -> Message]
        /\ stream \in Seq(Runs) /\ delivered \in 0..Len(stream)
    BY DEF IInv, TypeOK
  <1>2. UNCHANGED <<runs, leaseLeft, delivered, dlq, worker, faults, crashes>>
    BY DEF Enqueue, rows
  <1>3. /\ msg' \in [Runs -> Message] /\ msg[r].state = "none" /\ msg'[r].state = "new"
        /\ \A q \in Runs \ {r} : msg'[q] = msg[q]
    BY <1>1 DEF Enqueue, Message
  <1>4. /\ stream' \in Seq(Runs) /\ Len(stream') = Len(stream) + 1 /\ stream'[Len(stream) + 1] = r
        /\ \A i \in 1..Len(stream) : stream'[i] = stream[i]
    BY <1>1 DEF Enqueue
  <1>5. \A i \in 1..Len(stream) : stream[i] \in Runs /\ stream[i] # r
    BY <1>1, <1>3 DEF IInv, StreamInv
  <1>6. TypeOK'
    BY <1>2, <1>3, <1>4 DEF IInv, TypeOK
  <1>7. WorkerInv'
    <2>1. \A w \in Workers : worker[w].pc \in Holding => RunOf(w) \in Runs \ {r}
      BY <1>3, HoldsRun
    <2> QED
      BY <1>2, <1>3, <2>1 DEF IInv, WorkerInv, RunOf
  <1>8. StreamInv'
    <2>1. \A i \in 1..Len(stream) : msg'[stream'[i]] = msg[stream[i]]
      BY <1>3, <1>4, <1>5
    <2>2. \A i \in 1..Len(stream') : /\ msg'[stream'[i]].state # "none"
                                     /\ msg'[stream'[i]].state = "new" <=> i > delivered'
      BY <1>1, <1>2, <1>3, <1>4, <2>1 DEF IInv, StreamInv
    <2>3. \A i, j \in 1..Len(stream') : stream'[i] = stream'[j] => i = j
      BY <1>1, <1>4, <1>5 DEF IInv, StreamInv
    <2> QED
      BY <2>2, <2>3 DEF StreamInv
  <1>9. LeaseInv' /\ ClaimedInv' /\ DistinctAttempts' /\ AckInv'
    BY <1>2 DEF IInv, LeaseInv, ClaimedInv, DistinctAttempts, AckInv, RunOf, Taken
  <1>10. UnclaimedIsKept'
    BY <1>2, <1>3 DEF IInv, UnclaimedIsKept
  <1>11. Honoured
    BY <1>2 DEF Honoured
  <1> QED
    BY <1>6, <1>7, <1>8, <1>9, <1>10, <1>11 DEF IInv, Good

-----------------------------------------------------------------------------
\* A delivery gives a worker an attempt no other worker has.
LEMMA DeliveryGood ==
    ASSUME IInv, NEW w \in Workers, NEW r \in Runs, NEW a \in Attempts, NEW m \in Message,
           NEW pc \in {"fetch", "retry_count"},
           worker' = [worker EXCEPT ![w] = [IdleWorker EXCEPT !.pc = pc, !.run = r, !.attempt = a]],
           msg' = [msg EXCEPT ![r] = m], m.count = a, m.state = "pending",
           msg[r].state = "pending" => msg[r].count < a,
           msg[r].state \in {"new", "pending"},
           UNCHANGED <<rows, stream, dlq, faults, crashes>>,
           delivered' \in 0..Len(stream), StreamInv'
    PROVE  Good
  <1> DEFINE t == [IdleWorker EXCEPT !.pc = pc, !.run = r, !.attempt = a]
  <1>1. t \in Worker /\ t.pc = pc /\ t.run = r /\ t.attempt = a
    BY DEF IdleWorker, Worker, PCs
  <1>2. /\ worker' \in [Workers -> Worker] /\ msg' \in [Runs -> Message]
        /\ \A v \in Workers : worker'[v] = IF v = w THEN t ELSE worker[v]
        /\ \A q \in Runs : msg'[q] = IF q = r THEN m ELSE msg[q]
    BY <1>1 DEF IInv, TypeOK
  <1>3. TypeOK'
    BY <1>2 DEF IInv, TypeOK, rows
  <1>4. Attempts \subseteq Nat /\ \A q \in Runs : msg[q].count \in Nat
    BY RunWorkerAssumption DEF IInv, TypeOK, Message
  <1>5. ASSUME NEW v \in Workers, v # w, worker[v].pc \in Holding, RunOf(v) = r
        PROVE  worker[v].attempt < a /\ msg[r].state = "pending"
    <2>1. msg[r].state = "pending" /\ worker[v].attempt <= msg[r].count /\ worker[v].attempt \in Nat
      BY <1>4, <1>5, HoldsRun
    <2> QED
      BY <1>4, <2>1
  <1>6. WorkerInv'
    <2> SUFFICES ASSUME NEW v \in Workers
                 PROVE  IF worker'[v].pc \in Holding
                        THEN /\ worker'[v].run \in Runs /\ worker'[v].attempt \in Attempts
                             /\ msg'[worker'[v].run].state \in {"pending", "acked"}
                             /\ worker'[v].attempt <= msg'[worker'[v].run].count
                        ELSE worker'[v].run = NoRunId
      BY DEF WorkerInv, RunOf
    <2>1. CASE v = w
      BY <1>1, <1>2, <1>4, <2>1 DEF Holding
    <2>2. CASE v # w /\ worker[v].pc \in Holding
      <3>1. worker[v].run \in Runs /\ worker[v].attempt \in Attempts /\ worker'[v] = worker[v]
        BY <1>2, <2>2, HoldsRun DEF RunOf
      <3>2. CASE worker[v].run = r
        BY <1>2, <1>4, <1>5, <2>2, <3>1, <3>2 DEF RunOf
      <3>3. CASE worker[v].run # r
        BY <1>2, <2>2, <3>1, <3>3, HoldsRun DEF RunOf
      <3> QED
        BY <3>2, <3>3
    <2>3. CASE v # w /\ worker[v].pc \notin Holding
      BY <1>2, <2>3 DEF IInv, WorkerInv, RunOf
    <2> QED
      BY <2>1, <2>2, <2>3
  <1>7. DistinctAttempts'
    <2> SUFFICES ASSUME NEW u \in Workers, NEW v \in Workers, u # v,
                        worker'[u].run = worker'[v].run, worker'[v].run # NoRunId
                 PROVE  worker'[u].attempt # worker'[v].attempt
      BY DEF DistinctAttempts, RunOf
    <2>1. worker'[u].pc \in Holding /\ worker'[v].pc \in Holding
      BY <1>6 DEF WorkerInv, RunOf
    <2>2. \A x \in Workers : x # w /\ worker'[x].run = r /\ worker'[x].pc \in Holding
                               => worker'[x].attempt < a /\ worker'[x].attempt \in Nat
      BY <1>2, <1>4, <1>5, HoldsRun DEF RunOf
    <2>3. CASE u = w \/ v = w
      BY <1>1, <1>2, <1>4, <2>1, <2>2, <2>3
    <2>4. CASE u # w /\ v # w
      BY <1>2, <2>4 DEF IInv, DistinctAttempts, RunOf
    <2> QED
      BY <2>3, <2>4
  <1>8. AckInv'
    BY <1>1, <1>2 DEF IInv, AckInv, RunOf, Taken, rows, Executing
  <1>9. LeaseInv' /\ ClaimedInv' /\ Honoured
    BY DEF IInv, LeaseInv, ClaimedInv, Honoured, rows
  <1>10. UnclaimedIsKept'
    BY <1>2 DEF IInv, UnclaimedIsKept, rows
  <1> QED
    BY <1>3, <1>6, <1>7, <1>8, <1>9, <1>10 DEF IInv, Good

LEMMA ReadGroupGood == ASSUME IInv, NEW w \in Workers, ReadGroup(w) PROVE Good
  <1> DEFINE r == stream[delivered + 1]
             m == [state |-> "pending", idle |-> 0, count |-> 1]
  <1>1. /\ stream \in Seq(Runs) /\ delivered \in 0..Len(stream) /\ msg \in [Runs -> Message]
        /\ delivered + 1 \in 1..Len(stream) /\ delivered' = delivered + 1 /\ stream' = stream
    BY DEF IInv, TypeOK, ReadGroup
  <1>2. r \in Runs /\ msg[r].state = "new" /\ m \in Message /\ 1 \in Attempts
    BY <1>1, RunWorkerAssumption DEF IInv, StreamInv, Message
  <1>3. msg' = [msg EXCEPT ![r] = m]
    BY DEF ReadGroup
  <1>4. StreamInv'
    <2>1. \A i \in 1..Len(stream) : stream[i] \in Runs /\ (i # delivered + 1 => stream[i] # r)
      BY <1>1 DEF IInv, StreamInv
    <2>2. \A q \in Runs : msg'[q] = IF q = r THEN m ELSE msg[q]
      BY <1>1, <1>2, <1>3
    <2>3. \A i \in 1..Len(stream) : /\ msg'[stream[i]].state # "none"
                                    /\ msg'[stream[i]].state = "new" <=> i > delivered + 1
      BY <1>1, <2>1, <2>2 DEF IInv, StreamInv
    <2> QED
      BY <1>1, <2>3 DEF IInv, StreamInv
  <1> QED
    <2>1. worker' = [worker EXCEPT ![w] = [IdleWorker EXCEPT !.pc = "fetch", !.run = r, !.attempt = 1]]
      BY DEF ReadGroup
    <2>2. UNCHANGED <<rows, stream, dlq, faults, crashes>>
      BY DEF ReadGroup
    <2>3. m.count = 1 /\ m.state = "pending"
      OBVIOUS
    <2>4. delivered' \in 0..Len(stream)
      BY <1>1
    <2> HIDE DEF r, m
    <2> QED
      BY <1>2, <1>3, <1>4, <2>1, <2>2, <2>3, <2>4, DeliveryGood

LEMMA AutoClaimGood == ASSUME IInv, NEW w \in Workers, AutoClaim(w) PROVE Good
  <1>1. UNCHANGED <<rows, stream, delivered, dlq, faults, crashes>>
    BY DEF AutoClaim
  <1>2. CASE GiveUp(w) /\ UNCHANGED msg
    BY <1>1, <1>2, GiveUpGoes, QuietGood, CountersKept
  <1>3. ASSUME NEW i \in Reclaimable, NEW r, r = stream[i], msg[r].count + 1 \in Attempts,
               msg' = [msg EXCEPT ![r] = [state |-> "pending", idle |-> 0, count |-> @.count + 1]],
               worker' = [worker EXCEPT ![w] = [IdleWorker EXCEPT
                            !.pc = "retry_count", !.run = r, !.attempt = msg[r].count + 1]]
        PROVE  Good
    <2> DEFINE m == [state |-> "pending", idle |-> 0, count |-> msg[r].count + 1]
    <2>1. /\ stream \in Seq(Runs) /\ msg \in [Runs -> Message] /\ ReclaimMinIdle \in Nat
          /\ delivered \in 0..Len(stream)
      BY RunWorkerAssumption DEF IInv, TypeOK
    <2>2. r \in Runs /\ msg[r].state = "pending" /\ msg[r] \in Message
      BY <1>3, <2>1 DEF Reclaimable
    <2>3. m \in Message /\ m.state = "pending" /\ m.count = msg[r].count + 1 /\ msg[r].count < m.count
      BY <2>1, <2>2 DEF Message
    <2>4. msg' = [msg EXCEPT ![r] = m]
      BY <1>3, <2>1, <2>2
    <2>5. StreamInv'
      <3>1. \A q \in Runs : msg'[q].state = msg[q].state
        BY <2>1, <2>2, <2>3, <2>4
      <3>2. \A j \in 1..Len(stream) : stream[j] \in Runs
        BY <2>1
      <3> QED
        BY <1>1, <3>1, <3>2 DEF IInv, StreamInv
    <2> QED
      <3> DEFINE a == msg[r].count + 1
      <3>1. a \in Attempts /\ m.count = a /\ msg[r].count < a
        BY <1>3, <2>3
      <3>2. worker' = [worker EXCEPT ![w] = [IdleWorker EXCEPT !.pc = "retry_count", !.run = r,
                                                               !.attempt = a]]
        BY <1>3
      <3>3. UNCHANGED <<rows, stream, dlq, faults, crashes>> /\ delivered' \in 0..Len(stream)
        BY <1>1, <2>1
      <3> HIDE DEF a, m
      <3> QED
        BY <2>2, <2>3, <2>4, <2>5, <3>1, <3>2, <3>3, DeliveryGood
  <1> QED
    BY <1>2, <1>3 DEF AutoClaim

-----------------------------------------------------------------------------
LEMMA InitKeeps == Init => IInv
  <1> SUFFICES ASSUME Init PROVE IInv
    OBVIOUS
  <1>1. QueuedRun \in Run /\ QueuedRun.lease = "none" /\ QueuedRun.attempt = NoAttempt
    BY DEF QueuedRun, NoRun, Run, RunStatuses, ActiveStatuses, LeaseStates
  <1>2. IdleWorker \in Worker /\ IdleWorker.pc = "idle" /\ IdleWorker.run = NoRunId
    BY DEF IdleWorker, Worker, PCs
  <1>3. "idle" \notin Holding \cup Executing \cup {"ack", "ack_dead"}
    BY DEF Holding, Executing
  <1>4. TypeOK
    BY <1>1, <1>2, RunWorkerAssumption DEF Init, TypeOK, Message
  <1>5. WorkerInv /\ AckInv /\ DistinctAttempts
    BY <1>2, <1>3 DEF Init, WorkerInv, AckInv, DistinctAttempts, RunOf
  <1>6. StreamInv /\ UnclaimedIsKept
    BY DEF Init, StreamInv, UnclaimedIsKept
  <1>7. LeaseInv /\ ClaimedInv
    BY <1>1 DEF Init, LeaseInv, ClaimedInv
  <1> QED
    BY <1>4, <1>5, <1>6, <1>7 DEF IInv

LEMMA StutterKeeps == ASSUME IInv, UNCHANGED vars PROVE IInv'
  <1>1. RowsKept /\ MessagesKept
    BY UnchangedRows, UnchangedMessages DEF vars, rows
  <1> QED
    BY <1>1, OthersKept DEF vars

LEMMA NextGood == ASSUME IInv, Next PROVE Good
  <1>1. ASSUME NEW w \in Workers, WorkerStep(w) \/ Heartbeat(w) \/ Crash(w) PROVE Good
    BY <1>1, ReadGroupGood, ReadEmptyGood, AutoClaimGood, RetryCountGood, AckGood, FetchGood,
       ClaimGood, EngineGood, HeartbeatGood, CrashGood DEF WorkerStep
  <1>2. ASSUME NEW r \in Runs, Enqueue(r) \/ Cancel(r) PROVE Good
    BY <1>2, EnqueueGood, CancelGood
  <1> QED
    BY <1>1, <1>2, TickGood DEF Next

\* The invariant that the theorems rest on.
THEOREM Invariance == Spec => []IInv
  <1>1. IInv /\ [Next]_vars => IInv'
    BY NextGood, StutterKeeps DEF Good
  <1> QED
    BY <1>1, InitKeeps, PTL DEF Spec

\* Every variable keeps its type, through reclaiming, failed calls and crashes.
THEOREM WorkerTypeCorrect == Spec => []TypeOK
  <1>1. IInv => TypeOK
    BY DEF IInv
  <1> QED
    BY <1>1, Invariance, PTL

\* Workers that execute the same run at the same time, however often its message was
\* reclaimed, have different attempts, which the fence tells apart (ProcessNext).
THEOREM AttemptsDistinct == Spec => []DistinctAttempts
  <1>1. IInv => DistinctAttempts
    BY DEF IInv
  <1> QED
    BY <1>1, Invariance, PTL

\* A message leaves the group only for a run that somebody has claimed, that has ended or
\* that is in the dead letter stream (ProcessNext, ClaimRunAttempt).
THEOREM NothingDropped == Spec => []UnclaimedIsKept
  <1>1. IInv => UnclaimedIsKept
    BY DEF IInv
  <1> QED
    BY <1>1, Invariance, PTL

\* No attempt loses its run while its lease is running, whatever the clock does
\* (ClaimRunAttempt, startLeaseHeartbeat).
THEOREM LeaseHonoured == Spec => LeaseIsHonoured
  <1>1. IInv /\ [Next]_vars => [Honoured]_vars
    BY NextGood DEF Good
  <1> QED
    BY <1>1, Invariance, PTL DEF Spec, LeaseIsHonoured, Honoured

-----------------------------------------------------------------------------
(***************************************************************************)
(* The bound on deliveries.                                                *)
(***************************************************************************)

\* A worker that dead-letters a delivery beyond the limit, and one that has the
\* message for anything else.
Dying(w, r) ==
    /\ RunOf(w) = r /\ worker[w].attempt >= MaxDeliveries
    /\ worker[w].pc \in {"retry_count", "dead_letter", "ack_dead"}
Tending(w, r) == RunOf(w) = r /\ ~Dying(w, r)
Dyings(r) == {w \in Workers : Dying(w, r)}

\* Failed calls and crashes, and the deliveries that reached the limit.
Lost == faults + crashes
Late(r) == IF msg[r].count < MaxDeliveries THEN 0 ELSE msg[r].count - MaxDeliveries + 1

\* Every late delivery is being dead-lettered, or a failed call or a crash ended
\* it; there is one of these more than there are late deliveries.
Covered(r) == Late(r) <= Lost + Cardinality(Dyings(r))
Spare(r) == Late(r) + 1 <= Lost + Cardinality(Dyings(r))

\* While a message is in the group, one of its deliveries short of the limit is
\* still being tended or was lost to a failure, and so is the one whose attempt
\* holds the run: it is the attempt that refuses the others.
Tended(r) ==
    /\ Covered(r)
    /\ msg[r].count = 0 \/ Spare(r) \/ \E w \in Workers : Tending(w, r)
    /\ \/ runs[r].attempt = NoAttempt \/ Spare(r)
       \/ \E w \in Workers : Tending(w, r) /\ worker[w].attempt = runs[r].attempt

Bounded(r) == msg[r].count + 2 <= MaxDeliveries + Lost + Cardinality(Workers)

-----------------------------------------------------------------------------
\* The numbers of the invariant are numbers.
LEMMA Counts ==
    ASSUME IInv, NEW r \in Runs
    PROVE  /\ IsFiniteSet(Dyings(r)) /\ Cardinality(Dyings(r)) \in Nat
           /\ Cardinality(Workers) \in Nat /\ Cardinality(Dyings(r)) <= Cardinality(Workers)
           /\ Lost \in Nat /\ msg[r].count \in Nat /\ Late(r) \in Nat
  <1>1. IsFiniteSet(Workers) /\ Dyings(r) \subseteq Workers
    BY RunWorkerAssumption DEF Dyings
  <1>2. IsFiniteSet(Dyings(r)) /\ Cardinality(Dyings(r)) <= Cardinality(Workers)
    BY <1>1, FS_Subset
  <1>3. Cardinality(Dyings(r)) \in Nat /\ Cardinality(Workers) \in Nat
    BY <1>1, <1>2, FS_CardinalityType
  <1>4. Lost \in Nat
    <2>1. faults \in Nat /\ crashes \in Nat
      BY RunWorkerAssumption DEF IInv, TypeOK
    <2> QED
      BY <2>1 DEF Lost
  <1>5. msg[r].count \in Nat
    BY DEF IInv, TypeOK, Message
  <1>6. Late(r) \in Nat
    BY <1>5, RunWorkerAssumption DEF Late
  <1> QED
    BY <1>2, <1>3, <1>4, <1>5, <1>6

\* While a message is tended its deliveries are within the bound.
LEMMA TendedBounded ==
    ASSUME IInv, MaxDeliveries > 1, NEW r \in Runs, Tended(r)
    PROVE  Bounded(r)
  <1> DEFINE c == msg[r].count
             late == Late(r)
             d == Cardinality(Dyings(r))
             n == Cardinality(Workers)
             k == Lost
  <1>1. c \in Nat /\ d \in Nat /\ n \in Nat /\ k \in Nat /\ late \in Nat /\ d <= n
    BY Counts
  <1>2. MaxDeliveries \in Nat
    BY RunWorkerAssumption
  <1>3. late = IF c < MaxDeliveries THEN 0 ELSE c - MaxDeliveries + 1
    BY DEF Late
  <1>4. ASSUME NEW w \in Workers, Tending(w, r)
        PROVE  d + 1 <= n
    <2>1. w \notin Dyings(r)
      BY <1>4 DEF Tending, Dyings
    <2>2. /\ IsFiniteSet(Dyings(r) \cup {w})
          /\ Cardinality(Dyings(r) \cup {w}) = Cardinality(Dyings(r)) + 1
      BY <2>1, Counts, FS_AddElement
    <2>3. IsFiniteSet(Workers) /\ Dyings(r) \cup {w} \subseteq Workers
      BY RunWorkerAssumption DEF Dyings
    <2>4. Cardinality(Dyings(r) \cup {w}) <= Cardinality(Workers)
      BY <2>3, FS_Subset
    <2> QED
      BY <2>2, <2>4
  <1>5. late <= k + d /\ (c = 0 \/ late + 1 <= k + d \/ d + 1 <= n)
    BY <1>4 DEF Tended, Covered, Spare
  <1> HIDE DEF c, late, d, n, k
  <1>6. c + 2 <= MaxDeliveries + k + n
    BY <1>1, <1>2, <1>3, <1>5
  <1> QED
    BY <1>6 DEF c, k, n, Bounded

\* The delivery invariant, for one run.
DeliveryOK(r) == IF msg[r].state = "acked" THEN Bounded(r) ELSE Tended(r)
DeliveryNext(r) == DeliveryOK(r)'

LEMMA NextLost == ASSUME IInv' PROVE Lost' \in Nat
  <1>1. faults' \in Nat /\ crashes' \in Nat
    BY RunWorkerAssumption DEF IInv, TypeOK
  <1>2. PICK f \in Nat, c \in Nat : faults' = f /\ crashes' = c
    BY <1>1
  <1> QED
    BY <1>2 DEF Lost

\* Failures only ever add up.
LEMMA BoundKept ==
    ASSUME IInv, IInv', NEW r \in Runs, Bounded(r), msg'[r].count = msg[r].count, Lost <= Lost'
    PROVE  Bounded(r)'
  <1> DEFINE c == msg[r].count
             n == Cardinality(Workers)
             k == Lost
             l == Lost'
  <1>1. c \in Nat /\ n \in Nat /\ k \in Nat /\ MaxDeliveries \in Nat
    BY Counts, RunWorkerAssumption
  <1>2. l \in Nat
    BY NextLost
  <1>3. c + 2 <= MaxDeliveries + k + n /\ k <= l
    BY DEF Bounded
  <1> HIDE DEF c, n, k, l
  <1>4. c + 2 <= MaxDeliveries + l + n
    BY <1>1, <1>2, <1>3
  <1> QED
    BY <1>4 DEF c, l, n, Bounded

\* Steps of one worker, or of none, that keep what it does with the message; it
\* may take the run when it has the message.
Keeps(w, r) ==
    /\ Lost <= Lost'
    /\ Dying(w, r)' <=> Dying(w, r)
    /\ Tending(w, r) => Tending(w, r)' /\ worker'[w].attempt = worker[w].attempt
    /\ \/ runs'[r].attempt = runs[r].attempt
       \/ Tending(w, r)' /\ runs'[r].attempt = worker'[w].attempt

\* A failed call or a crash of a worker that is not dead-lettering a late delivery.
Fails(w, r) == Lost' = Lost + 1 /\ ~Dying(w, r)

\* A failed call or a crash of one that is.
DiesOut(w, r) == Lost' = Lost + 1 /\ Dying(w, r) /\ runs'[r].attempt = runs[r].attempt

\* A claim is refused because another attempt holds the run.
Yields(w, r) ==
    /\ Lost' = Lost /\ ~Dying(w, r) /\ ~Dying(w, r)'
    /\ runs'[r].attempt = runs[r].attempt
    /\ runs[r].attempt # NoAttempt /\ runs[r].attempt # worker[w].attempt

\* None of them takes a message out of its bounds.
LEMMA TendedStep ==
    ASSUME IInv, IInv', NEW r \in Runs, Tended(r), NEW w \in Workers,
           msg'[r].count = msg[r].count, \A v \in Workers : v # w => worker'[v] = worker[v],
           Keeps(w, r) \/ Fails(w, r) \/ DiesOut(w, r) \/ Yields(w, r)
    PROVE  Tended(r)'
  <1> DEFINE late == Late(r)
             d == Cardinality(Dyings(r))
             e == Cardinality(Dyings(r)')
             k == Lost
             l == Lost'
  <1>1. /\ late \in Nat /\ d \in Nat /\ k \in Nat
        /\ IsFiniteSet(Dyings(r)) /\ IsFiniteSet(Dyings(r)')
        /\ e \in Nat /\ l \in Nat
    <2>1. Lost' \in Nat
      BY NextLost
    <2>2. IsFiniteSet(Workers) /\ Dyings(r)' \subseteq Workers
      BY RunWorkerAssumption DEF Dyings
    <2>3. IsFiniteSet(Dyings(r)')
      BY <2>2, FS_Subset
    <2>4. e \in Nat
      BY <2>3, FS_CardinalityType
    <2> QED
      BY <2>1, <2>3, <2>4, Counts
  <1>2. Late(r)' = late
    BY DEF Late
  <1>3. \A v \in Workers : v # w => /\ Dying(v, r)' <=> Dying(v, r)
                                    /\ Tending(v, r) => Tending(v, r)' /\ worker'[v].attempt = worker[v].attempt
    BY DEF Dying, Tending, RunOf
  <1>4. ASSUME Dying(w, r)' <=> Dying(w, r)
        PROVE  e = d
    <2>1. Dyings(r)' = Dyings(r)
      BY <1>3, <1>4 DEF Dyings
    <2> QED
      BY <2>1
  <1>5. Covered(r)' <=> late <= l + e
    BY <1>2 DEF Covered
  <1>6. Spare(r)' <=> late + 1 <= l + e
    BY <1>2 DEF Spare
  <1>7. late <= k + d
    BY DEF Tended, Covered
  <1>8. Spare(r) => late + 1 <= k + d
    BY DEF Spare
  <1>9. CASE Keeps(w, r)
    <2>1. e = d /\ k <= l
      BY <1>4, <1>9 DEF Keeps
    <2>2. late <= l + e /\ (Spare(r) => late + 1 <= l + e)
      <3> HIDE DEF late, d, e, k, l
      <3> QED
        BY <1>1, <1>7, <1>8, <2>1
    <2>3. \A v \in Workers : Tending(v, r) => Tending(v, r)' /\ worker'[v].attempt = worker[v].attempt
      BY <1>3, <1>9 DEF Keeps
    <2>4. (\E v \in Workers : Tending(v, r)) => \E v \in Workers : Tending(v, r)'
      BY <2>3
    <2>5. ASSUME NEW v \in Workers, Tending(v, r), worker[v].attempt = runs[r].attempt
          PROVE  \E u \in Workers : Tending(u, r)' /\ worker'[u].attempt = runs'[r].attempt
      BY <1>9, <2>3, <2>5 DEF Keeps
    <2>6. \/ runs'[r].attempt = runs[r].attempt
          \/ \E u \in Workers : Tending(u, r)' /\ worker'[u].attempt = runs'[r].attempt
      BY <1>9 DEF Keeps
    <2>7. \/ runs'[r].attempt = NoAttempt \/ Spare(r)
          \/ \E u \in Workers : Tending(u, r)' /\ worker'[u].attempt = runs'[r].attempt
      BY <2>5, <2>6 DEF Tended
    <2>8. Covered(r)' /\ (Spare(r) => Spare(r)')
      BY <1>5, <1>6, <2>2
    <2>9. msg'[r].count = 0 \/ Spare(r) \/ \E u \in Workers : Tending(u, r)'
      BY <2>4 DEF Tended
    <2> QED
      BY <2>7, <2>8, <2>9 DEF Tended
  <1>10. CASE Fails(w, r)
    <2>1. l = k + 1
      BY <1>10 DEF Fails
    <2>2. d <= e
      <3>1. Dyings(r) \subseteq Dyings(r)'
        BY <1>3, <1>10 DEF Dyings, Fails
      <3> QED
        BY <1>1, <3>1, FS_Subset
    <2>3. late + 1 <= l + e /\ late <= l + e
      <3> HIDE DEF late, d, e, k, l
      <3> QED
        BY <1>1, <1>7, <2>1, <2>2
    <2> QED
      BY <1>5, <1>6, <2>3 DEF Tended
  <1>11. CASE DiesOut(w, r)
    <2>1. l = k + 1
      BY <1>11 DEF DiesOut
    <2>2. d <= e + 1
      <3>1. Dyings(r) \subseteq Dyings(r)' \cup {w}
        BY <1>3 DEF Dyings
      <3>2. /\ IsFiniteSet(Dyings(r)' \cup {w})
            /\ \/ Cardinality(Dyings(r)' \cup {w}) = e
               \/ Cardinality(Dyings(r)' \cup {w}) = e + 1
        BY <1>1, FS_AddElement
      <3>3. d <= Cardinality(Dyings(r)' \cup {w})
        BY <3>1, <3>2, FS_Subset
      <3> HIDE DEF d, e
      <3> QED
        BY <1>1, <3>2, <3>3
    <2>3. late <= l + e /\ (Spare(r) => late + 1 <= l + e)
      <3> HIDE DEF late, d, e, k, l
      <3> QED
        BY <1>1, <1>7, <1>8, <2>1, <2>2
    <2>4. \A v \in Workers : Tending(v, r) =>
             v # w /\ Tending(v, r)' /\ worker'[v].attempt = worker[v].attempt
      BY <1>3, <1>11 DEF DiesOut, Tending
    <2>5. Covered(r)' /\ (Spare(r) => Spare(r)') /\ runs'[r].attempt = runs[r].attempt
      BY <1>5, <1>6, <1>11, <2>3 DEF DiesOut
    <2> QED
      BY <2>4, <2>5 DEF Tended
  <1>12. CASE Yields(w, r)
    <2>1. e = d /\ k = l
      BY <1>4, <1>12 DEF Yields
    <2>2. late <= l + e /\ (Spare(r) => late + 1 <= l + e)
      BY <1>7, <1>8, <2>1
    <2>3. Covered(r)' /\ (Spare(r) => Spare(r)') /\ runs'[r].attempt = runs[r].attempt
      BY <1>5, <1>6, <1>12, <2>2 DEF Yields
    <2>4. ASSUME ~Spare(r)
          PROVE  \E v \in Workers : Tending(v, r)' /\ worker'[v].attempt = runs[r].attempt
      <3>1. PICK v \in Workers : Tending(v, r) /\ worker[v].attempt = runs[r].attempt
        BY <1>12, <2>4 DEF Tended, Yields
      <3>2. v # w
        BY <1>12, <3>1 DEF Yields
      <3> QED
        BY <1>3, <3>1, <3>2
    <2> QED
      BY <2>3, <2>4 DEF Tended
  <1> QED
    BY <1>9, <1>10, <1>11, <1>12

\* A step that delivers nothing keeps the delivery invariant of a run.
LEMMA DeliveryStep ==
    ASSUME IInv, IInv', MaxDeliveries > 1, NEW r \in Runs, DeliveryOK(r), NEW w \in Workers,
           msg'[r].count = msg[r].count, msg[r].state = "acked" => msg'[r].state = "acked",
           \A v \in Workers : v # w => worker'[v] = worker[v], Lost <= Lost',
           \/ Keeps(w, r) \/ Fails(w, r) \/ DiesOut(w, r) \/ Yields(w, r)
           \/ msg'[r].state = "acked"
    PROVE  DeliveryNext(r)
  <1>1. Bounded(r)'
    BY TendedBounded, BoundKept DEF DeliveryOK
  <1>2. ASSUME msg'[r].state # "acked"
        PROVE  Tended(r)'
    BY <1>2, TendedStep DEF DeliveryOK
  <1> QED
    BY <1>1, <1>2 DEF DeliveryOK, DeliveryNext

-----------------------------------------------------------------------------
\* What a step of a worker does to a run whose message it does not have.
LEMMA OtherRun ==
    ASSUME IInv, NEW w \in Workers, NEW r \in Runs, RunOf(w) # r,
           worker'[w].run # r, Lost <= Lost', runs'[r].attempt = runs[r].attempt
    PROVE  Keeps(w, r)
  BY DEF Keeps, Dying, Tending, RunOf

\* Where the steps of a worker without deliveries leave it and the counters.
LEMMA LostStep ==
    ASSUME IInv, IInv'
    PROVE  /\ UNCHANGED <<faults, crashes>> => Lost' = Lost /\ Lost <= Lost'
           /\ CallFails /\ UNCHANGED crashes => Lost' = Lost + 1 /\ Lost <= Lost'
           /\ crashes' = crashes + 1 /\ UNCHANGED faults => Lost' = Lost + 1 /\ Lost <= Lost'
  <1>1. faults \in Nat /\ crashes \in Nat
    BY RunWorkerAssumption DEF IInv, TypeOK
  <1> QED
    BY <1>1 DEF Lost, CallFails

\* What the steps of a worker that deliver nothing have to do with the runs.
LEMMA WorkerDelivery ==
    ASSUME IInv, IInv', MaxDeliveries > 1, \A r \in Runs : DeliveryOK(r), NEW w \in Workers,
           \A v \in Workers : v # w => worker'[v] = worker[v],
           worker'[w].run \in {RunOf(w), NoRunId},
           \A r \in Runs : msg'[r].count = msg[r].count,
           \A r \in Runs : msg[r].state = "acked" => msg'[r].state = "acked",
           \A r \in Runs : r # RunOf(w) => runs'[r].attempt = runs[r].attempt,
           Lost <= Lost',
           \A r \in Runs : r = RunOf(w) =>
              \/ Keeps(w, r) \/ Fails(w, r) \/ DiesOut(w, r) \/ Yields(w, r)
              \/ msg'[r].state = "acked"
    PROVE  \A r \in Runs : DeliveryNext(r)
  <1> SUFFICES ASSUME NEW r \in Runs
               PROVE  DeliveryNext(r)
    OBVIOUS
  <1>1. CASE r = RunOf(w)
    BY <1>1, DeliveryStep
  <1>2. CASE r # RunOf(w)
    <2>1. worker'[w].run # r
      BY <1>2, RunWorkerAssumption
    <2>2. Keeps(w, r)
      BY <1>2, <2>1, OtherRun
    <2> QED
      BY <2>2, DeliveryStep
  <1> QED
    BY <1>1, <1>2

\* A failed call or a crash, wherever the worker was.
LEMMA FailsSomehow ==
    ASSUME NEW w \in Workers, NEW r \in Runs, Lost' = Lost + 1, runs'[r].attempt = runs[r].attempt
    PROVE  Fails(w, r) \/ DiesOut(w, r)
  BY DEF Fails, DiesOut

\* A worker that goes on with its message, none of them late and on the way to
\* the dead letter stream.
LEMMA GoesOn ==
    ASSUME NEW w \in Workers, NEW r \in Runs, RunOf(w) = r, worker'[w].run = r,
           worker'[w].attempt = worker[w].attempt, ~Dying(w, r), ~Dying(w, r)', Lost <= Lost',
           \/ runs'[r].attempt = runs[r].attempt
           \/ runs'[r].attempt = worker[w].attempt
    PROVE  Keeps(w, r)
  BY DEF Keeps, Tending, RunOf

\* What GiveUp, LoopEnds, Goto, Return and the heartbeat do to the workers.
LEMMA WorkerMoves ==
    ASSUME IInv, NEW w \in Workers
    PROVE  /\ GiveUp(w) \/ LoopEnds(w) =>
                 /\ worker'[w].run = NoRunId
                 /\ \A v \in Workers : v # w => worker'[v] = worker[v]
           /\ \A pc : Goto(w, pc) =>
                 /\ worker'[w].run = RunOf(w) /\ worker'[w].attempt = worker[w].attempt
                 /\ worker'[w].pc = pc
                 /\ \A v \in Workers : v # w => worker'[v] = worker[v]
           /\ \A result : Return(w, result) =>
                 /\ worker'[w].run = RunOf(w) /\ worker'[w].attempt = worker[w].attempt
                 /\ worker'[w].pc = "ack"
                 /\ \A v \in Workers : v # w => worker'[v] = worker[v]
           /\ worker' = [worker EXCEPT ![w].stopped = TRUE] =>
                 /\ worker'[w].run = RunOf(w) /\ worker'[w].attempt = worker[w].attempt
                 /\ worker'[w].pc = worker[w].pc
                 /\ \A v \in Workers : v # w => worker'[v] = worker[v]
  <1>1. worker \in [Workers -> Worker] /\ worker[w] \in Worker
    BY DEF IInv, TypeOK
  <1>2. GiveUp(w) \/ LoopEnds(w) =>
          /\ worker'[w].run = NoRunId
          /\ \A v \in Workers : v # w => worker'[v] = worker[v]
    BY <1>1 DEF GiveUp, LoopEnds, IdleWorker
  <1>3. ASSUME NEW pc, Goto(w, pc)
        PROVE  /\ worker'[w].run = RunOf(w) /\ worker'[w].attempt = worker[w].attempt
               /\ worker'[w].pc = pc
               /\ \A v \in Workers : v # w => worker'[v] = worker[v]
    BY <1>1, <1>3 DEF Goto, Worker, RunOf
  <1>4. ASSUME NEW result, Return(w, result)
        PROVE  /\ worker'[w].run = RunOf(w) /\ worker'[w].attempt = worker[w].attempt
               /\ worker'[w].pc = "ack"
               /\ \A v \in Workers : v # w => worker'[v] = worker[v]
    <2>1. worker' = [worker EXCEPT ![w] = [worker[w] EXCEPT !.pc = "ack", !.result = result]]
      BY <1>4 DEF Return
    <2> QED
      BY <1>1, <2>1 DEF Worker, RunOf
  <1>5. ASSUME worker' = [worker EXCEPT ![w].stopped = TRUE]
        PROVE  /\ worker'[w].run = RunOf(w) /\ worker'[w].attempt = worker[w].attempt
               /\ worker'[w].pc = worker[w].pc
               /\ \A v \in Workers : v # w => worker'[v] = worker[v]
    BY <1>1, <1>5 DEF Worker, RunOf
  <1> QED
    BY <1>2, <1>3, <1>4, <1>5

\* A worker is only dead-lettering at three places.
LEMMA DyingAt ==
    ASSUME NEW w \in Workers, NEW r \in Runs
    PROVE  /\ worker[w].pc \notin {"retry_count", "dead_letter", "ack_dead"} => ~Dying(w, r)
           /\ worker'[w].pc \notin {"retry_count", "dead_letter", "ack_dead"} => ~Dying(w, r)'
           /\ worker'[w].run = NoRunId => ~Dying(w, r)'
  BY RunWorkerAssumption DEF Dying, RunOf

-----------------------------------------------------------------------------
\* What is proved of each step.
Delivers == \A r \in Runs : DeliveryNext(r)
BeforeStep == IInv /\ MaxDeliveries > 1 /\ \A r \in Runs : DeliveryOK(r)

LEMMA RetryCountDelivers ==
    ASSUME BeforeStep, IInv', NEW w \in Workers, PendingRetryCount(w)
    PROVE  Delivers
  <1> USE DEF BeforeStep
  <1>0. PICK r \in Runs : r = RunOf(w)
    BY HoldsRun DEF PendingRetryCount, At, Holding
  <1> USE <1>0
  <1>1. /\ r = RunOf(w) /\ msg[r].state \in {"pending", "acked"}
        /\ worker[w].attempt <= msg[r].count /\ worker[w].attempt \in Attempts
    BY <1>0, HoldsRun DEF PendingRetryCount, At, Holding
  <1>2. UNCHANGED <<runs, msg, crashes>> /\ worker[w].pc = "retry_count"
    BY DEF PendingRetryCount, At, rows, queue
  <1>3. PICK pc \in {"dead_letter", "fetch"} : Goto(w, pc)
    BY DEF PendingRetryCount
  <1>4. /\ worker'[w].run = r /\ worker'[w].attempt = worker[w].attempt /\ worker'[w].pc = pc
        /\ \A v \in Workers : v # w => worker'[v] = worker[v]
    BY <1>3, WorkerMoves
  <1>5. CASE CallFails
    <2>1. Lost' = Lost + 1 /\ Lost <= Lost'
      BY <1>2, <1>5, LostStep
    <2>2. Fails(w, r) \/ DiesOut(w, r)
      BY <1>1, <1>2, <2>1, FailsSomehow
    <2> QED
      BY <1>1, <1>2, <1>4, <2>1, <2>2, WorkerDelivery DEF Delivers
  <1>6. CASE UNCHANGED faults /\ pc = "dead_letter"
    <2>1. Lost <= Lost'
      BY <1>2, <1>6, LostStep
    <2>2. Dying(w, r)' <=> Dying(w, r)
      BY <1>2, <1>4, <1>6 DEF Dying, RunOf
    <2>3. Keeps(w, r)
      BY <1>2, <1>4, <2>1, <2>2 DEF Keeps, Tending, RunOf
    <2> QED
      BY <1>1, <1>2, <1>4, <2>1, <2>3, WorkerDelivery DEF Delivers
  <1>7. CASE UNCHANGED faults /\ Goto(w, IF (IF msg[r].state = "pending" THEN msg[r].count ELSE 0) >= MaxDeliveries
                                        THEN "dead_letter" ELSE "fetch") /\ pc = "fetch"
    <2>1. Lost <= Lost'
      BY <1>2, <1>7, LostStep
    <2>2. msg[r].state = "acked" \/ msg[r].count < MaxDeliveries
      <3>1. worker'[w].pc = IF (IF msg[r].state = "pending" THEN msg[r].count ELSE 0) >= MaxDeliveries
                            THEN "dead_letter" ELSE "fetch"
        BY <1>7, WorkerMoves
      <3>2. msg[r].count \in Nat /\ MaxDeliveries \in Nat
        BY <1>1, Counts, RunWorkerAssumption
      <3> QED
        BY <1>1, <1>4, <1>7, <3>1, <3>2
    <2>3. ASSUME msg[r].count < MaxDeliveries
          PROVE  Keeps(w, r)
      <3>1. ~(worker[w].attempt >= MaxDeliveries)
        <4>1. msg[r].count \in Nat /\ MaxDeliveries \in Nat /\ worker[w].attempt \in Nat
          BY <1>1, Counts, RunWorkerAssumption
        <4> QED
          BY <1>1, <2>3, <4>1
      <3>2. ~Dying(w, r) /\ ~Dying(w, r)'
        BY <1>1, <1>4, <1>7, <3>1, DyingAt DEF Dying
      <3> QED
        BY <1>1, <1>2, <1>4, <2>1, <3>2, GoesOn
    <2> QED
      BY <1>1, <1>2, <1>4, <2>1, <2>2, <2>3, WorkerDelivery DEF Delivers
  <1> QED
    BY <1>3, <1>5, <1>6, <1>7 DEF PendingRetryCount

LEMMA DeadLetterDelivers ==
    ASSUME BeforeStep, IInv', NEW w \in Workers, DeadLetter(w) \/ Ack(w)
    PROVE  Delivers
  <1> USE DEF BeforeStep
  <1>0. PICK r \in Runs : r = RunOf(w)
    BY HoldsRun DEF DeadLetter, Ack, At, Holding
  <1> USE <1>0
  <1>1. r = RunOf(w) /\ worker[w].pc \in {"dead_letter", "ack", "ack_dead"}
    BY <1>0 DEF DeadLetter, Ack, At
  <1>2. UNCHANGED <<runs, crashes>>
    BY DEF DeadLetter, Ack, rows
  <1>3. /\ \A q \in Runs : msg'[q].count = msg[q].count
        /\ \A q \in Runs : msg[q].state = "acked" => msg'[q].state = "acked"
    <2>1. msg \in [Runs -> Message]
      BY DEF IInv, TypeOK
    <2>2. msg' = msg \/ msg' = [msg EXCEPT ![r].state = "acked"]
      BY DEF DeadLetter, Ack
    <2> QED
      BY <1>1, <2>1, <2>2 DEF Message
  <1>4. CASE GiveUp(w)
    <2>1. worker'[w].run = NoRunId /\ \A v \in Workers : v # w => worker'[v] = worker[v]
      BY <1>4, WorkerMoves
    <2>2. CASE CallFails
      <3>1. Lost' = Lost + 1 /\ Lost <= Lost'
        BY <1>2, <2>2, LostStep
      <3>2. Fails(w, r) \/ DiesOut(w, r)
        BY <1>1, <1>2, <3>1, FailsSomehow
      <3> QED
        BY <1>1, <1>2, <1>3, <2>1, <3>1, <3>2, WorkerDelivery DEF Delivers
    <2>3. CASE Ack(w) /\ msg' = [msg EXCEPT ![r].state = "acked"] /\ UNCHANGED faults
      <3>1. msg'[r].state = "acked" /\ Lost <= Lost'
        BY <1>1, <1>2, <2>3, LostStep DEF IInv, TypeOK, Message
      <3> QED
        BY <1>1, <1>2, <1>3, <2>1, <3>1, WorkerDelivery DEF Delivers
    <2>4. CASE Goto(w, "ack_dead")
      <3>1. worker'[w].run = r
        BY <2>4, WorkerMoves
      <3> QED
        BY <1>1, <2>1, <3>1, RunWorkerAssumption
    <2> QED
      BY <2>2, <2>3, <2>4 DEF DeadLetter, Ack
  <1>5. CASE DeadLetter(w) /\ Goto(w, "ack_dead") /\ UNCHANGED faults
    <2>1. Lost <= Lost'
      BY <1>2, <1>5, LostStep
    <2>2. /\ worker'[w].run = r /\ worker'[w].attempt = worker[w].attempt /\ worker'[w].pc = "ack_dead"
          /\ \A v \in Workers : v # w => worker'[v] = worker[v]
      BY <1>5, WorkerMoves
    <2>3. worker[w].pc = "dead_letter"
      BY <1>5 DEF DeadLetter, At
    <2>4. Dying(w, r)' <=> Dying(w, r)
      BY <2>2, <2>3 DEF Dying, RunOf
    <2>5. Keeps(w, r)
      BY <1>2, <2>1, <2>2, <2>4 DEF Keeps, Tending, RunOf
    <2> QED
      BY <1>1, <1>2, <1>3, <2>1, <2>2, <2>5, WorkerDelivery DEF Delivers
  <1> QED
    BY <1>4, <1>5 DEF DeadLetter, Ack

\* A status write changes no holder.
LEMMA StatusHolder ==
    ASSUME IInv, NEW r \in Runs, NEW status \in RunStatuses,
           runs' = [runs EXCEPT ![r] = UpdateRunStatus(@, status)]
    PROVE  \A q \in Runs : runs'[q].attempt = runs[q].attempt
  <1>1. runs \in [Runs -> Run] /\ UpdateRunStatus(runs[r], status).attempt = runs[r].attempt
    BY DEF IInv, TypeOK, Run, UpdateRunStatus
  <1> QED
    BY <1>1

LEMMA FetchDelivers ==
    ASSUME BeforeStep, IInv', NEW w \in Workers, FetchExecutionContext(w)
    PROVE  Delivers
  <1> USE DEF BeforeStep
  <1>0. PICK r \in Runs : r = RunOf(w)
    BY HoldsRun DEF FetchExecutionContext, At, Holding
  <1> USE <1>0
  <1>1. worker[w].pc = "fetch" /\ UNCHANGED <<runs, msg, crashes>>
    BY DEF FetchExecutionContext, At, rows, queue
  <1>2. CASE CallFails /\ (GiveUp(w) \/ LoopEnds(w))
    <2>1. worker'[w].run = NoRunId /\ \A v \in Workers : v # w => worker'[v] = worker[v]
      BY <1>2, WorkerMoves
    <2>2. Lost' = Lost + 1 /\ Lost <= Lost'
      BY <1>1, <1>2, LostStep
    <2>3. Fails(w, r) \/ DiesOut(w, r)
      BY <1>1, <2>2, FailsSomehow
    <2> QED
      BY <1>1, <2>1, <2>2, <2>3, WorkerDelivery DEF Delivers
  <1>3. CASE Goto(w, "claim") /\ UNCHANGED faults
    <2>1. /\ worker'[w].run = r /\ worker'[w].attempt = worker[w].attempt /\ worker'[w].pc = "claim"
          /\ \A v \in Workers : v # w => worker'[v] = worker[v]
      BY <1>3, WorkerMoves
    <2>2. Lost <= Lost'
      BY <1>1, <1>3, LostStep
    <2>3. ~Dying(w, r) /\ ~Dying(w, r)'
      BY <1>1, <2>1, DyingAt
    <2>4. Keeps(w, r)
      BY <1>1, <2>1, <2>2, <2>3, GoesOn
    <2> QED
      BY <1>1, <2>1, <2>2, <2>4, WorkerDelivery DEF Delivers
  <1> QED
    BY <1>2, <1>3 DEF FetchExecutionContext

\* A granted claim gives the run to the attempt that asked, or leaves a finished
\* run alone.
LEMMA GrantHolder ==
    ASSUME IInv, NEW r \in Runs, NEW a \in Attempts, Grant(r, a)
    PROVE  /\ runs'[r].attempt = runs[r].attempt \/ runs'[r].attempt = a
           /\ \A q \in Runs : q # r => runs'[q].attempt = runs[q].attempt
  <1>1. runs \in [Runs -> Run]
    BY DEF IInv, TypeOK
  <1>2. runs' = [runs EXCEPT ![r] = ClaimRunAttempt(runs[r], a)]
    BY DEF Grant
  <1>3. \/ ClaimRunAttempt(runs[r], a).attempt = runs[r].attempt
        \/ ClaimRunAttempt(runs[r], a).attempt = a
    BY <1>1 DEF ClaimRunAttempt, Run
  <1> QED
    BY <1>1, <1>2, <1>3

LEMMA ClaimDelivers ==
    ASSUME BeforeStep, IInv', NEW w \in Workers, Claim(w)
    PROVE  Delivers
  <1> USE DEF BeforeStep
  <1>0. PICK r \in Runs : r = RunOf(w)
    BY HoldsRun DEF Claim, At, Holding
  <1> USE <1>0
  <1>1. /\ worker[w].pc = "claim" /\ worker[w].attempt \in Attempts /\ UNCHANGED <<msg, crashes>>
        /\ ~Dying(w, r)
    BY HoldsRun, DyingAt DEF Claim, At, Holding, queue
  <1>2. CASE ClaimConflict(runs[r], worker[w].attempt) /\ GiveUp(w) /\ UNCHANGED <<rows, faults>>
    <2>1. worker'[w].run = NoRunId /\ \A v \in Workers : v # w => worker'[v] = worker[v]
      BY <1>2, WorkerMoves
    <2>2. Lost' = Lost /\ Lost <= Lost' /\ UNCHANGED runs
      BY <1>1, <1>2, LostStep DEF rows
    <2>3. Yields(w, r)
      BY <1>1, <1>2, <2>1, <2>2, DyingAt DEF Yields, ClaimConflict
    <2> QED
      BY <1>1, <2>1, <2>2, <2>3, WorkerDelivery DEF Delivers
  <1>3. CASE /\ Grant(r, worker[w].attempt) /\ UNCHANGED faults
             /\ Return(w, "none") \/ Goto(w, "emit_started")
    <2>1. /\ worker'[w].run = r /\ worker'[w].attempt = worker[w].attempt
          /\ worker'[w].pc \in {"ack", "emit_started"}
          /\ \A v \in Workers : v # w => worker'[v] = worker[v]
      BY <1>3, WorkerMoves
    <2>2. Lost <= Lost'
      BY <1>1, <1>3, LostStep
    <2>3. ~Dying(w, r)'
      BY <2>1, DyingAt
    <2>4. /\ runs'[r].attempt = runs[r].attempt \/ runs'[r].attempt = worker[w].attempt
          /\ \A q \in Runs : q # r => runs'[q].attempt = runs[q].attempt
      BY <1>1, <1>3, GrantHolder
    <2>5. Keeps(w, r)
      BY <1>1, <2>1, <2>2, <2>3, <2>4, GoesOn
    <2> QED
      BY <1>1, <2>1, <2>2, <2>4, <2>5, WorkerDelivery DEF Delivers
  <1>4. CASE /\ CallFails
             /\ Grant(r, worker[w].attempt) \/ UNCHANGED rows
             /\ GiveUp(w) \/ LoopEnds(w)
    <2>1. worker'[w].run = NoRunId /\ \A v \in Workers : v # w => worker'[v] = worker[v]
      BY <1>4, WorkerMoves
    <2>2. Lost' = Lost + 1 /\ Lost <= Lost'
      BY <1>1, <1>4, LostStep
    <2>3. Fails(w, r)
      BY <1>1, <2>2 DEF Fails
    <2>4. \A q \in Runs : q # r => runs'[q].attempt = runs[q].attempt
      BY <1>1, <1>4, GrantHolder DEF rows
    <2> QED
      BY <1>1, <2>1, <2>2, <2>3, <2>4, WorkerDelivery DEF Delivers
  <1> QED
    BY <1>2, <1>3, <1>4 DEF Claim

LEMMA HeartbeatDelivers ==
    ASSUME BeforeStep, IInv', NEW w \in Workers, Heartbeat(w)
    PROVE  Delivers
  <1> USE DEF BeforeStep
  <1>0. PICK r \in Runs : r = RunOf(w)
    BY HoldsRun DEF Heartbeat, Holding
  <1> USE <1>0
  <1>1. /\ worker[w].pc \in Executing /\ worker[w].attempt \in Attempts /\ UNCHANGED <<msg, crashes>>
    BY HoldsRun DEF Heartbeat, Holding, queue
  <1>2. worker[w].pc \notin {"retry_count", "dead_letter", "ack_dead"}
    BY <1>1 DEF Executing
  <1>3. /\ worker'[w].run = r /\ worker'[w].attempt = worker[w].attempt
        /\ worker'[w].pc = worker[w].pc
        /\ \A v \in Workers : v # w => worker'[v] = worker[v]
    <2>1. CASE UNCHANGED worker
      BY <2>1 DEF RunOf
    <2>2. CASE worker' = [worker EXCEPT ![w].stopped = TRUE]
      BY <2>2, WorkerMoves
    <2> QED
      BY <2>1, <2>2 DEF Heartbeat
  <1>4. ~Dying(w, r) /\ ~Dying(w, r)'
    BY <1>2, <1>3, DyingAt
  <1>5. Grant(r, worker[w].attempt) \/ UNCHANGED runs
    BY DEF Heartbeat, Renew, rows
  <1>6. /\ runs'[r].attempt = runs[r].attempt \/ runs'[r].attempt = worker[w].attempt
        /\ \A q \in Runs : q # r => runs'[q].attempt = runs[q].attempt
    BY <1>1, <1>5, GrantHolder
  <1>7. Lost <= Lost'
    BY <1>1, LostStep DEF Heartbeat
  <1>8. Keeps(w, r)
    BY <1>3, <1>4, <1>6, <1>7, GoesOn
  <1> QED
    BY <1>1, <1>3, <1>6, <1>7, <1>8, WorkerDelivery DEF Delivers

LEMMA EngineDelivers ==
    ASSUME BeforeStep, IInv', NEW w \in Workers,
           EmitStarted(w) \/ IsCanceled(w) \/ Agent(w) \/ Fail(w) \/ Complete(w)
    PROVE  Delivers
  <1> USE DEF BeforeStep
  <1>0. PICK r \in Runs : r = RunOf(w)
    BY HoldsRun DEF EmitStarted, IsCanceled, Agent, Fail, Complete, At, Holding, Executing
  <1> USE <1>0
  <1>1. /\ worker[w].pc \in {"emit_started", "is_canceled", "agent", "fail", "complete"}
        /\ UNCHANGED <<msg, crashes>>
    BY DEF EmitStarted, IsCanceled, Agent, Fail, Complete, At, queue
  <1>2. \/ \E result : Return(w, result)
        \/ \E pc \in {"is_canceled", "agent", "fail", "complete"} : Goto(w, pc)
    BY DEF EmitStarted, IsCanceled, Agent, Fail, Complete
  <1>3. /\ worker'[w].run = r /\ worker'[w].attempt = worker[w].attempt
        /\ worker'[w].pc \notin {"retry_count", "dead_letter", "ack_dead"}
        /\ \A v \in Workers : v # w => worker'[v] = worker[v]
    BY <1>2, WorkerMoves
  <1>4. ~Dying(w, r) /\ ~Dying(w, r)'
    BY <1>1, <1>3, DyingAt
  <1>5. \A q \in Runs : runs'[q].attempt = runs[q].attempt
    <2>1. \/ UNCHANGED runs
          \/ \E status \in RunStatuses : runs' = [runs EXCEPT ![r] = UpdateRunStatus(@, status)]
      BY DEF EmitStarted, IsCanceled, Agent, Fail, Complete, rows, SetStatus, RunStatuses,
             ActiveStatuses, FinalStatuses
    <2> QED
      BY <2>1, StatusHolder
  <1>6. Lost <= Lost'
    BY <1>1, LostStep DEF EmitStarted, IsCanceled, Agent, Fail, Complete
  <1>7. Keeps(w, r)
    BY <1>3, <1>4, <1>5, <1>6, GoesOn
  <1> QED
    BY <1>1, <1>3, <1>5, <1>6, <1>7, WorkerDelivery DEF Delivers

LEMMA CrashDelivers ==
    ASSUME BeforeStep, IInv', NEW w \in Workers, Crash(w)
    PROVE  Delivers
  <1> USE DEF BeforeStep
  <1>1. worker'[w].run = NoRunId /\ \A v \in Workers : v # w => worker'[v] = worker[v]
    BY WorkerMoves DEF Crash
  <1>2. Lost' = Lost + 1 /\ Lost <= Lost' /\ UNCHANGED <<runs, msg>>
    BY LostStep DEF Crash, rows, queue
  <1>3. \A r \in Runs : Fails(w, r) \/ DiesOut(w, r)
    BY <1>2, FailsSomehow
  <1> QED
    BY <1>1, <1>2, <1>3, WorkerDelivery DEF Delivers

LEMMA ReadNothingDelivers ==
    ASSUME BeforeStep, IInv', NEW w \in Workers,
           ReadEmpty(w) \/ (At(w, "autoclaim") /\ GiveUp(w)),
           UNCHANGED <<rows, msg, faults, crashes>>
    PROVE  Delivers
  <1> USE DEF BeforeStep
  <1>1. RunOf(w) = NoRunId
    BY DEF ReadEmpty, At, Holding, Executing, IInv, WorkerInv
  <1>2. worker'[w].run = NoRunId /\ \A v \in Workers : v # w => worker'[v] = worker[v]
    BY <1>1, WorkerMoves DEF ReadEmpty
  <1>3. Lost <= Lost' /\ UNCHANGED runs
    BY LostStep DEF rows
  <1>4. \A r \in Runs : r # RunOf(w)
    BY <1>1, RunWorkerAssumption
  <1> QED
    BY <1>2, <1>3, <1>4, WorkerDelivery DEF Delivers

-----------------------------------------------------------------------------
\* A delivery: a late one is not covered by a failure yet, but its worker is on
\* its way to the dead letter stream.
LEMMA DeliveredTended ==
    ASSUME IInv, IInv', MaxDeliveries > 1, NEW r \in Runs, Tended(r), NEW w \in Workers,
           RunOf(w) = NoRunId, worker'[w].run = r, worker'[w].attempt = msg'[r].count,
           \A v \in Workers : v # w => worker'[v] = worker[v],
           UNCHANGED <<runs, faults, crashes>>,
           \/ msg'[r].count = 1
           \/ msg'[r].count = msg[r].count + 1 /\ worker'[w].pc = "retry_count"
    PROVE  Tended(r)'
  <1> DEFINE c == msg[r].count
             n == msg'[r].count
             late == Late(r)
             next == Late(r)'
             d == Cardinality(Dyings(r))
             e == Cardinality(Dyings(r)')
             k == Lost
  <1>1. /\ c \in Nat /\ late \in Nat /\ d \in Nat /\ k \in Nat /\ n \in Nat /\ MaxDeliveries \in Nat
        /\ IsFiniteSet(Dyings(r))
    BY Counts, RunWorkerAssumption
  <1>2. Lost' = k
    BY DEF Lost
  <1>3. ~Dying(w, r) /\ ~Tending(w, r)
    BY RunWorkerAssumption DEF Dying, Tending
  <1>4. \A v \in Workers : v # w => /\ Dying(v, r)' <=> Dying(v, r)
                                    /\ Tending(v, r) => Tending(v, r)' /\ worker'[v].attempt = worker[v].attempt
    BY DEF Dying, Tending, RunOf
  <1>5. \A v \in Workers : Tending(v, r) => Tending(v, r)' /\ worker'[v].attempt = worker[v].attempt
    BY <1>3, <1>4
  <1>6. late = (IF c < MaxDeliveries THEN 0 ELSE c - MaxDeliveries + 1)
    BY DEF Late
  <1>7. next = (IF n < MaxDeliveries THEN 0 ELSE n - MaxDeliveries + 1)
    BY DEF Late
  <1>8. late <= k + d /\ (Spare(r) <=> late + 1 <= k + d)
    BY DEF Tended, Covered, Spare
  <1>9. (Covered(r)' <=> next <= k + e) /\ (Spare(r)' <=> next + 1 <= k + e)
    BY <1>2 DEF Covered, Spare
  <1>10. CASE n < MaxDeliveries
    <2>1. ~(worker'[w].attempt >= MaxDeliveries)
      BY <1>1, <1>10
    <2>2. ~Dying(w, r)' /\ Tending(w, r)'
      BY <2>1 DEF Dying, Tending, RunOf
    <2>3. Dyings(r)' = Dyings(r)
      BY <1>3, <1>4, <2>2 DEF Dyings
    <2>4. e = d /\ next = 0
      BY <1>7, <1>10, <2>3
    <2>5. next <= k + e /\ (Spare(r) => next + 1 <= k + e)
      <3> HIDE DEF late, next, d, e, k
      <3> QED
        BY <1>1, <1>8, <2>4
    <2>6. Covered(r)' /\ (Spare(r) => Spare(r)')
      BY <1>9, <2>5
    <2> QED
      BY <1>5, <2>2, <2>6 DEF Tended
  <1>11. CASE ~(n < MaxDeliveries)
    <2>1. n = c + 1 /\ worker'[w].pc = "retry_count"
      BY <1>1, <1>11
    <2>2. worker'[w].attempt >= MaxDeliveries
      BY <1>1, <1>11
    <2>3. Dying(w, r)'
      BY <2>1, <2>2 DEF Dying, RunOf
    <2>4. Dyings(r)' = Dyings(r) \cup {w} /\ w \notin Dyings(r)
      BY <1>3, <1>4, <2>3 DEF Dyings
    <2>5. e = d + 1
      BY <1>1, <2>4, FS_AddElement
    <2>6. c # 0
      BY <1>1, <1>11, <2>1
    <2>7. next = late + 1
      <3> HIDE DEF c, n, late, next
      <3> QED
        BY <1>1, <1>6, <1>7, <1>11, <2>1
    <2>8. next <= k + e /\ (Spare(r) => next + 1 <= k + e)
      <3> HIDE DEF late, next, d, e, k
      <3> QED
        BY <1>1, <1>8, <2>5, <2>7
    <2>9. Covered(r)' /\ (Spare(r) => Spare(r)')
      BY <1>9, <2>8
    <2> QED
      BY <1>5, <2>6, <2>9 DEF Tended
  <1> QED
    BY <1>10, <1>11

LEMMA DeliveryDelivers ==
    ASSUME BeforeStep, IInv', NEW w \in Workers, NEW r \in Runs, RunOf(w) = NoRunId,
           msg[r].state # "acked", NEW m \in Message, msg' = [msg EXCEPT ![r] = m], m.state = "pending",
           worker'[w].run = r, worker'[w].attempt = m.count,
           \A v \in Workers : v # w => worker'[v] = worker[v],
           UNCHANGED <<runs, faults, crashes>>,
           m.count = 1 \/ (m.count = msg[r].count + 1 /\ worker'[w].pc = "retry_count")
    PROVE  Delivers
  <1> USE DEF BeforeStep
  <1> SUFFICES ASSUME NEW q \in Runs
               PROVE  DeliveryNext(q)
    BY DEF Delivers
  <1>1. \A p \in Runs : msg'[p] = IF p = r THEN m ELSE msg[p]
    BY DEF IInv, TypeOK
  <1>2. CASE q = r
    <2>1. Tended(r)
      BY DEF DeliveryOK
    <2>2. msg'[r] = m
      BY <1>1
    <2>3. Tended(r)'
      BY <2>1, <2>2, DeliveredTended
    <2>4. msg'[r].state # "acked"
      BY <2>2
    <2> QED
      BY <1>2, <2>3, <2>4 DEF DeliveryNext, DeliveryOK
  <1>3. CASE q # r
    <2>1. Lost <= Lost' /\ msg'[q] = msg[q] /\ RunOf(w) # q /\ worker'[w].run # q
      BY <1>1, <1>3, LostStep, RunWorkerAssumption
    <2>2. Keeps(w, q)
      BY <2>1, OtherRun
    <2> QED
      BY <2>1, <2>2, DeliveryStep
  <1> QED
    BY <1>2, <1>3

LEMMA ReadGroupDelivers ==
    ASSUME BeforeStep, IInv', NEW w \in Workers, ReadGroup(w)
    PROVE  Delivers
  <1> USE DEF BeforeStep
  <1> DEFINE m == [state |-> "pending", idle |-> 0, count |-> 1]
             t(s) == [IdleWorker EXCEPT !.pc = "fetch", !.run = s, !.attempt = 1]
  <1>1. /\ stream \in Seq(Runs) /\ delivered \in 0..Len(stream) /\ delivered + 1 \in 1..Len(stream)
        /\ worker \in [Workers -> Worker]
    BY DEF IInv, TypeOK, ReadGroup
  <1>2. PICK r \in Runs : r = stream[delivered + 1]
    BY <1>1
  <1>3. msg[r].state = "new" /\ m \in Message
    BY <1>1, <1>2, RunWorkerAssumption DEF IInv, StreamInv, Message
  <1>4. msg' = [msg EXCEPT ![r] = m] /\ worker' = [worker EXCEPT ![w] = t(r)]
    BY <1>2 DEF ReadGroup
  <1>5. /\ worker'[w].run = r /\ worker'[w].attempt = 1
        /\ \A v \in Workers : v # w => worker'[v] = worker[v]
    BY <1>1, <1>4 DEF IdleWorker
  <1>6. RunOf(w) = NoRunId
    BY DEF ReadGroup, At, Holding, Executing, IInv, WorkerInv
  <1>7. UNCHANGED <<runs, faults, crashes>> /\ m.count = 1 /\ m.state = "pending"
    BY DEF ReadGroup, rows
  <1> HIDE DEF m
  <1> QED
    BY <1>3, <1>4, <1>5, <1>6, <1>7, DeliveryDelivers

LEMMA AutoClaimDelivers ==
    ASSUME BeforeStep, IInv', NEW w \in Workers, AutoClaim(w)
    PROVE  Delivers
  <1> USE DEF BeforeStep
  <1>1. At(w, "autoclaim") /\ UNCHANGED <<rows, stream, delivered, dlq, faults, crashes>>
    BY DEF AutoClaim
  <1>2. CASE GiveUp(w) /\ UNCHANGED msg
    BY <1>1, <1>2, ReadNothingDelivers
  <1>3. ASSUME NEW i \in Reclaimable, NEW r, r = stream[i],
               msg' = [msg EXCEPT ![r] = [state |-> "pending", idle |-> 0, count |-> @.count + 1]],
               worker' = [worker EXCEPT ![w] = [IdleWorker EXCEPT
                            !.pc = "retry_count", !.run = r, !.attempt = msg[r].count + 1]]
        PROVE  Delivers
    <2> DEFINE m == [state |-> "pending", idle |-> 0, count |-> msg[r].count + 1]
    <2>1. /\ stream \in Seq(Runs) /\ msg \in [Runs -> Message] /\ ReclaimMinIdle \in Nat
          /\ worker \in [Workers -> Worker]
      BY RunWorkerAssumption DEF IInv, TypeOK
    <2>2. r \in Runs /\ msg[r].state = "pending" /\ msg[r] \in Message
      BY <1>3, <2>1 DEF Reclaimable
    <2>3. m \in Message /\ m.state = "pending" /\ m.count = msg[r].count + 1
      BY <2>1, <2>2 DEF Message
    <2>4. msg' = [msg EXCEPT ![r] = m]
      BY <1>3, <2>1, <2>2
    <2>5. /\ worker'[w].run = r /\ worker'[w].attempt = m.count /\ worker'[w].pc = "retry_count"
          /\ \A v \in Workers : v # w => worker'[v] = worker[v]
      BY <1>3, <2>1, <2>3 DEF IdleWorker
    <2>6. RunOf(w) = NoRunId
      BY <1>1 DEF At, Holding, Executing, IInv, WorkerInv
    <2>7. UNCHANGED <<runs, faults, crashes>>
      BY <1>1 DEF rows
    <2> HIDE DEF m
    <2> QED
      BY <2>2, <2>3, <2>4, <2>5, <2>6, <2>7, DeliveryDelivers
  <1> QED
    BY <1>2, <1>3 DEF AutoClaim

\* Steps of the environment.
LEMMA OthersDeliver ==
    ASSUME BeforeStep, IInv', UNCHANGED <<worker, faults, crashes>>,
           \A r \in Runs : /\ runs'[r].attempt = runs[r].attempt /\ msg'[r].count = msg[r].count
                           /\ msg'[r].state = "acked" <=> msg[r].state = "acked"
    PROVE  Delivers
  <1> SUFFICES ASSUME NEW r \in Runs
               PROVE  DeliveryNext(r)
    BY DEF Delivers
  <1>1. /\ \A w \in Workers : (Dying(w, r)' <=> Dying(w, r)) /\ (Tending(w, r)' <=> Tending(w, r))
        /\ Lost' = Lost
    BY DEF Dying, Tending, RunOf, Lost
  <1>2. Dyings(r)' = Dyings(r) /\ Late(r)' = Late(r)
    BY <1>1 DEF Dyings, Late
  <1>3. (Covered(r)' <=> Covered(r)) /\ (Spare(r)' <=> Spare(r)) /\ (Bounded(r)' <=> Bounded(r))
    BY <1>1, <1>2 DEF Covered, Spare, Bounded
  <1>4. Tended(r) => Tended(r)'
    BY <1>1, <1>3 DEF Tended
  <1> QED
    BY <1>3, <1>4 DEF BeforeStep, DeliveryNext, DeliveryOK

LEMMA EnvironmentDelivers ==
    ASSUME BeforeStep, IInv', Tick \/ UNCHANGED vars \/ \E r \in Runs : Enqueue(r) \/ Cancel(r)
    PROVE  Delivers
  <1>1. UNCHANGED <<worker, faults, crashes>>
    BY DEF Tick, Enqueue, Cancel, vars
  <1>2. runs \in [Runs -> Run] /\ msg \in [Runs -> Message]
    BY DEF BeforeStep, IInv, TypeOK
  <1>3. \A r \in Runs : runs'[r].attempt = runs[r].attempt
    <2>1. CASE Tick
      BY <1>2, <2>1 DEF Tick, Run
    <2>2. ASSUME NEW r \in Runs, Cancel(r)
          PROVE  \A q \in Runs : runs'[q].attempt = runs[q].attempt
      BY <2>2, StatusHolder DEF Cancel, BeforeStep, RunStatuses, FinalStatuses
    <2>3. CASE UNCHANGED runs
      BY <2>3
    <2> QED
      BY <2>1, <2>2, <2>3 DEF Enqueue, rows, vars
  <1>4. \A r \in Runs : /\ msg'[r].count = msg[r].count
                        /\ msg'[r].state = "acked" <=> msg[r].state = "acked"
    <2>1. CASE Tick
      BY <1>2, <2>1 DEF Tick, Message
    <2>2. ASSUME NEW r \in Runs, Enqueue(r)
          PROVE  \A q \in Runs : /\ msg'[q].count = msg[q].count
                                 /\ msg'[q].state = "acked" <=> msg[q].state = "acked"
      BY <1>2, <2>2 DEF Enqueue, Message
    <2>3. CASE UNCHANGED msg
      BY <2>3
    <2> QED
      BY <2>1, <2>2, <2>3 DEF Cancel, queue, vars
  <1> QED
    BY <1>1, <1>3, <1>4, OthersDeliver

\* Every step keeps the deliveries of every message within their bound.
LEMMA NextDelivers == ASSUME BeforeStep, IInv', [Next]_vars PROVE Delivers
  <1>1. ASSUME NEW w \in Workers, WorkerStep(w) \/ Heartbeat(w) \/ Crash(w) PROVE Delivers
    <2>1. CASE ReadEmpty(w)
      BY <2>1, ReadNothingDelivers DEF ReadEmpty, queue
    <2> QED
      BY <1>1, <2>1, ReadGroupDelivers, AutoClaimDelivers, RetryCountDelivers, DeadLetterDelivers,
         FetchDelivers, ClaimDelivers, EngineDelivers, HeartbeatDelivers, CrashDelivers DEF WorkerStep
  <1> QED
    BY <1>1, EnvironmentDelivers DEF Next

\* The delivery invariant of all runs, for the limits that are one at least two.
DeliveryInv == MaxDeliveries > 1 => \A r \in Runs : DeliveryOK(r)

\* A message is delivered at most as often as the limit, the failures and the
\* workers that reclaim it while another is dead-lettering it allow, for every
\* number of workers, runs, failed calls and crashes (ProcessNext,
\* PendingRetryCount, ClaimRunAttempt).
THEOREM DeliveriesWithinBound == Spec => []DeliveriesBounded
  <1>1. Init => DeliveryInv
    <2> SUFFICES ASSUME Init, MaxDeliveries > 1, NEW r \in Runs
                 PROVE  DeliveryOK(r)
      BY DEF DeliveryInv
    <2>1. IInv
      BY InitKeeps
    <2>2. msg[r].count = 0 /\ msg[r].state = "none" /\ runs[r].attempt = NoAttempt
      BY DEF Init, QueuedRun, NoRun
    <2>3. Late(r) = 0
      BY <2>2, RunWorkerAssumption DEF Late
    <2>4. Covered(r)
      BY <2>1, <2>3, Counts DEF Covered
    <2> QED
      BY <2>2, <2>4 DEF DeliveryOK, Tended
  <1>2. IInv /\ IInv' /\ DeliveryInv /\ [Next]_vars => DeliveryInv'
    <2> SUFFICES ASSUME IInv, IInv', DeliveryInv, [Next]_vars, MaxDeliveries > 1, NEW r \in Runs
                 PROVE  DeliveryNext(r)
      BY DEF DeliveryInv, DeliveryNext
    <2>1. BeforeStep
      BY DEF BeforeStep, DeliveryInv
    <2> QED
      BY <2>1, NextDelivers DEF Delivers
  <1>3. IInv /\ DeliveryInv => DeliveriesBounded
    <2> SUFFICES ASSUME IInv, DeliveryInv, MaxDeliveries > 1, NEW r \in Runs
                 PROVE  msg[r].count <= MaxDeliveries + faults + crashes + Cardinality(Workers) - 2
      BY DEF DeliveriesBounded
    <2>1. Bounded(r)
      BY TendedBounded DEF DeliveryInv, DeliveryOK
    <2>2. /\ msg[r].count \in Nat /\ MaxDeliveries \in Nat /\ Cardinality(Workers) \in Nat
          /\ faults \in Nat /\ crashes \in Nat
      BY Counts, RunWorkerAssumption DEF IInv, TypeOK
    <2> QED
      BY <2>1, <2>2 DEF Bounded, Lost
  <1> QED
    BY <1>1, <1>2, <1>3, Invariance, PTL DEF Spec

-----------------------------------------------------------------------------
(* ModelCalls *)

\* The calls that occupy a slot of t.
Holders(t) == {c \in Callers : TargetOf(c) = t /\ call[c].pc \in {"window", "request", "pause"}}

SlotsInv == \A t \in Targets : slots[t] = Cardinality(Holders(t)) /\ slots[t] <= MaxConcurrent

\* What the present window has not counted was admitted before its start, and all but the
\* last window of it a minute before.
WindowOK(a, w) ==
    /\ w.used <= requestsPerMinute /\ w.used <= Len(a) /\ w.start <= now
    /\ w.used = 0 => Len(a) = 0
    /\ \A i \in 1..Len(a) :
         /\ a[i] <= now
         /\ i <= Len(a) - w.used => a[i] <= w.start
         /\ i <= Len(a) - w.used - requestsPerMinute => a[i] + Minute <= w.start
    /\ \A i \in 1..Len(a) : i + 2 * requestsPerMinute <= Len(a) =>
         a[i + 2 * requestsPerMinute] - a[i] >= Minute

RateInv == requestsPerMinute > 0 => \A t \in Targets : WindowOK(admitted[t], window[t])

\* The messages that a runner has yet to be handed.
Pending == {c \in Runners : CallAt(c, "returned") /\ call[c].result = "ok"}

\* A call pauses only before an attempt that it has left.
PauseInv == \A c \in Callers : CallAt(c, "pause") => call[c].attempt < MaxAttempts

CallsInv == ModelTypeOK /\ PauseInv /\ SlotsInv /\ RateInv /\ AnswersCountedOnce

-----------------------------------------------------------------------------
Ticks == Seq(0..MaxTicks)

\* What a call may do to the slots: take one of its target, give it back, or neither.
LEMMA HoldersFinite == ASSUME NEW t \in Targets PROVE IsFiniteSet(Holders(t))
  <1>1. IsFiniteSet(Callers)
    BY CallersAssumption, FS_AddElement DEF Callers
  <1> QED
    BY <1>1, FS_Subset DEF Holders

Held(c) == call[c].pc \in {"window", "request", "pause"}

\* The calls of the others stay what they are.
OnlyCall(c) ==
    /\ call' \in [Callers -> Call]
    /\ \A d \in Callers : d # c => call'[d] = call[d]

LEMMA SlotTaken ==
    ASSUME ModelTypeOK, SlotsInv, NEW c \in Callers, ~Held(c), OnlyCall(c), Held(c)',
           call'[c].target = TargetOf(c), slots[TargetOf(c)] < MaxConcurrent,
           slots' = [slots EXCEPT ![TargetOf(c)] = @ + 1]
    PROVE  SlotsInv'
  <1> SUFFICES ASSUME NEW t \in Targets
               PROVE  slots'[t] = Cardinality(Holders(t)') /\ slots'[t] <= MaxConcurrent
    BY DEF SlotsInv
  <1>0. TargetOf(c) \in Targets /\ slots[t] \in Nat /\ slots \in [Targets -> Nat] /\ MaxConcurrent \in Nat
    BY LimitsAssumption DEF ModelTypeOK, TargetOf, Call
  <1>1. CASE t = TargetOf(c)
    <2>1. Holders(t)' = Holders(t) \cup {c} /\ c \notin Holders(t)
      BY <1>1 DEF Holders, Held, OnlyCall, TargetOf
    <2>2. Cardinality(Holders(t)') = Cardinality(Holders(t)) + 1
      BY <2>1, HoldersFinite, FS_AddElement
    <2> QED
      BY <1>0, <1>1, <2>2 DEF SlotsInv
  <1>2. CASE t # TargetOf(c)
    <2>1. Holders(t)' = Holders(t)
      BY <1>2 DEF Holders, Held, OnlyCall, TargetOf
    <2> QED
      BY <1>0, <1>2, <2>1 DEF SlotsInv
  <1> QED
    BY <1>1, <1>2

LEMMA SlotGivenBack ==
    ASSUME ModelTypeOK, SlotsInv, NEW c \in Callers, Held(c), OnlyCall(c), ~Held(c)',
           slots' = [slots EXCEPT ![TargetOf(c)] = @ - 1]
    PROVE  SlotsInv' /\ slots' \in [Targets -> Nat]
  <1>0. /\ TargetOf(c) \in Targets /\ slots \in [Targets -> Nat]
        /\ MaxConcurrent \in Nat
    BY LimitsAssumption DEF ModelTypeOK, TargetOf, Call
  <1>1. ASSUME NEW t \in Targets
        PROVE  slots'[t] = Cardinality(Holders(t)') /\ slots'[t] \in Nat /\ slots'[t] <= MaxConcurrent
    <2>1. CASE t = TargetOf(c)
      <3>1. Holders(t)' = Holders(t) \ {c} /\ c \in Holders(t)
        BY <2>1 DEF Holders, Held, OnlyCall, TargetOf
      <3>2. /\ Cardinality(Holders(t)') = Cardinality(Holders(t)) - 1
            /\ IsFiniteSet(Holders(t)')
        BY <3>1, HoldersFinite, FS_RemoveElement
      <3>3. Cardinality(Holders(t)') \in Nat
        BY <3>2, FS_CardinalityType
      <3> QED
        BY <1>0, <2>1, <3>2, <3>3 DEF SlotsInv
    <2>2. CASE t # TargetOf(c)
      <3>1. Holders(t)' = Holders(t)
        BY <2>2 DEF Holders, Held, OnlyCall, TargetOf
      <3> QED
        BY <1>0, <2>2, <3>1 DEF SlotsInv
    <2> QED
      BY <2>1, <2>2
  <1> QED
    BY <1>0, <1>1 DEF SlotsInv

LEMMA SlotsUntouched ==
    ASSUME ModelTypeOK, SlotsInv, NEW c \in Callers, OnlyCall(c), slots' = slots,
           Held(c)' <=> Held(c), Held(c) => call'[c].target = TargetOf(c)
    PROVE  SlotsInv'
  <1> SUFFICES ASSUME NEW t \in Targets PROVE Holders(t)' = Holders(t)
    BY DEF SlotsInv
  <1> QED
    BY DEF Holders, Held, OnlyCall, TargetOf

-----------------------------------------------------------------------------
\* A call is admitted to the present window, or starts a new one.
LEMMA WindowAdmits ==
    ASSUME NEW a \in Ticks, NEW w \in [start : 0..MaxTicks, used : Nat], now \in 0..MaxTicks,
           requestsPerMinute \in Nat, requestsPerMinute > 0, WindowOK(a, w),
           now' = now, requestsPerMinute' = requestsPerMinute,
           NEW b \in Ticks, b = Append(a, now), NEW v \in [start : 0..MaxTicks, used : Nat],
           \/ WindowOver(w) /\ v.start = now /\ v.used = 1
           \/ ~WindowOver(w) /\ w.used < requestsPerMinute /\ v.start = w.start /\ v.used = w.used + 1
    PROVE  WindowOK(b, v)'
  <1> DEFINE n == Len(a)
             rpm == requestsPerMinute
  <1>1. /\ n \in Nat /\ Len(b) = n + 1 /\ b[n + 1] = now
        /\ \A i \in 1..n : i \in 1..(n + 1) /\ b[i] = a[i] /\ a[i] \in Int
    BY ModelBounds DEF Ticks
  <1>2. /\ w.used \in Nat /\ w.start \in Int /\ v.used \in Nat /\ v.start \in Int
        /\ Minute \in Nat /\ now \in Int /\ rpm \in Nat
    BY ModelBounds, LimitsAssumption
  <1>3. /\ w.used <= rpm /\ w.used <= n /\ w.start <= now /\ (w.used = 0 => n = 0)
        /\ \A i \in 1..n :
             /\ a[i] <= now
             /\ i <= n - w.used => a[i] <= w.start
             /\ i <= n - w.used - rpm => a[i] + Minute <= w.start
        /\ \A i \in 1..n : i + 2 * rpm <= n => a[i + 2 * rpm] - a[i] >= Minute
    BY DEF WindowOK
  <1> HIDE DEF n, rpm
  <1>4. /\ v.used > 0 /\ v.used <= rpm /\ v.used <= n + 1 /\ v.start <= now
        /\ n + 1 - v.used <= n
    BY <1>1, <1>2, <1>3 DEF rpm
  <1>5. ASSUME NEW i \in 1..n
        PROVE  /\ b[i] <= now
               /\ i <= n + 1 - v.used => b[i] <= v.start
               /\ i <= n + 1 - v.used - rpm => b[i] + Minute <= v.start
               /\ i + 2 * rpm = n + 1 => b[i] + Minute <= now
    <2>1. i \in Int /\ 1 <= i /\ i <= n /\ b[i] = a[i] /\ a[i] \in Int /\ rpm > 0
      BY <1>1 DEF rpm
    <2>2. /\ a[i] <= now
          /\ i <= n - w.used => a[i] <= w.start
          /\ i <= n - w.used - rpm => a[i] + Minute <= w.start
      BY <1>3
    <2>3. CASE WindowOver(w) /\ v.start = now /\ v.used = 1
      <3>1. now - w.start >= Minute
        BY <1>1, <1>3, <2>1, <2>3 DEF WindowOver
      <3> QED
        BY <1>1, <1>2, <1>3, <2>1, <2>2, <2>3, <3>1
    <2>4. CASE w.used < rpm /\ v.start = w.start /\ v.used = w.used + 1
      <3>1. n + 1 - v.used = n - w.used /\ n + 1 - v.used - rpm = n - w.used - rpm
        BY <1>1, <1>2, <2>4
      <3>2. i + 2 * rpm = n + 1 => i <= n - w.used - rpm
        BY <1>1, <1>2, <2>1, <2>4
      <3>3. w.start <= now
        BY <1>3
      <3>4. i + 2 * rpm = n + 1 => a[i] + Minute <= now
        BY <1>2, <2>1, <2>2, <3>2, <3>3
      <3> QED
        BY <2>1, <2>2, <2>4, <3>1, <3>4
    <2> QED
      BY <2>3, <2>4 DEF rpm
  <1>6. ASSUME NEW i \in 1..Len(b), i + 2 * rpm <= Len(b)
        PROVE  b[i + 2 * rpm] - b[i] >= Minute
    <2>1. i \in 1..n /\ i + 2 * rpm \in 1..(n + 1)
      BY <1>1, <1>2, <1>6 DEF rpm
    <2>2. CASE i + 2 * rpm = n + 1
      <3>1. b[i + 2 * rpm] = now
        BY <1>1, <2>2, Zenon
      <3>2. b[i] + Minute <= now /\ b[i] \in Int
        BY <1>1, <1>5, <2>1, <2>2
      <3> QED
        BY <1>2, <3>1, <3>2
    <2>3. CASE i + 2 * rpm # n + 1
      <3>1. i + 2 * rpm \in 1..n
        BY <1>1, <1>2, <2>1, <2>3
      <3>2. a[i + 2 * rpm] - a[i] >= Minute /\ b[i + 2 * rpm] = a[i + 2 * rpm] /\ b[i] = a[i]
        BY <1>1, <1>2, <1>3, <2>1, <3>1
      <3> QED
        BY <3>2
    <2> QED
      BY <2>2, <2>3
  <1>7. ASSUME NEW i \in 1..Len(b)
        PROVE  /\ b[i] <= now
               /\ i <= Len(b) - v.used => b[i] <= v.start
               /\ i <= Len(b) - v.used - rpm => b[i] + Minute <= v.start
    <2>1. CASE i \in 1..n
      <3>1. Len(b) - v.used = n + 1 - v.used /\ Len(b) - v.used - rpm = n + 1 - v.used - rpm
        BY <1>1, <1>2
      <3> QED
        BY <1>5, <2>1, <3>1
    <2>2. CASE i = n + 1
      <3>1. b[i] = now
        BY <1>1, <2>2, Zenon
      <3>2. ~(i <= Len(b) - v.used) /\ ~(i <= Len(b) - v.used - rpm)
        BY <1>1, <1>2, <1>4, <2>2
      <3> QED
        BY <1>2, <3>1, <3>2
    <2> QED
      BY <1>1, <2>1, <2>2
  <1>8. v.used <= Len(b) /\ v.used # 0 /\ v.used <= rpm /\ v.start <= now
    BY <1>1, <1>2, <1>4
  <1> QED
    BY <1>6, <1>7, <1>8 DEF WindowOK, rpm

LEMMA RateUntouched ==
    ASSUME ModelTypeOK, RateInv, UNCHANGED <<requestsPerMinute, window, admitted>>,
           now' = now \/ now' = now + 1
    PROVE  RateInv'
  <1> SUFFICES ASSUME requestsPerMinute > 0, NEW t \in Targets
               PROVE  WindowOK(admitted[t], window[t])'
    BY DEF RateInv
  <1>1. WindowOK(admitted[t], window[t])
    BY DEF RateInv
  <1>2. now \in Int /\ now <= now'
    BY ModelBounds DEF ModelTypeOK
  <1>3. \A i \in 1..Len(admitted[t]) : admitted[t][i] <= now'
    <2>1. \A i \in 1..Len(admitted[t]) : admitted[t][i] \in Int
      BY ModelBounds DEF ModelTypeOK
    <2> QED
      BY <1>1, <1>2, <2>1, ModelBounds DEF WindowOK
  <1>4. window[t].start <= now'
    BY <1>1, <1>2, ModelBounds DEF WindowOK, ModelTypeOK
  <1> QED
    BY <1>1, <1>3, <1>4 DEF WindowOK

LEMMA RateOfCall ==
    ASSUME ModelTypeOK, RateInv, NEW c \in Callers, ReserveRequest(c)
    PROVE  RateInv'
  <1> DEFINE t == TargetOf(c)
             a == admitted[t]
             w == window[t]
  <1> SUFFICES ASSUME requestsPerMinute > 0, NEW u \in Targets
               PROVE  WindowOK(admitted[u], window[u])'
    BY DEF RateInv, ReserveRequest, engineVars
  <1>1. /\ t \in Targets /\ now \in 0..MaxTicks /\ requestsPerMinute \in Nat
        /\ a \in Ticks /\ w \in [start : 0..MaxTicks, used : Nat]
        /\ admitted \in [Targets -> Ticks] /\ window \in [Targets -> [start : 0..MaxTicks, used : Nat]]
    BY DEF ModelTypeOK, TargetOf, Call, Ticks
  <1>2. /\ WindowOK(a, w) /\ WindowOK(admitted[u], window[u])
        /\ now' = now /\ requestsPerMinute' = requestsPerMinute
    BY <1>1 DEF RateInv, ReserveRequest, engineVars
  <1>3. CASE u = t /\ AdmitRequest(c)
    <2>1. admitted' = [admitted EXCEPT ![t] = Append(@, now)]
      BY <1>3 DEF AdmitRequest
    <2>2. admitted'[t] = Append(a, now) /\ admitted'[t] \in Ticks /\ admitted'[t] # a
      BY <1>1, <2>1 DEF Ticks
    <2>3. ~Deny(c)
      BY <2>2 DEF Deny
    <2>4. /\ window'[t] \in [start : 0..MaxTicks, used : Nat]
          /\ \/ WindowOver(w) /\ window'[t].start = now /\ window'[t].used = 1
             \/ /\ ~WindowOver(w) /\ w.used < requestsPerMinute
                /\ window'[t].start = w.start /\ window'[t].used = w.used + 1
      BY <1>1, <2>3 DEF ReserveRequest
    <2>5. PICK b \in Ticks, v \in [start : 0..MaxTicks, used : Nat] : b = admitted'[t] /\ v = window'[t]
      BY <2>2, <2>4
    <2>6. WindowOK(b, v)'
      BY <1>1, <1>2, <2>2, <2>4, <2>5, WindowAdmits
    <2> QED
      BY <1>3, <2>5, <2>6 DEF WindowOK
  <1>4. CASE u # t \/ ~AdmitRequest(c)
    <2>1. admitted'[u] = admitted[u] /\ window'[u] = window[u]
      BY <1>1, <1>4 DEF ReserveRequest, AdmitRequest, Deny
    <2> QED
      BY <1>2, <2>1 DEF WindowOK
  <1> QED
    BY <1>3, <1>4

-----------------------------------------------------------------------------
\* What a step does to the messages: none is paid for and none handed over, one comes from
\* the provider, or one is handed to the engine.
LEMMA PendingFinite == IsFiniteSet(Pending) /\ Cardinality(Pending) \in Nat
  BY CallersAssumption, FS_Subset, FS_CardinalityType DEF Pending

InPending(c) == c \in Runners /\ CallAt(c, "returned") /\ call[c].result = "ok"

LEMMA NoMessage ==
    ASSUME ModelTypeOK, AnswersCountedOnce, NEW c \in Callers, OnlyCall(c),
           InPending(c)' <=> InPending(c), tokens' = tokens, answers' = answers
    PROVE  AnswersCountedOnce'
  <1>1. Pending' = Pending
    BY DEF Pending, InPending, OnlyCall, CallAt, Callers
  <1> QED
    BY <1>1 DEF AnswersCountedOnce, Pending

LEMMA MessagePaid ==
    ASSUME ModelTypeOK, AnswersCountedOnce, NEW c \in Callers, OnlyCall(c),
           ~InPending(c), InPending(c)', NEW t \in Targets,
           tokens' = [tokens EXCEPT ![t] = @ + 1], answers' = answers
    PROVE  AnswersCountedOnce'
  <1>1. Pending' = Pending \cup {c} /\ c \notin Pending
    BY DEF Pending, InPending, OnlyCall, CallAt, Callers
  <1>2. Cardinality(Pending') = Cardinality(Pending) + 1 /\ Cardinality(Pending) \in Nat
    BY <1>1, PendingFinite, FS_AddElement
  <1>3. tokens'["primary"] + tokens'["fallback"] = tokens["primary"] + tokens["fallback"] + 1
    <2>1. tokens["primary"] \in Nat /\ tokens["fallback"] \in Nat /\ t \in {"primary", "fallback"}
      BY DEF ModelTypeOK, Targets
    <2>2. \A u \in Targets : tokens'[u] = IF u = t THEN tokens[u] + 1 ELSE tokens[u]
      BY DEF ModelTypeOK
    <2>3. /\ tokens'["primary"] = IF "primary" = t THEN tokens["primary"] + 1 ELSE tokens["primary"]
          /\ tokens'["fallback"] = IF "fallback" = t THEN tokens["fallback"] + 1 ELSE tokens["fallback"]
      BY <2>2 DEF Targets
    <2>4. CASE t = "primary"
      BY <2>1, <2>3, <2>4
    <2>5. CASE t = "fallback"
      BY <2>1, <2>3, <2>5
    <2> QED
      BY <2>1, <2>4, <2>5
  <1>4. tokens["primary"] + tokens["fallback"] = answers + Cardinality(Pending)
    BY DEF AnswersCountedOnce, Pending
  <1>5. answers \in Nat /\ tokens["primary"] \in Nat /\ tokens["fallback"] \in Nat
    BY DEF ModelTypeOK, Targets
  <1>6. tokens'["primary"] + tokens'["fallback"] = answers' + Cardinality(Pending')
    BY <1>2, <1>3, <1>4, <1>5
  <1> QED
    BY <1>6 DEF AnswersCountedOnce, Pending

LEMMA MessageHanded ==
    ASSUME ModelTypeOK, AnswersCountedOnce, NEW c \in Callers, OnlyCall(c),
           InPending(c), ~InPending(c)', tokens' = tokens, answers' = answers + 1
    PROVE  AnswersCountedOnce'
  <1>1. Pending' = Pending \ {c} /\ c \in Pending
    BY DEF Pending, InPending, OnlyCall, CallAt, Callers
  <1>2. Cardinality(Pending') = Cardinality(Pending) - 1 /\ Cardinality(Pending) \in Nat
    BY <1>1, PendingFinite, FS_RemoveElement
  <1>3. tokens["primary"] + tokens["fallback"] = answers + Cardinality(Pending)
    BY DEF AnswersCountedOnce, Pending
  <1>4. answers \in Nat /\ tokens["primary"] \in Nat /\ tokens["fallback"] \in Nat
    BY DEF ModelTypeOK, Targets
  <1>5. tokens'["primary"] + tokens'["fallback"] = answers' + Cardinality(Pending')
    BY <1>2, <1>3, <1>4
  <1> QED
    BY <1>5 DEF AnswersCountedOnce, Pending

-----------------------------------------------------------------------------
(* The steps *)

LEMMA CallMoves ==
    ASSUME ModelTypeOK, NEW c \in Callers, NEW pc,
           pc \in {"idle", "wait", "window", "request", "pause", "returned", "done"}, CallGoto(c, pc)
    PROVE  /\ OnlyCall(c) /\ call'[c].pc = pc
           /\ call'[c].target = TargetOf(c) /\ call'[c].result = call[c].result
           /\ call'[c].attempt = call[c].attempt
  BY DEF ModelTypeOK, OnlyCall, CallGoto, Call, TargetOf

LEMMA PausesAllowed ==
    ASSUME PauseInv, NEW c \in Callers, OnlyCall(c),
           call'[c].pc = "pause" => call'[c].attempt < MaxAttempts
    PROVE  PauseInv'
  BY DEF PauseInv, OnlyCall, CallAt

\* A call that held a slot returns.
LEMMA CallReturned ==
    ASSUME CallsInv, NEW c \in Callers, Held(c), NEW result \in {"ok", "transient", "failed"},
           Returns(c, result), UNCHANGED <<requestsPerMinute, now, window, admitted>>
    PROVE  /\ OnlyCall(c) /\ slots' \in [Targets -> Nat] /\ PauseInv' /\ SlotsInv' /\ RateInv'
           /\ ~InPending(c)
           /\ InPending(c)' <=> c \in Runners /\ result = "ok"
  <1>1. OnlyCall(c) /\ call'[c].pc = "returned" /\ call'[c].result = result
    <2> DEFINE r == [call[c] EXCEPT !.pc = "returned", !.result = result]
    <2>1. call \in [Callers -> Call] /\ call[c] \in Call
      BY DEF CallsInv, ModelTypeOK
    <2>2. r \in Call /\ r.pc = "returned" /\ r.result = result
      BY <2>1 DEF Call
    <2>3. call' = [call EXCEPT ![c] = r]
      BY DEF Returns
    <2> HIDE DEF r
    <2> QED
      BY <2>1, <2>2, <2>3 DEF OnlyCall
  <1>2. slots' \in [Targets -> Nat] /\ SlotsInv'
    BY <1>1, SlotGivenBack DEF CallsInv, Returns, Held
  <1>3. RateInv'
    BY RateUntouched DEF CallsInv
  <1>4. PauseInv'
    BY <1>1, PausesAllowed DEF CallsInv
  <1> QED
    BY <1>1, <1>2, <1>3, <1>4 DEF InPending, CallAt, Held

\* What a step that is no message and takes no slot leaves alone.
LEMMA CallMoved ==
    ASSUME CallsInv, NEW c \in Callers, OnlyCall(c), slots' = slots,
           UNCHANGED <<requestsPerMinute, now, window, admitted, tokens, answers>>,
           Held(c)' <=> Held(c), Held(c) => call'[c].target = TargetOf(c),
           InPending(c)' <=> InPending(c),
           call'[c].pc = "pause" => call'[c].attempt < MaxAttempts
    PROVE  PauseInv' /\ SlotsInv' /\ RateInv' /\ AnswersCountedOnce'
  <1>1. SlotsInv'
    BY SlotsUntouched DEF CallsInv
  <1>2. RateInv'
    BY RateUntouched DEF CallsInv
  <1>3. AnswersCountedOnce'
    BY NoMessage DEF CallsInv
  <1>4. PauseInv'
    BY PausesAllowed DEF CallsInv
  <1> QED
    BY <1>1, <1>2, <1>3, <1>4

LEMMA Budgeted ==
    ASSUME ModelTypeOK, NEW what \in {"faults", "ends", "calls"}, Spend(what), now' = now
    PROVE  budget' \in [ticks : 0..(MaxTicks - now'), faults : Nat, ends : Nat, calls : Nat]
  <1>1. /\ budget \in [ticks : 0..(MaxTicks - now'), faults : Nat, ends : Nat, calls : Nat]
        /\ budget[what] > 0 /\ budget' = [budget EXCEPT ![what] = @ - 1]
    BY DEF ModelTypeOK, Spend
  <1>2. CASE what = "faults"
    BY <1>1, <1>2
  <1>3. CASE what = "ends"
    BY <1>1, <1>3
  <1>4. CASE what = "calls"
    BY <1>1, <1>4
  <1> QED
    BY <1>2, <1>3, <1>4

LEMMA WaitingSteps ==
    ASSUME CallsInv, NEW c \in Callers, AcquireSlot(c) \/ StopWaiting(c) \/ ReserveRequest(c)
    PROVE  CallsInv'
  <1>1. ModelTypeOK /\ call[c] \in Call /\ TargetOf(c) \in Targets /\ now \in 0..MaxTicks
    BY DEF CallsInv, ModelTypeOK, TargetOf, Call
  <1>2. CASE AcquireSlot(c)
    <2>1. /\ OnlyCall(c) /\ call'[c].pc = "window" /\ call'[c].target = TargetOf(c)
      BY <1>1, <1>2, CallMoves DEF AcquireSlot
    <2>2. SlotsInv'
      BY <1>1, <1>2, <2>1, SlotTaken DEF CallsInv, AcquireSlot, Held, CallAt
    <2>3. ModelTypeOK'
      BY <1>1, <1>2, <2>1 DEF ModelTypeOK, AcquireSlot, OnlyCall, engineVars
    <2>4. RateInv'
      BY <1>1, <1>2, RateUntouched DEF CallsInv, AcquireSlot, engineVars
    <2>5. AnswersCountedOnce'
      BY <1>1, <1>2, <2>1, NoMessage DEF CallsInv, AcquireSlot, InPending, CallAt, engineVars
    <2>6. PauseInv'
      BY <2>1, PausesAllowed DEF CallsInv
    <2> QED
      BY <2>2, <2>3, <2>4, <2>5, <2>6 DEF CallsInv
  <1>3. CASE StopWaiting(c)
    <2>1. /\ OnlyCall(c) /\ call'[c].pc = "returned" /\ call'[c].result = "failed"
      BY <1>1, <1>3 DEF StopWaiting, ModelTypeOK, OnlyCall, Call
    <2>2. ModelTypeOK'
      BY <1>1, <1>3, <2>1 DEF ModelTypeOK, StopWaiting, OnlyCall, engineVars, providerVars
    <2>3. PauseInv' /\ SlotsInv' /\ RateInv' /\ AnswersCountedOnce'
      BY <1>3, <2>1, CallMoved DEF StopWaiting, Held, InPending, CallAt, engineVars, providerVars
    <2> QED
      BY <2>2, <2>3 DEF CallsInv
  <1>4. CASE ReserveRequest(c)
    <2>1. RateInv'
      BY <1>1, <1>4, RateOfCall DEF CallsInv
    <2>2. CASE AdmitRequest(c)
      <3>1. /\ OnlyCall(c) /\ call'[c].pc = "request" /\ call'[c].target = TargetOf(c)
        <4> DEFINE r == [call[c] EXCEPT !.pc = "request", !.attempt = 1]
        <4>1. 1 \in 1..MaxAttempts
          BY LimitsAssumption
        <4>2. r \in Call /\ r.pc = "request" /\ r.target = TargetOf(c)
          BY <1>1, <4>1 DEF Call, TargetOf
        <4>3. call \in [Callers -> Call] /\ call' = [call EXCEPT ![c] = r]
          BY <1>1, <2>2 DEF AdmitRequest, ModelTypeOK
        <4> HIDE DEF r
        <4> QED
          BY <4>2, <4>3 DEF OnlyCall
      <3>2. SlotsInv'
        BY <1>1, <1>4, <2>2, <3>1, SlotsUntouched DEF CallsInv, ReserveRequest, AdmitRequest, Held, CallAt
      <3>3. AnswersCountedOnce'
        BY <1>1, <1>4, <2>2, <3>1, NoMessage
        DEF CallsInv, ReserveRequest, InPending, CallAt, engineVars
      <3>4. window' \in [Targets -> [start : 0..MaxTicks, used : Nat]]
        <4>1. window \in [Targets -> [start : 0..MaxTicks, used : Nat]]
          BY <1>1 DEF ModelTypeOK
        <4>2. CASE window' = window
          BY <4>1, <4>2
        <4>3. CASE window' = [window EXCEPT ![TargetOf(c)] = [start |-> now, used |-> 1]]
          BY <1>1, <4>1, <4>3
        <4>4. CASE window' = [window EXCEPT ![TargetOf(c)].used = @ + 1]
          BY <1>1, <4>1, <4>4
        <4> QED
          BY <1>4, <4>2, <4>3, <4>4 DEF ReserveRequest, Deny
      <3>5. admitted' \in [Targets -> Seq(0..MaxTicks)]
        <4>1. /\ admitted \in [Targets -> Seq(0..MaxTicks)]
              /\ admitted' = [admitted EXCEPT ![TargetOf(c)] = Append(@, now)]
          BY <1>1, <2>2 DEF ModelTypeOK, AdmitRequest
        <4>2. Append(admitted[TargetOf(c)], now) \in Seq(0..MaxTicks)
          BY <1>1, <4>1
        <4> QED
          BY <4>1, <4>2
      <3>6. ModelTypeOK'
        BY <1>1, <1>4, <2>2, <3>1, <3>4, <3>5
        DEF ModelTypeOK, ReserveRequest, AdmitRequest, OnlyCall, engineVars
      <3>7. PauseInv'
        BY <3>1, PausesAllowed DEF CallsInv
      <3> QED
        BY <2>1, <3>2, <3>3, <3>6, <3>7 DEF CallsInv
    <2>3. CASE Deny(c)
      <3>1. UNCHANGED <<requestsPerMinute, now, window, admitted, tokens, answers, context, budget>>
        BY <1>4, <2>3 DEF ReserveRequest, Deny, engineVars
      <3>2. Held(c) /\ Returns(c, "transient")
        BY <1>4, <2>3 DEF ReserveRequest, Deny, Held, CallAt
      <3>3. /\ OnlyCall(c) /\ slots' \in [Targets -> Nat] /\ PauseInv' /\ SlotsInv'
            /\ InPending(c)' <=> InPending(c)
        <4>1. "transient" \in {"ok", "transient", "failed"} /\ "transient" # "ok"
          OBVIOUS
        <4> QED
          BY <3>1, <3>2, <4>1, CallReturned
      <3>4. AnswersCountedOnce'
        BY <1>1, <3>1, <3>3, NoMessage DEF CallsInv
      <3>5. ModelTypeOK'
        BY <1>1, <3>1, <3>3 DEF ModelTypeOK, OnlyCall
      <3> QED
        BY <2>1, <3>3, <3>4, <3>5 DEF CallsInv
    <2> QED
      BY <1>4, <2>2, <2>3 DEF ReserveRequest
  <1> QED
    BY <1>2, <1>3, <1>4

\* A call whose request is out, or waits to be sent again.
LEMMA RequestReturns ==
    ASSUME CallsInv, NEW c \in Callers, Held(c), NEW result \in {"ok", "transient", "failed"},
           Returns(c, result), UNCHANGED <<requestsPerMinute, now, window, admitted, context, answers>>,
           \/ result = "ok" /\ ObserveMessage(c)
           \/ result # "ok" /\ tokens' = tokens,
           \/ budget' = budget
           \/ Spend("faults")
    PROVE  CallsInv'
  <1>1. ModelTypeOK /\ TargetOf(c) \in Targets
    BY DEF CallsInv, ModelTypeOK, TargetOf, Call
  <1>2. /\ OnlyCall(c) /\ slots' \in [Targets -> Nat] /\ PauseInv' /\ SlotsInv' /\ RateInv'
        /\ ~InPending(c) /\ (InPending(c)' <=> c \in Runners /\ result = "ok")
    BY CallReturned
  <1>3. c \in Runners <=> c # Prober
    BY CallersAssumption DEF Callers
  <1>4. AnswersCountedOnce' /\ tokens' \in [Targets -> Nat]
    <2>1. CASE result = "ok" /\ c # Prober
      <3>1. tokens' = [tokens EXCEPT ![TargetOf(c)] = @ + 1]
        BY <2>1 DEF ObserveMessage
      <3>2. AnswersCountedOnce'
        BY <1>1, <1>2, <1>3, <2>1, <3>1, MessagePaid DEF CallsInv
      <3> QED
        BY <1>1, <3>1, <3>2 DEF ModelTypeOK
    <2>2. CASE ~(result = "ok" /\ c # Prober)
      <3>1. tokens' = tokens
        BY <1>1, <2>2 DEF ObserveMessage, ModelTypeOK
      <3>2. AnswersCountedOnce'
        BY <1>1, <1>2, <1>3, <2>2, <3>1, NoMessage DEF CallsInv
      <3> QED
        BY <1>1, <3>1, <3>2 DEF ModelTypeOK
    <2> QED
      BY <2>1, <2>2
  <1>5. budget' \in [ticks : 0..(MaxTicks - now'), faults : Nat, ends : Nat, calls : Nat]
    BY <1>1, Budgeted DEF ModelTypeOK
  <1>6. ModelTypeOK'
    BY <1>1, <1>2, <1>4, <1>5 DEF ModelTypeOK, OnlyCall
  <1> QED
    BY <1>2, <1>4, <1>6 DEF CallsInv

LEMMA TransportSteps ==
    ASSUME CallsInv, NEW c \in Callers, TransportStep(c)
    PROVE  CallsInv'
  <1>1. ModelTypeOK /\ call[c] \in Call /\ TargetOf(c) \in Targets
    BY DEF CallsInv, ModelTypeOK, TargetOf, Call
  <1>2. CASE Succeed(c)
    <2>1. Held(c) /\ "ok" \in {"ok", "transient", "failed"}
      BY <1>2 DEF Succeed, Held, CallAt
    <2> QED
      BY <1>2, <2>1, RequestReturns DEF Succeed, engineVars
  <1>3. CASE FailTransiently(c)
    <2>1. CASE call[c].attempt < MaxAttempts
      <3>1. /\ OnlyCall(c) /\ call'[c].pc = "pause" /\ call'[c].target = TargetOf(c)
            /\ call'[c].attempt = call[c].attempt
        BY <1>1, <1>3, <2>1, CallMoves DEF FailTransiently
      <3>2. PauseInv' /\ SlotsInv' /\ RateInv' /\ AnswersCountedOnce'
        BY <1>3, <2>1, <3>1, CallMoved DEF FailTransiently, Held, InPending, CallAt, engineVars
      <3>3. budget' \in [ticks : 0..(MaxTicks - now'), faults : Nat, ends : Nat, calls : Nat]
        BY <1>1, <1>3, Budgeted DEF FailTransiently
      <3>4. ModelTypeOK'
        BY <1>1, <1>3, <2>1, <3>1, <3>3 DEF ModelTypeOK, FailTransiently, OnlyCall, engineVars
      <3> QED
        BY <3>2, <3>4 DEF CallsInv
    <2>2. CASE ~(call[c].attempt < MaxAttempts)
      <3>1. Held(c) /\ "transient" \in {"ok", "transient", "failed"} /\ "transient" # "ok"
        BY <1>3 DEF FailTransiently, Held, CallAt
      <3> QED
        BY <1>3, <2>2, <3>1, RequestReturns DEF FailTransiently, engineVars
    <2> QED
      BY <2>1, <2>2
  <1>4. CASE FailForGood(c) \/ AbortPause(c) \/ ClientTimeout(c)
    <2>1. Held(c) /\ "failed" \in {"ok", "transient", "failed"} /\ "failed" # "ok"
      BY <1>4 DEF FailForGood, AbortPause, ClientTimeout, Held, CallAt
    <2> QED
      BY <1>4, <2>1, RequestReturns DEF FailForGood, AbortPause, ClientTimeout, engineVars
  <1>5. CASE Abort(c)
    <2> DEFINE result == IF context[c] = "expired" THEN "transient" ELSE "failed"
    <2>1. Held(c) /\ result \in {"ok", "transient", "failed"} /\ result # "ok"
      BY <1>5 DEF Abort, Held, CallAt
    <2>2. Returns(c, result) /\ UNCHANGED <<now, window, context, tokens, budget, admitted, engineVars>>
      BY <1>5 DEF Abort
    <2> HIDE DEF result
    <2> QED
      BY <2>1, <2>2, RequestReturns DEF engineVars
  <1>6. CASE AttemptAgain(c)
    <2>1. OnlyCall(c) /\ call'[c].pc = "request" /\ call'[c].target = TargetOf(c)
      <3> DEFINE r == [call[c] EXCEPT !.pc = "request", !.attempt = @ + 1]
      <3>1. call[c].attempt \in 1..MaxAttempts /\ call[c].attempt < MaxAttempts /\ MaxAttempts \in Nat
        BY <1>1, <1>6, LimitsAssumption DEF Call, CallsInv, PauseInv, AttemptAgain
      <3>2. call[c].attempt + 1 \in 1..MaxAttempts
        BY <3>1
      <3>3. r \in Call /\ r.pc = "request" /\ r.target = TargetOf(c)
        BY <1>1, <3>2 DEF Call, TargetOf
      <3>4. call \in [Callers -> Call] /\ call' = [call EXCEPT ![c] = r]
        BY <1>1, <1>6 DEF AttemptAgain, ModelTypeOK
      <3> HIDE DEF r
      <3> QED
        BY <3>3, <3>4 DEF OnlyCall
    <2>2. PauseInv' /\ SlotsInv' /\ RateInv' /\ AnswersCountedOnce'
      BY <1>6, <2>1, CallMoved DEF AttemptAgain, Held, InPending, CallAt, engineVars, providerVars
    <2>3. ModelTypeOK'
      BY <1>1, <1>6, <2>1 DEF ModelTypeOK, AttemptAgain, OnlyCall, engineVars, providerVars
    <2> QED
      BY <2>2, <2>3 DEF CallsInv
  <1> QED
    BY <1>2, <1>3, <1>4, <1>5, <1>6 DEF TransportStep

LEMMA BeginStep ==
    ASSUME CallsInv, NEW c \in Callers, Begin(c), call[c].pc \in {"idle", "done"}
    PROVE  CallsInv'
  <1>1. ModelTypeOK
    BY DEF CallsInv
  <1>2. OnlyCall(c) /\ call'[c].pc = "wait"
    <2> DEFINE r == [NoCall EXCEPT !.pc = "wait"]
    <2>1. 1 \in 1..MaxAttempts
      BY LimitsAssumption
    <2>2. r \in Call /\ r.pc = "wait"
      BY <2>1 DEF NoCall, Call, Targets
    <2>3. call \in [Callers -> Call] /\ call' = [call EXCEPT ![c] = r]
      BY <1>1 DEF Begin, ModelTypeOK
    <2> HIDE DEF r
    <2> QED
      BY <2>2, <2>3 DEF OnlyCall
  <1>3. PauseInv' /\ SlotsInv' /\ RateInv' /\ AnswersCountedOnce'
    BY <1>2, CallMoved DEF Begin, Held, InPending, CallAt, engineVars, providerVars
  <1>4. budget' \in [ticks : 0..(MaxTicks - now'), faults : Nat, ends : Nat, calls : Nat]
    BY <1>1, Budgeted DEF Begin, providerVars
  <1>5. ModelTypeOK'
    BY <1>1, <1>2, <1>4 DEF ModelTypeOK, Begin, OnlyCall, engineVars, providerVars
  <1> QED
    BY <1>3, <1>5 DEF CallsInv

LEMMA CallerSteps ==
    ASSUME CallsInv, NEW c \in Callers,
           TryFallback(c) \/ ReturnPrimary(c) \/ ReturnFallback(c) \/ Generate(c) \/ EndRun(c)
    PROVE  CallsInv'
  <1>1. ModelTypeOK /\ call[c] \in Call /\ TargetOf(c) \in Targets
    BY DEF CallsInv, ModelTypeOK, TargetOf, Call
  <1>2. CASE TryFallback(c)
    <2>1. OnlyCall(c) /\ call'[c].pc = "wait"
      BY <1>1, <1>2 DEF TryFallback, ModelTypeOK, OnlyCall, Call, Targets
    <2>2. ~InPending(c)
      BY <1>2, CallersAssumption DEF TryFallback, ShouldFallback, InPending
    <2>3. PauseInv' /\ SlotsInv' /\ RateInv' /\ AnswersCountedOnce'
      BY <1>2, <2>1, <2>2, CallMoved DEF TryFallback, Held, InPending, CallAt, engineVars, providerVars
    <2>4. ModelTypeOK'
      BY <1>1, <1>2, <2>1 DEF ModelTypeOK, TryFallback, OnlyCall, engineVars, providerVars
    <2> QED
      BY <2>3, <2>4 DEF CallsInv
  <1>3. CASE ReturnPrimary(c) \/ ReturnFallback(c)
    <2>1. c # Prober /\ CallAt(c, "returned") /\ HandOver(c)
      BY <1>3 DEF ReturnPrimary, ReturnFallback
    <2>2. OnlyCall(c) /\ call'[c].pc = "done"
      BY <1>1, <2>1, CallMoves DEF HandOver
    <2>3. UNCHANGED <<context, budget, now, window, slots, tokens, admitted, requestsPerMinute>>
      BY <2>1 DEF HandOver, providerVars
    <2>4. PauseInv' /\ SlotsInv' /\ RateInv'
      <3>1. ~Held(c) /\ ~Held(c)'
        BY <2>1, <2>2 DEF Held, CallAt
      <3>2. SlotsInv'
        BY <1>1, <2>2, <2>3, <3>1, SlotsUntouched DEF CallsInv
      <3> QED
        BY <1>1, <2>2, <2>3, <3>2, PausesAllowed, RateUntouched DEF CallsInv
    <2>5. c \in Runners
      BY <2>1 DEF Callers
    <2>6. AnswersCountedOnce' /\ answers' \in Nat
      <3>1. CASE call[c].result = "ok"
        <4>1. InPending(c) /\ ~InPending(c)' /\ answers' = answers + 1
          BY <2>1, <2>2, <2>5, <3>1 DEF HandOver, InPending, CallAt
        <4>2. AnswersCountedOnce'
          BY <1>1, <2>2, <2>3, <4>1, MessageHanded DEF CallsInv
        <4> QED
          BY <1>1, <4>1, <4>2 DEF ModelTypeOK
      <3>2. CASE call[c].result # "ok"
        <4>1. ~InPending(c) /\ ~InPending(c)' /\ answers' = answers
          BY <2>1, <2>2, <3>2 DEF HandOver, InPending, CallAt
        <4>2. AnswersCountedOnce'
          BY <1>1, <2>2, <2>3, <4>1, NoMessage DEF CallsInv
        <4> QED
          BY <1>1, <4>1, <4>2 DEF ModelTypeOK
      <3> QED
        BY <3>1, <3>2
    <2>7. ModelTypeOK'
      BY <1>1, <2>2, <2>3, <2>6 DEF ModelTypeOK, OnlyCall
    <2> QED
      BY <2>4, <2>6, <2>7 DEF CallsInv
  <1>4. CASE Generate(c)
    <2>1. Begin(c) /\ call[c].pc \in {"idle", "done"}
      BY <1>4 DEF Generate, CallAt
    <2> QED
      BY <2>1, BeginStep
  <1>5. CASE EndRun(c)
    <2>1. OnlyCall(c) /\ call'[c].pc = "idle"
      BY <1>1, <1>5, CallMoves DEF EndRun
    <2>2. PauseInv' /\ SlotsInv' /\ RateInv' /\ AnswersCountedOnce'
      BY <1>5, <2>1, CallMoved DEF EndRun, Held, InPending, CallAt, engineVars, providerVars
    <2>3. ModelTypeOK'
      BY <1>1, <1>5, <2>1 DEF ModelTypeOK, EndRun, OnlyCall, engineVars, providerVars
    <2> QED
      BY <2>2, <2>3 DEF CallsInv
  <1> QED
    BY <1>2, <1>3, <1>4, <1>5

LEMMA EnvironmentSteps ==
    ASSUME CallsInv, TimePasses \/ Probe \/ ProbeDone \/ \E c \in Callers : EndContext(c)
    PROVE  CallsInv'
  <1>1. ModelTypeOK /\ Prober \in Callers
    BY DEF CallsInv, Callers
  <1>2. ASSUME UNCHANGED <<requestsPerMinute, window, admitted, call, slots, tokens, answers>>,
               now' = now \/ now' = now + 1
        PROVE  PauseInv' /\ SlotsInv' /\ RateInv' /\ AnswersCountedOnce'
    <2>1. RateInv'
      BY <1>1, <1>2, RateUntouched DEF CallsInv
    <2> QED
      BY <1>2, <2>1
      DEF CallsInv, PauseInv, SlotsInv, Holders, TargetOf, AnswersCountedOnce, CallAt
  <1>3. CASE TimePasses
    <2>1. now + 1 \in 0..MaxTicks /\ budget' \in [ticks : 0..(MaxTicks - (now + 1)), faults : Nat, ends : Nat, calls : Nat]
      <3>1. /\ budget \in [ticks : 0..(MaxTicks - now), faults : Nat, ends : Nat, calls : Nat]
            /\ budget' = [budget EXCEPT !.ticks = @ - 1] /\ budget.ticks > 0
        BY <1>1, <1>3 DEF ModelTypeOK, TimePasses, Spend
      <3>2. now \in Int /\ 0 <= now /\ MaxTicks \in Int /\ budget.ticks \in Int
            /\ budget.ticks <= MaxTicks - now
        BY <1>1, <3>1, ModelBounds DEF ModelTypeOK
      <3>3. now + 1 \in 0..MaxTicks /\ budget.ticks - 1 \in 0..(MaxTicks - (now + 1))
        BY <3>1, <3>2
      <3> QED
        BY <3>1, <3>3
    <2>2. ModelTypeOK'
      BY <1>1, <1>3, <2>1 DEF ModelTypeOK, TimePasses, engineVars
    <2> QED
      BY <1>2, <1>3, <2>2 DEF CallsInv, TimePasses, engineVars
  <1>4. CASE Probe
    BY <1>1, <1>4, BeginStep DEF Probe, CallAt
  <1>5. CASE ProbeDone
    <2>1. OnlyCall(Prober) /\ call'[Prober].pc = "idle"
      BY <1>1, <1>5, CallMoves DEF ProbeDone
    <2>2. PauseInv' /\ SlotsInv' /\ RateInv' /\ AnswersCountedOnce'
      BY <1>1, <1>5, <2>1, CallersAssumption, CallMoved
      DEF ProbeDone, Held, InPending, CallAt, engineVars, providerVars
    <2>3. ModelTypeOK'
      BY <1>1, <1>5, <2>1 DEF ModelTypeOK, ProbeDone, OnlyCall, engineVars, providerVars
    <2> QED
      BY <2>2, <2>3 DEF CallsInv
  <1>6. CASE \E c \in Callers : EndContext(c)
    <2>1. PICK c \in Callers : EndContext(c)
      BY <1>6
    <2>2. budget' \in [ticks : 0..(MaxTicks - now'), faults : Nat, ends : Nat, calls : Nat]
      BY <1>1, <2>1, Budgeted DEF EndContext, providerVars
    <2>3. ModelTypeOK'
      BY <1>1, <2>1, <2>2 DEF ModelTypeOK, EndContext, engineVars, providerVars
    <2> QED
      BY <1>2, <2>1, <2>3 DEF CallsInv, EndContext, engineVars, providerVars
  <1> QED
    BY <1>3, <1>4, <1>5, <1>6

LEMMA ModelInitial == ModelInit => CallsInv
  <1> SUFFICES ASSUME ModelInit PROVE CallsInv
    OBVIOUS
  <1>0. MaxTicks \in Nat /\ Minute \in Nat \ {0} /\ MaxConcurrent \in Nat \ {0}
    BY ModelBounds, LimitsAssumption
  <1>1. ModelTypeOK
    <2>1. 1 \in 1..MaxAttempts
      BY LimitsAssumption
    <2>2. NoCall \in Call
      BY <2>1 DEF NoCall, Call, Targets
    <2>3. PICK s \in Scenarios : requestsPerMinute = s.requestsPerMinute /\ budget = s.budget
      BY DEF ModelInit
    <2>4. s \in [requestsPerMinute : Nat, budget : [ticks : 0..MaxTicks, faults : Nat, ends : Nat, calls : Nat]]
      BY ModelBounds
    <2>5. requestsPerMinute \in Nat /\ budget \in [ticks : 0..MaxTicks, faults : Nat, ends : Nat, calls : Nat]
      BY <2>3, <2>4
    <2>6. now = 0 /\ MaxTicks - now = MaxTicks /\ now \in 0..MaxTicks
      BY <1>0 DEF ModelInit
    <2>7. /\ window \in [Targets -> [start : 0..MaxTicks, used : Nat]]
          /\ slots \in [Targets -> Nat] /\ tokens \in [Targets -> Nat]
          /\ call \in [Callers -> Call] /\ context \in [Callers -> {"live", "expired", "canceled"}]
          /\ admitted \in [Targets -> Seq(0..MaxTicks)] /\ answers \in Nat
      BY <1>0, <2>2 DEF ModelInit
    <2> QED
      BY <2>5, <2>6, <2>7 DEF ModelTypeOK
  <1>2. \A c \in Callers : call[c].pc = "idle" /\ call[c].result = "ok"
    BY DEF ModelInit, NoCall
  <1>3. SlotsInv
    <2> SUFFICES ASSUME NEW t \in Targets PROVE slots[t] = Cardinality(Holders(t)) /\ slots[t] <= MaxConcurrent
      BY DEF SlotsInv
    <2>1. Holders(t) = {}
      BY <1>2 DEF Holders
    <2>2. slots[t] = 0
      BY DEF ModelInit
    <2> QED
      BY <1>0, <2>1, <2>2, FS_EmptySet
  <1>4. RateInv
    <2> SUFFICES ASSUME requestsPerMinute > 0, NEW t \in Targets PROVE WindowOK(admitted[t], window[t])
      BY DEF RateInv
    <2>1. /\ window[t].start = 0 /\ window[t].used = 0 /\ now = 0 /\ requestsPerMinute \in Nat
          /\ admitted[t] = <<>>
      BY <1>1 DEF ModelInit, ModelTypeOK
    <2> QED
      BY <2>1 DEF WindowOK
  <1>5. AnswersCountedOnce
    <2>1. Pending = {}
      BY <1>2 DEF Pending, CallAt, Callers
    <2>2. Cardinality(Pending) = 0
      BY <2>1, FS_EmptySet
    <2>3. tokens["primary"] = 0 /\ tokens["fallback"] = 0 /\ answers = 0
      BY DEF ModelInit, Targets
    <2>4. tokens["primary"] + tokens["fallback"] = answers + Cardinality(Pending)
      BY <2>2, <2>3
    <2> QED
      BY <2>4 DEF AnswersCountedOnce, Pending
  <1>6. PauseInv
    BY <1>2 DEF PauseInv, CallAt
  <1> QED
    BY <1>1, <1>3, <1>4, <1>5, <1>6 DEF CallsInv

LEMMA CallsInvariant == ModelSpec => []CallsInv
  <1>1. ASSUME CallsInv, [ModelNext]_modelVars PROVE CallsInv'
    <2>1. CASE TimePasses \/ Probe \/ ProbeDone \/ \E c \in Callers : EndContext(c)
      BY <1>1, <2>1, EnvironmentSteps
    <2>2. CASE \E c \in Callers : Generate(c) \/ AcquireSlot(c) \/ CallStep(c)
      BY <1>1, <2>2, WaitingSteps, TransportSteps, CallerSteps DEF CallStep
    <2>3. CASE UNCHANGED modelVars
      <3>1. RateInv'
        BY <1>1, <2>3, RateUntouched DEF CallsInv, modelVars
      <3> QED
        BY <1>1, <2>3, <3>1
        DEF CallsInv, ModelTypeOK, PauseInv, SlotsInv, Holders, TargetOf, AnswersCountedOnce, CallAt, modelVars
    <2> QED
      BY <1>1, <2>1, <2>2, <2>3 DEF ModelNext
  <1> QED
    BY <1>1, ModelInitial, PTL DEF ModelSpec

\* The state of the limiters, the calls and the trackers keeps its type.
THEOREM ModelTypeCorrect == ModelSpec => []ModelTypeOK
  <1>1. CallsInv => ModelTypeOK
    BY DEF CallsInv
  <1> QED
    BY <1>1, CallsInvariant, PTL

\* No provider gets more requests at a time than it has slots, and none more within a
\* minute than two windows allow, for any number of runs, any limits and any timing.
THEOREM LimitsKept == ModelSpec => []ProviderLimits
  <1>1. CallsInv => ProviderLimits
    <2> SUFFICES ASSUME CallsInv, NEW t \in Targets
                 PROVE  /\ Cardinality({c \in Callers : TargetOf(c) = t /\ call[c].pc \in {"request", "pause"}})
                             <= MaxConcurrent
                        /\ requestsPerMinute > 0 => MinuteApart(admitted[t], 2 * requestsPerMinute)
      BY DEF ProviderLimits
    <2> DEFINE Asking == {c \in Callers : TargetOf(c) = t /\ call[c].pc \in {"request", "pause"}}
    <2>1. Asking \subseteq Holders(t)
      BY DEF Holders
    <2>2. /\ IsFiniteSet(Holders(t)) /\ Cardinality(Asking) <= Cardinality(Holders(t))
          /\ IsFiniteSet(Asking)
      <3> HIDE DEF Asking
      <3> QED
        BY <2>1, HoldersFinite, FS_Subset
    <2>3. Cardinality(Asking) \in Nat /\ Cardinality(Holders(t)) \in Nat /\ MaxConcurrent \in Nat
      BY <2>2, FS_CardinalityType, LimitsAssumption
    <2>4. Cardinality(Holders(t)) <= MaxConcurrent
      BY DEF CallsInv, SlotsInv
    <2>5. Cardinality(Asking) <= MaxConcurrent
      <3> HIDE DEF Asking
      <3> QED
        BY <2>2, <2>3, <2>4
    <2>6. requestsPerMinute > 0 => MinuteApart(admitted[t], 2 * requestsPerMinute)
      <3> SUFFICES ASSUME requestsPerMinute > 0, NEW i \in 1..Len(admitted[t]),
                          i + 2 * requestsPerMinute \in 1..Len(admitted[t])
                   PROVE  admitted[t][i + 2 * requestsPerMinute] - admitted[t][i] >= Minute
        <4>1. DOMAIN admitted[t] = 1..Len(admitted[t])
          BY DEF CallsInv, ModelTypeOK
        <4> QED
          BY <4>1 DEF MinuteApart
      <3>1. requestsPerMinute \in Nat /\ Len(admitted[t]) \in Nat
        BY DEF CallsInv, ModelTypeOK
      <3>2. i + 2 * requestsPerMinute <= Len(admitted[t])
        BY <3>1
      <3> QED
        BY <3>2 DEF CallsInv, RateInv, WindowOK
    <2> QED
      BY <2>5, <2>6
  <1> QED
    BY <1>1, CallsInvariant, PTL

\* What the trackers count is what the runs were answered, once each.
THEOREM AnswersCounted == ModelSpec => []AnswersCountedOnce
  <1>1. CallsInv => AnswersCountedOnce
    BY DEF CallsInv
  <1> QED
    BY <1>1, CallsInvariant, PTL
====
