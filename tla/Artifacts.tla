------------------------------- MODULE Artifacts -------------------------------
(***************************************************************************)
(* The files that the commands of a run leave in output/, the rows and     *)
(* events that make artifacts of them, and the cleanup that takes them     *)
(* away: the executors of packages/common/sandbox, the artifacts of a      *)
(* tool's output in the agent runtime, RepositorySink.RegisterArtifacts    *)
(* behind its two handlers, and internalCleanupExpiredArtifacts.           *)
(*                                                                         *)
(* It is about one run and its workspace. An attempt calls its tools one   *)
(* after the other, but a stale attempt, or a container that has outlived  *)
(* its docker client, may work in the workspace at the same time. A scan   *)
(* reads one file per step and a handler makes one call of the store.      *)
(***************************************************************************)
EXTENDS Naturals, FiniteSets, FiniteSetsExt

CONSTANTS
    Deployments,       \* what to look at together: a store, an executor and its limit, and
                       \* how many attempts, commands, cleanups and faults there may be
    MaxAttempts,       \* bound on the attempts of the run
    MaxCommands,       \* bound on the commands
    MaxPaths,          \* bound on the files under output/
    Versions,          \* what a file may contain
    NoFile,
    SizeOf,            \* the size of each version
    MaxArtifactBytes,  \* the limits of Executor
    MaxArtifactTotal,
    Cleaners,          \* requests to clean up that may be served at a time
    CleanupLimit       \* the limit of such a request

ASSUME DeploymentsAssumption ==
    Deployments \subseteq [store : {"memory", "postgres"}, executor : {"local", "container"},
                           maxArtifacts : Nat \ {0}, deleteFiles : BOOLEAN,
                           attempts : 1..MaxAttempts, commands : 1..MaxCommands,
                           cleanups : Nat, faults : Nat]
ASSUME FilesAssumption == NoFile \notin Versions /\ SizeOf \in [Versions -> Nat]
ASSUME BoundsAssumption ==
    /\ {MaxAttempts, MaxCommands, MaxPaths, CleanupLimit} \subseteq Nat \ {0}
    /\ {MaxArtifactBytes, MaxArtifactTotal} \subseteq Nat

VARIABLES
    deployment,  \* fixed from the start
    output,      \* the files of the workspace
    status,      \* of the run
    active,      \* the attempt that has claimed the run
    agent,       \* the attempts, with the command they execute
    orphans,     \* containers that run although their command has been given up
    handler,
    artifact,    \* the rows
    past,        \* the artifacts whose first expires_at has passed
    cleaner,
    commands, cleanups, faults,
    \* The rest is history.
    owed,        \* what the commands of an attempt have left, see CollectArtifacts
    finisher,    \* the attempt that completed the run
    removed,     \* the paths where a command or an orphan has removed the file
    doomed       \* the cleanups, each with the artifacts whose files it has to remove and
                 \* nobody has written since

workVars == <<output, agent, orphans, commands>>
rowVars == <<status, active, handler, artifact, past, finisher>>
cleanVars == <<cleaner, cleanups>>
vars == <<deployment, workVars, rowVars, cleanVars, faults, owed, removed, doomed>>

Attempts == 1..MaxAttempts
NoAttempt == 0

\* In the order in which WalkDir visits them.
Paths == 1..MaxPaths

NoFiles == [p \in Paths |-> NoFile]

\* An artifact has the path that was found and an id of its own in each report.
Ids == (1..MaxCommands) \X Paths
PathOf(id) == id[2]

\* An attempt knows of an artifact its id and whether it has got an expires_at.
Undated(ids) == {[id |-> id, dated |-> FALSE] : id \in ids}
Dated(ids) == {[id |-> id, dated |-> TRUE] : id \in ids}

\* Between two tool calls. A command has the snapshot before it, what the scan has found
\* up to the next file, and the ids to report; wrote is history: the files that it has
\* written or removed. Others may have changed output/ meanwhile, and disturbed it.
Idle(got) == [pc |-> "idle", executor |-> "local", command |-> 0, next |-> 0, before |-> NoFiles,
              found |-> NoFiles, report |-> {}, got |-> got, wrote |-> {}, disturbed |-> FALSE]

Absent == [Idle({}) EXCEPT !.pc = "absent"]

Handlers == Attempts \X {"register", "complete"}

\* A handler is at check, begin, get, add, event or status; then a client that still waits
\* reads "saved", with the rows, or "refused", without any.
NoHandler == [pc |-> "idle", todo |-> {}, awaited |-> FALSE]

NoCleaner == [pc |-> "idle", todo |-> {}]

TerminalStatus == {"succeeded", "canceled"}

-----------------------------------------------------------------------------
(* Files *)

Executing == {"snapshot", "running", "collect"}

\* Somebody writes a file or removes one, and a command of another attempt may notice.
Change(g, a, p, v) ==
    /\ v = NoFile => output[p] # NoFile
    /\ output' = [output EXCEPT ![p] = v]
    /\ removed' = IF v = NoFile THEN removed \cup {p} ELSE removed \ {p}
    /\ doomed' = IF v = NoFile THEN doomed ELSE {x \in doomed : PathOf(x[2]) # p}
    /\ agent' = [b \in Attempts |->
         IF b = a THEN g ELSE [agent[b] EXCEPT !.disturbed = agent[b].pc \in Executing]]

Fault ==
    /\ faults < deployment.faults
    /\ faults' = faults + 1

Present(files) == {p \in Paths : files[p] # NoFile}

Bytes(files) == MapThenSumSet(LAMBDA p : SizeOf[files[p]], Present(files))

-----------------------------------------------------------------------------
(* The executors *)

\* ClaimRunAttempt, as far as it matters here: a lease may expire at any time, and the
\* attempt that had it is not told.
Claim(a) ==
    /\ agent[a].pc = "absent" /\ a <= deployment.attempts
    /\ \A b \in 1..(a - 1) : agent[b].pc # "absent"
    /\ status \notin TerminalStatus
    /\ active' = a
    /\ agent' = [agent EXCEPT ![a] = Idle({})]
    /\ UNCHANGED <<deployment, output, orphans, commands, status, handler, artifact, past,
                   finisher, cleanVars, faults, owed, removed, doomed>>

\* invokeBuiltin for cli.exec, with a command that the executor's policy allows.
Execute(a) == LET g == agent[a] IN
    /\ g.pc = "idle"
    /\ commands < deployment.commands
    /\ commands' = commands + 1
    /\ agent' = [agent EXCEPT ![a] = [g EXCEPT !.pc = "snapshot", !.executor = deployment.executor,
                                               !.command = commands + 1, !.next = 1]]
    /\ UNCHANGED <<deployment, output, orphans, rowVars, cleanVars, faults, owed, removed, doomed>>

\* The limits that scanOutput checks when it comes to a file.
OverLimit(found, p) ==
    \/ Cardinality(Present(found)) >= deployment.maxArtifacts
    \/ SizeOf[output[p]] > MaxArtifactBytes
    \/ Bytes(found) + SizeOf[output[p]] > MaxArtifactTotal

\* WalkDir may have listed a file that somebody else has removed since. What has changed
\* before the scan is not told apart from that.
GoneSinceListed(g, p) == output[p] = NoFile /\ g.disturbed

\* One file of scanOutput. If it exceeds a limit or is gone, the scan fails and with it
\* the command: the result has an error and no artifacts.
ScanOutput(a) == LET g == agent[a] p == g.next IN
    /\ g.pc \in {"snapshot", "collect"} /\ p \in Paths
    /\ \/ /\ output[p] # NoFile => ~OverLimit(g.found, p)
          /\ agent' = [agent EXCEPT ![a] =
               [g EXCEPT !.next = p + 1, !.found = [@ EXCEPT ![p] = output[p]]]]
       \/ /\ (output[p] # NoFile /\ OverLimit(g.found, p)) \/ GoneSinceListed(g, p)
          /\ agent' = [agent EXCEPT ![a] = Idle(g.got)]
    /\ UNCHANGED <<deployment, output, orphans, commands, rowVars, cleanVars, faults, owed, removed, doomed>>

\* snapshotOutput has returned, and the command is started.
StartCommand(a) == LET g == agent[a] IN
    /\ g.pc = "snapshot" /\ g.next \notin Paths
    /\ agent' = [agent EXCEPT ![a] = [g EXCEPT !.pc = "running", !.before = g.found,
                                               !.found = NoFiles, !.next = 0]]
    /\ UNCHANGED <<deployment, output, orphans, commands, rowVars, cleanVars, faults, owed, removed, doomed>>

\* The command writes a file or removes one. Bound: one file per command.
CommandChangesFile(a) == LET g == agent[a] IN
    /\ g.pc = "running" /\ g.wrote = {}
    /\ \E p \in Paths, v \in Versions \cup {NoFile} : Change([g EXCEPT !.wrote = {p}], a, p, v)
    /\ UNCHANGED <<deployment, orphans, commands, rowVars, cleanVars, faults, owed>>

\* cmd.Run returns. If the timeout is over, it has killed the process, but in container
\* mode this is the docker client, and the container goes on.
CommandEnds(a) == LET g == agent[a] IN
    /\ g.pc = "running"
    /\ agent' = [agent EXCEPT ![a] = [g EXCEPT !.pc = "collect", !.next = 1]]
    /\ \/ orphans' = orphans
       \/ g.executor = "container" /\ orphans' = orphans \cup {a}
    /\ UNCHANGED <<deployment, output, commands, rowVars, cleanVars, faults, owed, removed, doomed>>

\* Bound: an orphan writes or removes one file.
OrphanChangesFile(a) ==
    /\ a \in orphans
    /\ orphans' = orphans \ {a}
    /\ \E p \in Paths, v \in Versions \cup {NoFile} :
         Change([agent[a] EXCEPT !.disturbed = agent[a].pc \in Executing], a, p, v)
    /\ UNCHANGED <<deployment, commands, rowVars, cleanVars, faults, owed>>

\* shouldFallbackToLocal: the command is executed from the start, by the local executor,
\* which takes a snapshot of its own.
FallBackToLocal(a) == LET g == agent[a] IN
    /\ g.pc = "running" /\ g.executor = "container"
    /\ agent' = [agent EXCEPT ![a] = [g EXCEPT !.pc = "snapshot", !.executor = "local", !.next = 1,
                                               !.before = NoFiles, !.wrote = {}]]
    /\ UNCHANGED <<deployment, output, orphans, commands, rowVars, cleanVars, faults, owed, removed, doomed>>

\* The files whose contents differ from what they were.
ChangedFiles(before, after) == {p \in Present(after) : after[p] # before[p]}

\* collectArtifacts, and the result that reaches the tool. A file that was removed is in
\* the diff of the result, and nothing comes of it. A command owes the files it has left
\* with other contents than it found, unless others have interfered.
CollectArtifacts(a) == LET g == agent[a] ids == {<<g.command, p>> : p \in ChangedFiles(g.before, g.found)} IN
    /\ g.pc = "collect" /\ g.next \notin Paths
    /\ agent' = [agent EXCEPT ![a] =
         IF ids = {} THEN Idle(g.got) ELSE [Idle(g.got) EXCEPT !.pc = "register", !.report = ids]]
    /\ owed' = [owed EXCEPT ![a] = @ \cup
         {<<g.command, p>> : p \in {q \in g.wrote : ~g.disturbed /\ output[q] \notin {NoFile, g.before[q]}}}]
    /\ UNCHANGED <<deployment, output, orphans, commands, rowVars, cleanVars, faults, removed, doomed>>

\* HTTPExecutor gets no answer, or does not wait for it any longer: the executor's
\* context ends and the process with it, a container may go on.
LoseResult(a) == LET g == agent[a] IN
    /\ g.pc \in {"running", "collect"}
    /\ Fault
    /\ agent' = [agent EXCEPT ![a] = Idle(g.got)]
    /\ \/ orphans' = orphans
       \/ g.pc = "running" /\ g.executor = "container" /\ orphans' = orphans \cup {a}
    /\ UNCHANGED <<deployment, output, commands, rowVars, cleanVars, owed, removed, doomed>>

-----------------------------------------------------------------------------
(* The attempt: registerArtifactsFromOutput and appendArtifactsFromObservation *)

Post(h, todo, awaited) == handler' = [handler EXCEPT ![h] = [pc |-> "check", todo |-> todo, awaited |-> awaited]]

\* ControlPlaneSink.RegisterArtifacts.
PostArtifacts(a) == LET g == agent[a] IN
    /\ g.pc = "register" /\ handler[<<a, "register">>].pc = "idle"
    /\ Post(<<a, "register">>, Undated(g.report), TRUE)
    /\ agent' = [agent EXCEPT ![a].pc = "registering"]
    /\ UNCHANGED <<deployment, output, orphans, commands, status, active, artifact, past, finisher,
                   cleanVars, faults, owed, removed, doomed>>

\* Faulty: an output whose artifacts could not be saved loses them.
ObservedIfSaved(report, saved) == IF saved THEN Dated(report) ELSE {}

\* The output keeps the artifacts as they were reported if none were saved.
Observed(report, saved) == IF saved THEN Dated(report) ELSE Undated(report)

Observe(a, saved) == LET g == agent[a] IN
    agent' = [agent EXCEPT ![a] = Idle(g.got \cup Observed(g.report, saved))]

ReadSaved(a) ==
    /\ agent[a].pc = "registering" /\ handler[<<a, "register">>].pc \in {"saved", "refused"}
    /\ Observe(a, handler[<<a, "register">>].pc = "saved")
    /\ handler' = [handler EXCEPT ![<<a, "register">>] = NoHandler]
    /\ UNCHANGED <<deployment, output, orphans, commands, status, active, artifact, past, finisher,
                   cleanVars, faults, owed, removed, doomed>>

\* The client's timeout, after which the handler goes on.
GiveUp(a) ==
    /\ agent[a].pc = "registering" /\ handler[<<a, "register">>].pc \notin {"saved", "refused"}
    /\ Fault
    /\ Observe(a, FALSE)
    /\ handler' = [handler EXCEPT ![<<a, "register">>].awaited = FALSE]
    /\ UNCHANGED <<deployment, output, orphans, commands, status, active, artifact, past, finisher,
                   cleanVars, owed, removed, doomed>>

\* completeWithUsage, with all artifacts that the attempt has observed. Whatever the
\* answer is, the attempt ends.
CompleteWithUsage(a) ==
    /\ agent[a].pc = "idle"
    /\ Post(<<a, "complete">>, agent[a].got, FALSE)
    /\ agent' = [agent EXCEPT ![a] = [Idle({}) EXCEPT !.pc = "done"]]
    /\ UNCHANGED <<deployment, output, orphans, commands, status, active, artifact, past, finisher,
                   cleanVars, faults, owed, removed, doomed>>

-----------------------------------------------------------------------------
(* internalRegisterRunArtifacts and internalCompleteRun *)

At(h, pc) == handler[h].pc = pc

Goto(h, pc) == handler' = [handler EXCEPT ![h].pc = pc]

Answer(h, pc) == handler' = [handler EXCEPT ![h] =
    IF handler[h].awaited THEN [pc |-> pc, todo |-> {}, awaited |-> TRUE] ELSE NoHandler]

\* The first of the artifacts that are left.
First(todo) == CHOOSE x \in todo : \A y \in todo :
    x.id[1] < y.id[1] \/ (x.id[1] = y.id[1] /\ x.id[2] <= y.id[2])

\* A call of the Postgres store fails.
StoreError(h) ==
    /\ handler[h].pc \in {"check", "begin", "add", "event", "status"}
    /\ deployment.store = "postgres" /\ Fault
    /\ Answer(h, "refused")
    /\ UNCHANGED <<deployment, workVars, status, active, artifact, past, finisher, cleanVars,
                   owed, removed, doomed>>

CheckRunAttempt(h) ==
    /\ At(h, "check")
    /\ IF active # h[1] \/ status \in TerminalStatus THEN Answer(h, "refused") ELSE Goto(h, "begin")
    /\ UNCHANGED <<deployment, workVars, status, active, artifact, past, finisher, cleanVars,
                   faults, owed, removed, doomed>>

\* The GetRun of RegisterArtifacts. Complete has called it before, and goes on to a status
\* that is refused if the run has ended meanwhile; it may as well stop here.
GetRun(h) ==
    /\ At(h, "begin")
    /\ IF status \in TerminalStatus THEN Answer(h, "refused") ELSE Goto(h, "get")
    /\ UNCHANGED <<deployment, workVars, status, active, artifact, past, finisher, cleanVars,
                   faults, owed, removed, doomed>>

\* artifactVisibleAt, and the WHERE of Postgres.
Visible(id) == artifact[id] = "live"

\* GetArtifact, and what RegisterArtifacts makes of it.
GetArtifact(h) == LET todo == handler[h].todo IN
    /\ At(h, "get") /\ todo # {}
    /\ IF Visible(First(todo).id)
       THEN handler' = [handler EXCEPT ![h].todo = todo \ {First(todo)}]
       ELSE Goto(h, "add")
    /\ UNCHANGED <<deployment, workVars, status, active, artifact, past, finisher, cleanVars,
                   faults, owed, removed, doomed>>

\* It reads any error as that there is no such row.
GetArtifactFails(h) ==
    /\ At(h, "get") /\ handler[h].todo # {}
    /\ deployment.store = "postgres" /\ Fault
    /\ Goto(h, "add")
    /\ UNCHANGED <<deployment, workVars, status, active, artifact, past, finisher, cleanVars,
                   owed, removed, doomed>>

\* AddArtifact replaces a row that is there. An artifact without an expires_at has got a
\* new one from withArtifactExpiration.
AddArtifact(h) == LET x == First(handler[h].todo) IN
    /\ At(h, "add")
    /\ artifact' = [artifact EXCEPT ![x.id] = IF x.dated /\ x.id \in past THEN "expired" ELSE "live"]
    /\ Goto(h, "event")
    /\ UNCHANGED <<deployment, workVars, status, active, past, finisher, cleanVars, faults,
                   owed, removed, doomed>>

\* The event of an artifact is written after its row and is not written again.
ArtifactEvent(h) ==
    /\ At(h, "event")
    /\ handler' = [handler EXCEPT ![h].pc = "get", ![h].todo = @ \ {First(@)}]
    /\ UNCHANGED <<deployment, workVars, status, active, artifact, past, finisher, cleanVars, faults,
                   owed, removed, doomed>>

Registered(h) ==
    /\ At(h, "get") /\ handler[h].todo = {}
    /\ IF h[2] = "register" THEN Answer(h, "saved") ELSE Goto(h, "status")
    /\ UNCHANGED <<deployment, workVars, status, active, artifact, past, finisher, cleanVars,
                   faults, owed, removed, doomed>>

\* UpdateRunStatus in one step; module ControlPlane takes it apart.
SucceedRun(h) ==
    /\ At(h, "status")
    /\ IF status \in TerminalStatus THEN UNCHANGED <<status, finisher>>
       ELSE status' = "succeeded" /\ finisher' = h[1]
    /\ Answer(h, "saved")
    /\ UNCHANGED <<deployment, workVars, active, artifact, past, cleanVars, faults, owed, removed, doomed>>

\* A user cancels the run.
CancelRun ==
    /\ status \notin TerminalStatus
    /\ status' = "canceled"
    /\ UNCHANGED <<deployment, workVars, active, handler, artifact, past, finisher, cleanVars,
                   faults, owed, removed, doomed>>

-----------------------------------------------------------------------------
(* internalCleanupExpiredArtifacts *)

\* Time passes, and an artifact expires. Bound: as often as there may be cleanups.
Expire(id) ==
    /\ artifact[id] = "live"
    /\ Cardinality(past) < deployment.cleanups
    /\ artifact' = [artifact EXCEPT ![id] = "expired"]
    /\ past' = past \cup {id}
    /\ UNCHANGED <<deployment, workVars, status, active, handler, finisher, cleanVars, faults,
                   owed, removed, doomed>>

\* Faulty: a cleanup does not look at expires_at.
ExpiredArtifactsOrNot == {id \in Ids : artifact[id] \in {"live", "expired"}}

\* The rows that a cleanup may take.
ExpiredArtifacts == {id \in Ids : artifact[id] = "expired"}

\* As many of them as the limit admits.
Batches == LET n == Cardinality(ExpiredArtifacts) IN
    kSubset(IF n < CleanupLimit THEN n ELSE CleanupLimit, ExpiredArtifacts)

\* Sets deleted_at, and goes on to the files if they are to be deleted.
MarkDeleted(k, ids) ==
    /\ artifact' = [id \in Ids |-> IF id \in ids THEN "deleted" ELSE artifact[id]]
    /\ cleaner' = [cleaner EXCEPT ![k] =
         IF deployment.deleteFiles THEN [pc |-> "remove", todo |-> ids] ELSE NoCleaner]
    /\ doomed' = IF deployment.deleteFiles THEN doomed \cup ({k} \X ids) ELSE doomed

BeginCleanup(k) ==
    /\ cleaner[k].pc = "idle"
    /\ ExpiredArtifacts # {}
    /\ cleanups < deployment.cleanups
    /\ cleanups' = cleanups + 1

MemoryDeleteExpired(k) ==
    /\ deployment.store = "memory"
    /\ BeginCleanup(k)
    /\ \E ids \in Batches : MarkDeleted(k, ids)
    /\ UNCHANGED <<deployment, workVars, status, active, handler, past, finisher, faults, owed, removed>>

\* The sub-select of the UPDATE. Two of them may find the same rows, since it locks none,
\* and the rows may be written before they are updated.
PostgresSelectExpired(k) ==
    /\ deployment.store = "postgres"
    /\ BeginCleanup(k)
    /\ \E ids \in Batches : cleaner' = [cleaner EXCEPT ![k] = [pc |-> "mark", todo |-> ids]]
    /\ UNCHANGED <<deployment, workVars, rowVars, faults, owed, removed, doomed>>

PostgresMarkDeleted(k) ==
    /\ cleaner[k].pc = "mark"
    /\ MarkDeleted(k, cleaner[k].todo)
    /\ UNCHANGED <<deployment, workVars, status, active, handler, past, finisher, cleanups,
                   faults, owed, removed>>

\* Faulty: a file that is not there ends the cleanup.
DeleteFileOrReturn(k) == \E id \in cleaner[k].todo : LET p == PathOf(id) IN
    /\ cleaner[k].pc = "remove"
    /\ cleaner' = [cleaner EXCEPT ![k].todo = IF output[p] = NoFile THEN {} ELSE @ \ {id}]
    /\ output' = [output EXCEPT ![p] = NoFile]
    /\ agent' = [a \in Attempts |->
         [agent[a] EXCEPT !.disturbed = @ \/ (output[p] # NoFile /\ agent[a].pc \in Executing)]]
    /\ UNCHANGED <<deployment, orphans, commands, rowVars, cleanups, faults, owed, removed, doomed>>

\* One file of deleteLocalArtifactFiles: that it is not there any more is no error.
DeleteFile(k) == \E id \in cleaner[k].todo : LET p == PathOf(id) IN
    /\ cleaner[k].pc = "remove"
    /\ cleaner' = [cleaner EXCEPT ![k].todo = @ \ {id}]
    /\ output' = [output EXCEPT ![p] = NoFile]
    /\ agent' = [a \in Attempts |->
         [agent[a] EXCEPT !.disturbed = @ \/ (output[p] # NoFile /\ agent[a].pc \in Executing)]]
    /\ UNCHANGED <<deployment, orphans, commands, rowVars, cleanups, faults, owed, removed, doomed>>

\* The workspace cannot be read, the path is not resolved, the file is not a regular one,
\* or the system refuses to remove it: the file is left out and its row stays deleted.
DeleteFileFails(k) == \E id \in cleaner[k].todo :
    /\ cleaner[k].pc = "remove"
    /\ Fault
    /\ cleaner' = [cleaner EXCEPT ![k].todo = @ \ {id}]
    /\ doomed' = doomed \ {<<k, id>>}
    /\ UNCHANGED <<deployment, workVars, rowVars, cleanups, owed, removed>>

CleanupReturns(k) ==
    /\ cleaner[k].pc = "remove" /\ cleaner[k].todo = {}
    /\ cleaner' = [cleaner EXCEPT ![k] = NoCleaner]
    /\ UNCHANGED <<deployment, workVars, rowVars, cleanups, faults, owed, removed, doomed>>

\* The control plane stops, or does not read what the update has returned. The rows are
\* marked and no cleanup will return them again, so their files stay.
CleanupCrashes(k) ==
    /\ cleaner[k].pc = "remove"
    /\ deployment.store = "postgres" /\ Fault
    /\ cleaner' = [cleaner EXCEPT ![k] = NoCleaner]
    /\ doomed' = doomed \ ({k} \X cleaner[k].todo)
    /\ UNCHANGED <<deployment, workVars, rowVars, cleanups, owed, removed>>

-----------------------------------------------------------------------------

Init ==
    /\ deployment \in Deployments
    /\ output = NoFiles
    /\ status = "running" /\ active = NoAttempt
    /\ agent = [a \in Attempts |-> Absent]
    /\ orphans = {}
    /\ handler = [h \in Handlers |-> NoHandler]
    /\ artifact = [id \in Ids |-> "none"]
    /\ past = {}
    /\ cleaner = [k \in Cleaners |-> NoCleaner]
    /\ commands = 0 /\ cleanups = 0 /\ faults = 0
    /\ owed = [a \in Attempts |-> {}]
    /\ finisher = NoAttempt
    /\ removed = {} /\ doomed = {}

AgentStep(a) ==
    \/ Claim(a) \/ Execute(a) \/ ScanOutput(a) \/ StartCommand(a)
    \/ CommandChangesFile(a) \/ CommandEnds(a) \/ OrphanChangesFile(a) \/ FallBackToLocal(a)
    \/ CollectArtifacts(a) \/ LoseResult(a)
    \/ PostArtifacts(a) \/ ReadSaved(a) \/ GiveUp(a) \/ CompleteWithUsage(a)

HandlerStep(h) ==
    \/ StoreError(h) \/ CheckRunAttempt(h) \/ GetRun(h) \/ GetArtifact(h) \/ GetArtifactFails(h)
    \/ AddArtifact(h) \/ ArtifactEvent(h) \/ Registered(h) \/ SucceedRun(h)

CleanupStep(k) ==
    \/ MemoryDeleteExpired(k) \/ PostgresSelectExpired(k) \/ PostgresMarkDeleted(k)
    \/ DeleteFile(k) \/ DeleteFileFails(k) \/ CleanupReturns(k) \/ CleanupCrashes(k)

Next ==
    \/ \E a \in Attempts : AgentStep(a)
    \/ \E h \in Handlers : HandlerStep(h)
    \/ \E k \in Cleaners : CleanupStep(k)
    \/ \E id \in Ids : Expire(id)
    \/ CancelRun

Spec == Init /\ [][Next]_vars

-----------------------------------------------------------------------------
(* Properties *)

\* When an attempt has completed the run, every file that its commands have left has
\* become an artifact, even if registering it failed or timed out at first.
OutputsRegistered ==
    finisher # NoAttempt => \A id \in owed[finisher] : artifact[id] # "none"

\* An artifact keeps its file until an artifact of that file expires or a command removes
\* it: no cleanup takes a file for any other reason.
ArtifactKeepsFile ==
    \A id \in Ids : Visible(id) =>
        \/ output[PathOf(id)] # NoFile
        \/ PathOf(id) \in removed
        \/ \E x \in past : PathOf(x) = PathOf(id)

\* When a cleanup has ended, the files of the artifacts that it has marked are gone, unless
\* they have been written again, removing them has failed or the cleanup has died.
FilesReclaimed ==
    \A x \in doomed : cleaner[x[1]].pc = "idle" => output[PathOf(x[2])] = NoFile

=============================================================================
