---------------------------- MODULE ArtifactsProofs ----------------------------
(***************************************************************************)
(* Theorems about Artifacts for all deployments, limits and bounds, any    *)
(* number of attempts, commands, files and cleanups, and any faults.       *)
(***************************************************************************)
EXTENDS Artifacts, WellFoundedInduction, TLAPS

Files == [Paths -> Versions \cup {NoFile}]

Report == [id : Ids, dated : BOOLEAN]

Phases == {"absent", "idle", "snapshot", "running", "collect", "register", "registering", "done"}

Agent == [pc : Phases, executor : {"local", "container"}, command : 0..MaxCommands, next : 0..(MaxPaths + 1),
          before : Files, found : Files, report : SUBSET Ids, got : SUBSET Report,
          wrote : SUBSET Paths, disturbed : BOOLEAN]

\* A command at work has a number, and a scan a place.
SoundAgent == {g \in Agent : /\ g.pc \in Executing => g.command # 0
                             /\ g.pc \in {"snapshot", "collect"} => g.next # 0}

Handler == [pc : {"idle", "check", "begin", "get", "add", "event", "status", "saved", "refused"},
            todo : SUBSET Report, awaited : BOOLEAN]

Cleaner == [pc : {"idle", "mark", "remove"}, todo : SUBSET Ids]

WorkType ==
    /\ output \in Files
    /\ agent \in [Attempts -> SoundAgent]
    /\ commands \in 0..MaxCommands
    /\ owed \in [Attempts -> SUBSET Ids]

HandlerType ==
    /\ handler \in [Handlers -> Handler]
    /\ \A h \in Handlers : handler[h].pc \in {"add", "event"} => handler[h].todo # {}

RowType ==
    /\ deployment \in Deployments
    /\ status \in {"running"} \cup TerminalStatus
    /\ {active, finisher} \subseteq Attempts \cup {NoAttempt}
    /\ artifact \in [Ids -> {"none", "live", "expired", "deleted"}]
    /\ past \subseteq Ids

TypeOK == WorkType /\ HandlerType /\ RowType /\ cleaner \in [Cleaners -> Cleaner]

-----------------------------------------------------------------------------
(* Why an artifact keeps its file *)

\* The file is there, or a command has removed it, or an artifact of it has expired.
Kept(p) == output[p] # NoFile \/ p \in removed \/ \E x \in past : PathOf(x) = p

\* What an attempt has found, reported or observed is a file that was there.
Backed(g) ==
    /\ \A p \in Paths : g.found[p] # NoFile => Kept(p)
    /\ \A id \in g.report : Kept(PathOf(id))
    /\ \A x \in g.got : Kept(PathOf(x.id))

\* So is what is sent or registered, and a cleanup has only artifacts that have expired.
KeepInv ==
    /\ \A a \in Attempts : Backed(agent[a])
    /\ \A h \in Handlers : \A x \in handler[h].todo : Kept(PathOf(x.id))
    /\ \A id \in Ids : artifact[id] # "none" => Kept(PathOf(id))
    /\ \A id \in Ids : artifact[id] \in {"expired", "deleted"} => id \in past
    /\ \A k \in Cleaners : cleaner[k].todo \subseteq past

-----------------------------------------------------------------------------
(* Why the outputs of the attempt that completes the run are registered *)

IdsOf(reports) == {x.id : x \in reports}

Known == {id \in Ids : artifact[id] # "none"}

\* What a scan that nobody disturbs has found is what there is.
Scanned(g, files) ==
    g.pc = "collect" /\ ~g.disturbed => \A p \in Paths : p < g.next => g.found[p] = files[p]

\* An attempt at work still has what it owes.
Owes(g, ids) ==
    /\ g.pc \notin {"register", "registering"} => g.report = {}
    /\ g.pc = "absent" => ids = {}
    /\ g.pc # "done" => ids \subseteq IdsOf(g.got) \cup g.report

AttemptInv == \A a \in Attempts : Scanned(agent[a], output) /\ Owes(agent[a], owed[a])

\* An artifact is announced once it is there.
AnnounceInv ==
    \A h \in Handlers : handler[h].pc = "event" => First(handler[h].todo).id \in Known

\* A complete has it, or has registered it.
CompleteInv ==
    \A a \in Attempts :
        /\ handler[<<a, "register">>].pc # "status"
        /\ handler[<<a, "complete">>].pc # "idle" =>
             /\ agent[a].pc = "done"
             /\ ~handler[<<a, "complete">>].awaited
             /\ owed[a] \subseteq IdsOf(handler[<<a, "complete">>].todo) \cup Known
             /\ handler[<<a, "complete">>].pc = "status" => handler[<<a, "complete">>].todo = {}

FinishedInv == finisher # NoAttempt => agent[finisher].pc = "done" /\ owed[finisher] \subseteq Known

RegisterInv == AttemptInv /\ AnnounceInv /\ CompleteInv /\ FinishedInv

-----------------------------------------------------------------------------
(* Types *)

LEMMA BatchesExpired ==
    ASSUME NEW ids \in Batches
    PROVE  ids \subseteq ExpiredArtifacts
  BY DEF Batches, kSubset

LEMMA IdleSound ==
    ASSUME NEW got \in SUBSET Report
    PROVE  Idle(got) \in SoundAgent
  BY BoundsAssumption DEF Idle, SoundAgent, Agent, Phases, Files, NoFiles, Executing

LEMMA InitType == Init => TypeOK
  <1> SUFFICES ASSUME Init PROVE TypeOK
    OBVIOUS
  <1>1. Absent \in SoundAgent
    <2>1. Idle({}) \in SoundAgent
      BY IdleSound
    <2> QED
      BY <2>1 DEF Absent, SoundAgent, Agent, Phases, Executing
  <1>2. NoHandler \in Handler /\ NoHandler.pc = "idle" /\ NoCleaner \in Cleaner
    BY DEF NoHandler, Handler, NoCleaner, Cleaner
  <1>3. WorkType
    BY <1>1, BoundsAssumption DEF Init, WorkType, Files, NoFiles
  <1>4. HandlerType
    BY <1>2 DEF Init, HandlerType
  <1>5. RowType
    BY DEF Init, RowType
  <1> QED
    BY <1>2, <1>3, <1>4, <1>5 DEF Init, TypeOK

\* What an attempt is after one of its fields has changed.
LEMMA AgentFields ==
    ASSUME NEW g \in Agent
    PROVE  /\ \A v \in Phases : [g EXCEPT !.pc = v] \in Agent
           /\ \A v \in {"local", "container"} : [g EXCEPT !.executor = v] \in Agent
           /\ \A v \in 0..MaxCommands : [g EXCEPT !.command = v] \in Agent
           /\ \A v \in 0..(MaxPaths + 1) : [g EXCEPT !.next = v] \in Agent
           /\ \A v \in Files : [g EXCEPT !.before = v] \in Agent
           /\ \A v \in Files : [g EXCEPT !.found = v] \in Agent
           /\ \A v \in SUBSET Ids : [g EXCEPT !.report = v] \in Agent
           /\ \A v \in SUBSET Paths : [g EXCEPT !.wrote = v] \in Agent
           /\ \A v \in BOOLEAN : [g EXCEPT !.disturbed = v] \in Agent
  <1>1. \A v \in Phases : [g EXCEPT !.pc = v] \in Agent
    BY DEF Agent, Phases
  <1>2. \A v \in {"local", "container"} : [g EXCEPT !.executor = v] \in Agent
    BY DEF Agent
  <1>3. \A v \in 0..MaxCommands : [g EXCEPT !.command = v] \in Agent
    BY DEF Agent
  <1>4. \A v \in 0..(MaxPaths + 1) : [g EXCEPT !.next = v] \in Agent
    BY DEF Agent
  <1>5. \A v \in Files : [g EXCEPT !.before = v] \in Agent
    BY DEF Agent
  <1>6. \A v \in Files : [g EXCEPT !.found = v] \in Agent
    BY DEF Agent
  <1>7. \A v \in SUBSET Ids : [g EXCEPT !.report = v] \in Agent
    BY DEF Agent
  <1>8. \A v \in SUBSET Paths : [g EXCEPT !.wrote = v] \in Agent
    BY DEF Agent
  <1>9. \A v \in BOOLEAN : [g EXCEPT !.disturbed = v] \in Agent
    BY DEF Agent
  <1> QED
    BY <1>1, <1>2, <1>3, <1>4, <1>5, <1>6, <1>7, <1>8, <1>9

-----------------------------------------------------------------------------
(* The steps of an attempt, by what becomes of the fields that matter *)

\* The files, and what others have done to them, are as they were.
SameFiles(t, g) == t.wrote = g.wrote /\ t.disturbed = g.disturbed

SameReports(t, g) == t.report = g.report /\ t.got = g.got

Become(a, t) == t \in SoundAgent /\ agent' = [agent EXCEPT ![a] = t]

LEMMA IdleFields ==
    ASSUME NEW got
    PROVE  LET t == Idle(got) IN
           /\ t.pc = "idle" /\ t.found = NoFiles /\ t.report = {} /\ t.got = got /\ t.wrote = {}
           /\ t.disturbed = FALSE
  BY DEF Idle

\* One attempt goes on, and nobody else notices.
LEMMA BecomeType ==
    ASSUME WorkType, NEW a \in Attempts, NEW t, Become(a, t), output' = output,
           commands' \in 0..MaxCommands, owed' \in [Attempts -> SUBSET Ids]
    PROVE  WorkType'
  BY DEF WorkType, Become

LEMMA BecomeKeeps ==
    ASSUME WorkType, KeepInv, NEW a \in Attempts, NEW t, Become(a, t), Backed(t),
           \A h \in Handlers : \A x \in handler'[h].todo : Kept(PathOf(x.id)),
           UNCHANGED <<output, removed, past, artifact, cleaner>>
    PROVE  KeepInv'
  <1>1. \A p : Kept(p)' <=> Kept(p)
    BY DEF Kept
  <1>2. \A b \in Attempts : Backed(agent'[b])
    BY DEF KeepInv, Become, WorkType
  <1>3. \A b \in Attempts : Backed(agent[b])'
    BY <1>1, <1>2 DEF Backed
  <1> QED
    BY <1>1, <1>3 DEF KeepInv

\* Of the handlers, only the one that registers for the attempt may have changed.
RegistersOnly(a) == \A h \in Handlers :
    \/ /\ handler'[h].pc = handler[h].pc /\ handler'[h].todo = handler[h].todo
       /\ h # <<a, "register">> => handler'[h].awaited = handler[h].awaited
    \/ h = <<a, "register">> /\ handler'[h].pc \in {"idle", "check"}

LEMMA BecomeRegisters ==
    ASSUME WorkType, RowType, RegisterInv, NEW a \in Attempts, NEW t, Become(a, t),
           agent[a].pc # "done", Scanned(t, output), Owes(t, owed'[a]), RegistersOnly(a),
           \A b \in Attempts \ {a} : owed'[b] = owed[b],
           UNCHANGED <<output, artifact, finisher>>
    PROVE  RegisterInv'
  <1>1. \A b \in Attempts : agent'[b] = IF b = a THEN t ELSE agent[b]
    BY DEF Become, WorkType
  <1>2. AttemptInv'
    BY <1>1 DEF RegisterInv, AttemptInv
  <1>3. Known' = Known
    BY DEF Known
  <1>4. AnnounceInv'
    BY <1>3 DEF RegisterInv, AnnounceInv, RegistersOnly
  <1>5. CompleteInv'
    <2> SUFFICES ASSUME NEW b \in Attempts
                 PROVE  /\ handler'[<<b, "register">>].pc # "status"
                        /\ handler'[<<b, "complete">>].pc # "idle" =>
                             /\ agent'[b].pc = "done"
                             /\ ~handler'[<<b, "complete">>].awaited
                             /\ owed'[b] \subseteq IdsOf(handler'[<<b, "complete">>].todo) \cup Known
                             /\ handler'[<<b, "complete">>].pc = "status" =>
                                  handler'[<<b, "complete">>].todo = {}
      BY <1>3 DEF CompleteInv, IdsOf
    <2>1. <<b, "register">> \in Handlers /\ <<b, "complete">> \in Handlers
      BY DEF Handlers
    <2>2. <<b, "complete">> # <<a, "register">>
      OBVIOUS
    <2>3. handler'[<<b, "register">>].pc # "status"
      BY <2>1 DEF RegisterInv, CompleteInv, RegistersOnly
    <2>4. /\ handler'[<<b, "complete">>].pc = handler[<<b, "complete">>].pc
          /\ handler'[<<b, "complete">>].todo = handler[<<b, "complete">>].todo
          /\ handler'[<<b, "complete">>].awaited = handler[<<b, "complete">>].awaited
      BY <2>1, <2>2 DEF RegistersOnly
    <2> QED
      BY <1>1, <2>3, <2>4 DEF RegisterInv, CompleteInv
  <1>6. FinishedInv'
    BY <1>1, <1>3 DEF RegisterInv, FinishedInv, RowType
  <1> QED
    BY <1>2, <1>4, <1>5, <1>6 DEF RegisterInv

\* What the proofs are about.
Inv == TypeOK /\ KeepInv /\ RegisterInv

LEMMA BecomeInv ==
    ASSUME Inv, NEW a \in Attempts, NEW t, Become(a, t), agent[a].pc # "done",
           Backed(t), Scanned(t, output), Owes(t, owed'[a]),
           commands' \in 0..MaxCommands,
           owed' \in [Attempts -> SUBSET Ids], \A b \in Attempts \ {a} : owed'[b] = owed[b],
           UNCHANGED <<deployment, output, removed, status, active, handler, artifact, past, finisher, cleaner>>
    PROVE  Inv'
  <1>1. TypeOK'
    BY BecomeType DEF Inv, TypeOK, HandlerType, RowType
  <1>2. KeepInv'
    <2>1. \A h \in Handlers : \A x \in handler'[h].todo : Kept(PathOf(x.id))
      BY DEF Inv, KeepInv
    <2> QED
      BY <2>1, BecomeKeeps DEF Inv, TypeOK
  <1>3. RegisterInv'
    <2>1. RegistersOnly(a)
      BY DEF RegistersOnly
    <2> QED
      BY <2>1, BecomeRegisters DEF Inv, TypeOK
  <1> QED
    BY <1>1, <1>2, <1>3 DEF Inv

\* What an attempt has got stays what it was.
LEMMA BackedAgain ==
    ASSUME Inv, NEW a \in Attempts, NEW t, SameReports(t, agent[a]),
           t.found = NoFiles \/ t.found = agent[a].found
    PROVE  Backed(t)
  BY DEF Inv, KeepInv, Backed, SameReports, NoFiles

LEMMA OwesAgain ==
    ASSUME Inv, NEW a \in Attempts, NEW t, SameReports(t, agent[a]),
           agent[a].pc \notin {"register", "registering", "absent", "done"},
           t.pc \notin {"absent", "done"}
    PROVE  Owes(t, owed[a])
  BY DEF Inv, RegisterInv, AttemptInv, Owes, SameReports

\* The command starts with what the scan has found.
LEMMA StartCommandEffect ==
    ASSUME WorkType, NEW a \in Attempts, StartCommand(a)
    PROVE  \E t : /\ Become(a, t)
                  /\ t.pc = "running"
                  /\ t.found = NoFiles
                  /\ t.before = agent[a].found
                  /\ SameFiles(t, agent[a])
                  /\ SameReports(t, agent[a])
  <1> DEFINE g == agent[a]
         t == [g EXCEPT !.pc = "running", !.before = g.found, !.found = NoFiles, !.next = 0]
  <1>1. g \in Agent /\ g \in SoundAgent
    BY DEF WorkType, SoundAgent
  <1>2. g.found \in Files /\ NoFiles \in Files /\ 0 \in 0..(MaxPaths + 1)
    BY <1>1, BoundsAssumption DEF Agent, NoFiles, Files
  <1>3. t \in Agent
    BY <1>1, <1>2, AgentFields DEF Phases
  <1>4. /\ t.pc = "running"
        /\ t.found = NoFiles
        /\ t.before = g.found
        /\ SameFiles(t, g)
        /\ SameReports(t, g)
        /\ t.command = g.command
    BY <1>1 DEF Agent, SameFiles, SameReports
  <1>5. agent' = [agent EXCEPT ![a] = t]
    BY DEF StartCommand
  <1> HIDE DEF t
  <1>6. t \in SoundAgent
    BY <1>1, <1>3, <1>4 DEF SoundAgent, Executing, StartCommand
  <1> QED
    BY <1>4, <1>5, <1>6 DEF Become

LEMMA StartCommandInv ==
    ASSUME Inv, NEW a \in Attempts, StartCommand(a)
    PROVE  Inv'
  <1>1. WorkType
    BY DEF Inv, TypeOK
  <1>2. PICK t : /\ Become(a, t)
                 /\ t.pc = "running"
                 /\ t.found = NoFiles
                 /\ SameFiles(t, agent[a])
                 /\ SameReports(t, agent[a])
    BY <1>1, StartCommandEffect
  <1>3. agent[a].pc = "snapshot" /\ UNCHANGED <<commands, owed>>
    BY DEF StartCommand
  <1>4. UNCHANGED <<deployment, output, removed, status, active, handler, artifact, past, finisher, cleaner>>
    BY DEF StartCommand, rowVars, cleanVars
  <1>5. Backed(t)
    BY <1>2, BackedAgain
  <1>6. Scanned(t, output)
    BY <1>2, <1>3 DEF Inv, RegisterInv, AttemptInv, Scanned, SameFiles, Paths
  <1>7. Owes(t, owed'[a])
    BY <1>2, <1>3, OwesAgain
  <1> QED
    BY <1>1, <1>2, <1>3, <1>4, <1>5, <1>6, <1>7, BecomeInv DEF WorkType


\* The command ends.
LEMMA CommandEndsEffect ==
    ASSUME WorkType, NEW a \in Attempts, CommandEnds(a)
    PROVE  \E t : /\ Become(a, t)
                  /\ t.pc = "collect"
                  /\ t.next = 1
                  /\ t.found = agent[a].found
                  /\ t.before = agent[a].before
                  /\ SameFiles(t, agent[a])
                  /\ SameReports(t, agent[a])
  <1> DEFINE g == agent[a]
         t == [g EXCEPT !.pc = "collect", !.next = 1]
  <1>1. g \in Agent /\ g \in SoundAgent
    BY DEF WorkType, SoundAgent
  <1>2. 1 \in 0..(MaxPaths + 1)
    BY BoundsAssumption
  <1>3. t \in Agent
    BY <1>1, <1>2, AgentFields DEF Phases
  <1>4. /\ t.pc = "collect"
        /\ t.next = 1
        /\ t.found = g.found
        /\ t.before = g.before
        /\ SameFiles(t, g)
        /\ SameReports(t, g)
        /\ t.command = g.command
    BY <1>1 DEF Agent, SameFiles, SameReports
  <1>5. agent' = [agent EXCEPT ![a] = t]
    BY DEF CommandEnds
  <1> HIDE DEF t
  <1>6. t \in SoundAgent
    BY <1>1, <1>3, <1>4 DEF SoundAgent, Executing, CommandEnds
  <1> QED
    BY <1>4, <1>5, <1>6 DEF Become

LEMMA CommandEndsInv ==
    ASSUME Inv, NEW a \in Attempts, CommandEnds(a)
    PROVE  Inv'
  <1>1. WorkType
    BY DEF Inv, TypeOK
  <1>2. PICK t : /\ Become(a, t)
                 /\ t.pc = "collect"
                 /\ t.next = 1
                 /\ t.found = agent[a].found
                 /\ SameFiles(t, agent[a])
                 /\ SameReports(t, agent[a])
    BY <1>1, CommandEndsEffect
  <1>3. agent[a].pc = "running" /\ UNCHANGED <<commands, owed>>
    BY DEF CommandEnds
  <1>4. UNCHANGED <<deployment, output, removed, status, active, handler, artifact, past, finisher, cleaner>>
    BY DEF CommandEnds, rowVars, cleanVars
  <1>5. Backed(t)
    BY <1>2, BackedAgain
  <1>6. Scanned(t, output)
    BY <1>2, <1>3 DEF Inv, RegisterInv, AttemptInv, Scanned, SameFiles, Paths
  <1>7. Owes(t, owed'[a])
    BY <1>2, <1>3, OwesAgain
  <1> QED
    BY <1>1, <1>2, <1>3, <1>4, <1>5, <1>6, <1>7, BecomeInv DEF WorkType


\* The command begins again.
LEMMA FallBackToLocalEffect ==
    ASSUME WorkType, NEW a \in Attempts, FallBackToLocal(a)
    PROVE  \E t : /\ Become(a, t)
                  /\ t.pc = "snapshot"
                  /\ t.next = 1
                  /\ t.found = agent[a].found
                  /\ t.wrote = {}
                  /\ SameReports(t, agent[a])
  <1> DEFINE g == agent[a]
         t == [g EXCEPT !.pc = "snapshot", !.executor = "local", !.next = 1, !.before = NoFiles,
                     !.wrote = {}]
  <1>1. g \in Agent /\ g \in SoundAgent
    BY DEF WorkType, SoundAgent
  <1>2. NoFiles \in Files /\ 1 \in 0..(MaxPaths + 1) /\ {} \in SUBSET Paths
    BY BoundsAssumption DEF NoFiles, Files
  <1>3. t \in Agent
    BY <1>1, <1>2, AgentFields DEF Phases
  <1>4. /\ t.pc = "snapshot"
        /\ t.next = 1
        /\ t.found = g.found
        /\ t.wrote = {}
        /\ SameReports(t, g)
        /\ t.command = g.command
    BY <1>1 DEF Agent, SameFiles, SameReports
  <1>5. agent' = [agent EXCEPT ![a] = t]
    BY DEF FallBackToLocal
  <1> HIDE DEF t
  <1>6. t \in SoundAgent
    BY <1>1, <1>3, <1>4 DEF SoundAgent, Executing, FallBackToLocal
  <1> QED
    BY <1>4, <1>5, <1>6 DEF Become

LEMMA FallBackToLocalInv ==
    ASSUME Inv, NEW a \in Attempts, FallBackToLocal(a)
    PROVE  Inv'
  <1>1. WorkType
    BY DEF Inv, TypeOK
  <1>2. PICK t : /\ Become(a, t)
                 /\ t.pc = "snapshot"
                 /\ t.found = agent[a].found
                 /\ t.wrote = {}
                 /\ SameReports(t, agent[a])
    BY <1>1, FallBackToLocalEffect
  <1>3. agent[a].pc = "running" /\ UNCHANGED <<commands, owed>>
    BY DEF FallBackToLocal
  <1>4. UNCHANGED <<deployment, output, removed, status, active, handler, artifact, past, finisher, cleaner>>
    BY DEF FallBackToLocal, rowVars, cleanVars
  <1>5. Backed(t)
    BY <1>2, BackedAgain
  <1>6. Scanned(t, output)
    BY <1>2, <1>3 DEF Inv, RegisterInv, AttemptInv, Scanned, SameFiles, Paths
  <1>7. Owes(t, owed'[a])
    BY <1>2, <1>3, OwesAgain
  <1> QED
    BY <1>1, <1>2, <1>3, <1>4, <1>5, <1>6, <1>7, BecomeInv DEF WorkType

\* invokeBuiltin starts a command.
LEMMA ExecuteEffect ==
    ASSUME WorkType, RowType, NEW a \in Attempts, Execute(a)
    PROVE  /\ commands' \in 0..MaxCommands
           /\ \E t : /\ Become(a, t)
                     /\ t.pc = "snapshot"
                     /\ t.found = agent[a].found
                     /\ SameFiles(t, agent[a])
                     /\ SameReports(t, agent[a])
  <1> DEFINE g == agent[a]
         t == [g EXCEPT !.pc = "snapshot", !.executor = deployment.executor, !.command = commands + 1,
                     !.next = 1]
  <1>1. g \in Agent /\ g \in SoundAgent
    BY DEF WorkType, SoundAgent
  <1>2. deployment.commands \in 1..MaxCommands /\ deployment.executor \in {"local", "container"}
    BY DeploymentsAssumption DEF RowType
  <1>3. commands + 1 \in 1..MaxCommands /\ commands + 1 \in 0..MaxCommands /\ 1 \in 0..(MaxPaths + 1)
    BY <1>2, BoundsAssumption DEF Execute, WorkType
  <1>4. t \in Agent
    BY <1>1, <1>2, <1>3, AgentFields DEF Phases
  <1>5. /\ t.pc = "snapshot"
        /\ t.next = 1
        /\ t.command = commands + 1
        /\ t.found = g.found
        /\ SameFiles(t, g)
        /\ SameReports(t, g)
    BY <1>1 DEF Agent, SameFiles, SameReports
  <1>6. agent' = [agent EXCEPT ![a] = t] /\ commands' = commands + 1
    BY DEF Execute
  <1> HIDE DEF t
  <1>7. t.command # 0
    BY <1>3, <1>5
  <1>8. t \in SoundAgent
    BY <1>4, <1>5, <1>7 DEF SoundAgent
  <1> QED
    BY <1>3, <1>5, <1>6, <1>8 DEF Become

LEMMA ExecuteInv ==
    ASSUME Inv, NEW a \in Attempts, Execute(a)
    PROVE  Inv'
  <1>1. WorkType /\ RowType
    BY DEF Inv, TypeOK
  <1>2. PICK t : /\ Become(a, t)
                 /\ t.pc = "snapshot"
                 /\ t.found = agent[a].found
                 /\ SameFiles(t, agent[a])
                 /\ SameReports(t, agent[a])
    BY <1>1, ExecuteEffect
  <1>3. agent[a].pc = "idle" /\ owed' = owed /\ commands' \in 0..MaxCommands
    BY <1>1, ExecuteEffect DEF Execute
  <1>4. UNCHANGED <<deployment, output, removed, status, active, handler, artifact, past, finisher, cleaner>>
    BY DEF Execute, rowVars, cleanVars
  <1>5. Backed(t)
    BY <1>2, BackedAgain
  <1>6. Scanned(t, output)
    BY <1>2, <1>3 DEF Inv, RegisterInv, AttemptInv, Scanned, SameFiles
  <1>7. Owes(t, owed'[a])
    BY <1>2, <1>3, OwesAgain
  <1> QED
    BY <1>1, <1>2, <1>3, <1>4, <1>5, <1>6, <1>7, BecomeInv DEF WorkType

\* A tool call ends, and nothing is reported any more.
LEMMA BecomeIdleInv ==
    ASSUME Inv, NEW a \in Attempts, NEW got \in SUBSET Report, agent' = [agent EXCEPT ![a] = Idle(got)],
           agent[a].pc # "done", \A x \in got : Kept(PathOf(x.id)), owed[a] \subseteq IdsOf(got),
           UNCHANGED <<deployment, output, removed, commands, owed, status, active, handler, artifact, past,
                       finisher, cleaner>>
    PROVE  Inv'
  <1> DEFINE t == Idle(got)
  <1>1. Become(a, t)
    BY IdleSound DEF Become
  <1>2. /\ t.pc = "idle" /\ t.found = NoFiles /\ t.report = {} /\ t.got = got /\ t.wrote = {}
        /\ t.disturbed = FALSE
    BY IdleFields
  <1> HIDE DEF t
  <1>3. Backed(t) /\ Scanned(t, output) /\ Owes(t, owed'[a])
    BY <1>2 DEF Backed, NoFiles, Scanned, Owes
  <1> QED
    BY <1>1, <1>3, BecomeInv DEF Inv, TypeOK, WorkType

\* So it is with a command whose result is lost or an error.
LEMMA CommandLostInv ==
    ASSUME Inv, NEW a \in Attempts, agent' = [agent EXCEPT ![a] = Idle(agent[a].got)],
           agent[a].pc \in Executing,
           UNCHANGED <<deployment, output, removed, commands, owed, status, active, handler, artifact, past,
                       finisher, cleaner>>
    PROVE  Inv'
  <1>1. agent[a].got \in SUBSET Report
    BY DEF Inv, TypeOK, WorkType, SoundAgent, Agent
  <1>2. agent[a].pc \notin {"register", "registering", "done"}
    BY DEF Executing
  <1>3. owed[a] \subseteq IdsOf(agent[a].got)
    BY <1>2 DEF Inv, RegisterInv, AttemptInv, Owes
  <1>4. \A x \in agent[a].got : Kept(PathOf(x.id))
    BY DEF Inv, KeepInv, Backed
  <1> QED
    BY <1>1, <1>2, <1>3, <1>4, BecomeIdleInv

LEMMA LoseResultInv ==
    ASSUME Inv, NEW a \in Attempts, LoseResult(a)
    PROVE  Inv'
  BY CommandLostInv DEF LoseResult, Executing, rowVars, cleanVars

\* A scan reads a file, and goes on to the next.
LEMMA ScanOutputEffect ==
    ASSUME WorkType, NEW a \in Attempts, agent[a].next \in Paths,
           NEW t, t = [agent[a] EXCEPT !.next = agent[a].next + 1,
                                       !.found = [@ EXCEPT ![agent[a].next] = output[agent[a].next]]],
           agent[a].pc \in {"snapshot", "collect"}
    PROVE  /\ t \in SoundAgent
           /\ t.pc = agent[a].pc
           /\ t.next = agent[a].next + 1
           /\ t.found = [agent[a].found EXCEPT ![agent[a].next] = output[agent[a].next]]
           /\ SameFiles(t, agent[a])
           /\ SameReports(t, agent[a])
  <1> DEFINE g == agent[a]
         f == [g.found EXCEPT ![g.next] = output[g.next]]
  <1>1. g \in Agent /\ g \in SoundAgent /\ output \in Files
    BY DEF WorkType, SoundAgent
  <1>2. f \in Files /\ g.next + 1 \in 0..(MaxPaths + 1)
    BY <1>1, BoundsAssumption DEF Files, Agent, Paths
  <1>3. t = [g EXCEPT !.next = g.next + 1, !.found = f]
    OBVIOUS
  <1>4. t \in Agent
    <2> DEFINE u == [g EXCEPT !.next = g.next + 1]
    <2>1. u \in Agent
      BY <1>1, <1>2, AgentFields
    <2>2. t = [u EXCEPT !.found = f]
      BY <1>3
    <2> HIDE DEF u
    <2>3. \A v \in Files : [u EXCEPT !.found = v] \in Agent
      BY <2>1, AgentFields
    <2>4. [u EXCEPT !.found = f] \in Agent
      BY <1>2, <2>3
    <2> QED
      BY <2>2, <2>4
  <1>5. /\ t.pc = g.pc
        /\ t.next = g.next + 1
        /\ t.found = f
        /\ SameFiles(t, g)
        /\ SameReports(t, g)
        /\ t.command = g.command
    BY <1>1, <1>3 DEF Agent, SameFiles, SameReports
  <1>6. g.next + 1 # 0
    BY BoundsAssumption DEF Paths
  <1> HIDE <1>3
  <1>7. t \in SoundAgent
    BY <1>1, <1>4, <1>5, <1>6 DEF SoundAgent, Executing
  <1> QED
    BY <1>5, <1>7

LEMMA ScanOutputInv ==
    ASSUME Inv, NEW a \in Attempts, ScanOutput(a)
    PROVE  Inv'
  <1> DEFINE g == agent[a]
         p == g.next
         f == [g.found EXCEPT ![p] = output[p]]
         t == [g EXCEPT !.next = p + 1, !.found = [@ EXCEPT ![p] = output[p]]]
  <1>1. WorkType /\ g \in Agent /\ output \in Files /\ g.found \in Files
    BY DEF Inv, TypeOK, WorkType, SoundAgent, Agent
  <1>2. g.pc \in {"snapshot", "collect"} /\ p \in Paths
    BY DEF ScanOutput
  <1>3. UNCHANGED <<deployment, output, removed, commands, owed, status, active, handler, artifact, past,
                    finisher, cleaner>>
    BY DEF ScanOutput, rowVars, cleanVars
  <1>4. CASE agent' = [agent EXCEPT ![a] = Idle(g.got)]
    BY <1>2, <1>3, <1>4, CommandLostInv DEF Executing
  <1>5. CASE agent' = [agent EXCEPT ![a] = t]
    <2>1. /\ t \in SoundAgent
          /\ t.pc = g.pc
          /\ t.next = p + 1
          /\ t.found = f
          /\ SameFiles(t, g)
          /\ SameReports(t, g)
      BY <1>1, <1>2, ScanOutputEffect
    <2>2. Become(a, t)
      BY <1>5, <2>1 DEF Become
    <2> HIDE DEF t
    <2>3. \A q \in Paths : t.found[q] = IF q = p THEN output[p] ELSE g.found[q]
      BY <1>1, <1>2, <2>1 DEF Files
    <2>4. Backed(t)
      BY <2>1, <2>3 DEF Inv, KeepInv, Backed, SameReports, Kept
    <2>5. Scanned(t, output)
      <3>1. \A q \in Paths : q < p + 1 => q < p \/ q = p
        BY <1>2 DEF Paths
      <3> QED
        BY <1>2, <2>1, <2>3, <3>1 DEF Inv, RegisterInv, AttemptInv, Scanned, SameFiles
    <2>6. Owes(t, owed'[a])
      BY <1>2, <1>3, <2>1, OwesAgain
    <2> QED
      BY <1>1, <1>2, <1>3, <2>2, <2>4, <2>5, <2>6, BecomeInv DEF WorkType
  <1> QED
    BY <1>4, <1>5 DEF ScanOutput

\* What a scan has found becomes a report, and it has all that the command owes.
LEMMA CollectArtifactsInv ==
    ASSUME Inv, NEW a \in Attempts, CollectArtifacts(a)
    PROVE  Inv'
  <1> DEFINE g == agent[a]
         ids == {<<g.command, p>> : p \in ChangedFiles(g.before, g.found)}
         owes == {<<g.command, p>> : p \in {q \in g.wrote : ~g.disturbed /\ output[q] \notin {NoFile, g.before[q]}}}
         t == IF ids = {} THEN Idle(g.got) ELSE [Idle(g.got) EXCEPT !.pc = "register", !.report = ids]
  <1>1. WorkType /\ g \in SoundAgent /\ g \in Agent
    BY DEF Inv, TypeOK, WorkType, SoundAgent
  <1>2. g.pc = "collect" /\ g.next \notin Paths
    BY DEF CollectArtifacts
  <1>3. /\ agent' = [agent EXCEPT ![a] = t]
        /\ owed' = [owed EXCEPT ![a] = @ \cup owes]
        /\ UNCHANGED <<deployment, output, removed, commands, status, active, handler, artifact, past,
                       finisher, cleaner>>
    BY DEF CollectArtifacts, rowVars, cleanVars
  <1>4. g.command \in 1..MaxCommands /\ g.next = MaxPaths + 1 /\ g.wrote \subseteq Paths /\ g.got \in SUBSET Report
    BY <1>1, <1>2, BoundsAssumption DEF SoundAgent, Agent, Executing, Paths
  <1>5. ids \in SUBSET Ids /\ owes \in SUBSET Ids
    BY <1>4 DEF Ids, ChangedFiles, Present
  <1>6. owes \subseteq ids
    <2> SUFFICES ASSUME NEW q \in g.wrote, ~g.disturbed, output[q] \notin {NoFile, g.before[q]}
                 PROVE  q \in ChangedFiles(g.before, g.found)
      OBVIOUS
    <2>1. q \in Paths /\ q < g.next
      BY <1>4, BoundsAssumption DEF Paths
    <2>2. g.found[q] = output[q]
      BY <1>2, <2>1 DEF Inv, RegisterInv, AttemptInv, Scanned
    <2> QED
      BY <2>1, <2>2 DEF ChangedFiles, Present
  <1>7. /\ t \in SoundAgent
        /\ t.pc \in {"idle", "register"}
        /\ t.pc = "idle" => ids = {} /\ t.wrote = {}
        /\ t.found = NoFiles
        /\ t.report = ids
        /\ t.got = g.got
    <2>1. Idle(g.got) \in SoundAgent /\ Idle(g.got) \in Agent
      BY <1>4, IdleSound DEF SoundAgent
    <2>2. CASE ids = {}
      BY <2>1, <2>2, IdleFields
    <2>3. CASE ids # {}
      <3> DEFINE u == [Idle(g.got) EXCEPT !.pc = "register", !.report = ids]
      <3>1. t = u
        BY <2>3
      <3>2. u \in Agent
        BY <1>5, <2>1, AgentFields DEF Phases
      <3>3. u.pc = "register" /\ u.report = ids /\ u.found = NoFiles /\ u.got = g.got
        BY IdleFields, <2>1 DEF Agent
      <3> HIDE DEF u
      <3>4. u \in SoundAgent
        BY <3>2, <3>3 DEF SoundAgent, Executing
      <3> HIDE DEF t
      <3> QED
        BY <3>1, <3>3, <3>4
    <2> QED
      BY <2>2, <2>3
  <1>8. \A id \in ids : Kept(PathOf(id))
    BY DEF ChangedFiles, Present, PathOf, Inv, KeepInv, Backed
  <1>9. owed'[a] \subseteq IdsOf(g.got) \cup ids
    BY <1>1, <1>2, <1>3, <1>6 DEF Inv, RegisterInv, AttemptInv, Owes, WorkType
  <1>10. owed' \in [Attempts -> SUBSET Ids] /\ \A b \in Attempts \ {a} : owed'[b] = owed[b]
    BY <1>1, <1>3, <1>5 DEF WorkType
  <1> HIDE DEF t, ids, owes
  <1>11. Become(a, t)
    BY <1>3, <1>7 DEF Become
  <1>12. Backed(t)
    BY <1>7, <1>8 DEF Backed, NoFiles, Inv, KeepInv
  <1>13. Scanned(t, output) /\ Owes(t, owed'[a])
    BY <1>7, <1>9 DEF Scanned, Owes
  <1> QED
    BY <1>1, <1>2, <1>3, <1>10, <1>11, <1>12, <1>13, BecomeInv DEF WorkType

\* An attempt goes on with its registration.
LEMMA BecomeHandlerInv ==
    ASSUME Inv, NEW a \in Attempts, NEW t, Become(a, t), agent[a].pc # "done",
           Backed(t), Scanned(t, output), Owes(t, owed[a]),
           RegistersOnly(a), HandlerType',
           \A h \in Handlers : \A x \in handler'[h].todo : Kept(PathOf(x.id)),
           UNCHANGED <<deployment, output, removed, commands, owed, status, active, artifact, past, finisher, cleaner>>
    PROVE  Inv'
  <1>1. WorkType'
    BY BecomeType DEF Inv, TypeOK, WorkType
  <1>2. TypeOK'
    BY <1>1 DEF Inv, TypeOK, RowType
  <1>3. KeepInv'
    BY BecomeKeeps DEF Inv, TypeOK
  <1>4. RegisterInv'
    BY BecomeRegisters DEF Inv, TypeOK
  <1> QED
    BY <1>2, <1>3, <1>4 DEF Inv

\* The artifacts of a report, before and after they have got an expires_at.
LEMMA ReportIds ==
    ASSUME NEW ids \in SUBSET Ids, NEW set \in {Undated(ids), Dated(ids)}
    PROVE  set \in SUBSET Report /\ IdsOf(set) = ids /\ \A x \in set : x.id \in ids
  <1>1. \A id \in ids, d \in BOOLEAN : [id |-> id, dated |-> d] \in Report
    BY DEF Report
  <1>2. \E d \in BOOLEAN : set = {[id |-> id, dated |-> d] : id \in ids}
    BY DEF Undated, Dated
  <1>3. PICK d \in BOOLEAN : set = {[id |-> id, dated |-> d] : id \in ids}
    BY <1>2
  <1>4. \A x \in set : x.id \in ids
    BY <1>3
  <1>5. ASSUME NEW id \in ids PROVE \E x \in set : x.id = id
    <2>1. [id |-> id, dated |-> d] \in set
      BY <1>3
    <2> QED
      BY <2>1
  <1>6. set \in SUBSET Report
    BY <1>1, <1>3
  <1>7. IdsOf(set) = ids
    BY <1>4, <1>5 DEF IdsOf
  <1> QED
    BY <1>4, <1>6, <1>7

LEMMA PostArtifactsInv ==
    ASSUME Inv, NEW a \in Attempts, PostArtifacts(a)
    PROVE  Inv'
  <1> DEFINE g == agent[a]
         r == <<a, "register">>
         t == [g EXCEPT !.pc = "registering"]
         n == [pc |-> "check", todo |-> Undated(g.report), awaited |-> TRUE]
  <1>1. g \in Agent /\ g \in SoundAgent /\ r \in Handlers
    BY DEF Inv, TypeOK, WorkType, SoundAgent, Handlers
  <1>2. g.pc = "register" /\ agent' = [agent EXCEPT ![a] = t] /\ handler' = [handler EXCEPT ![r] = n]
    BY DEF PostArtifacts, Post
  <1>3. UNCHANGED <<deployment, output, removed, commands, owed, status, active, artifact, past, finisher, cleaner>>
    BY DEF PostArtifacts, cleanVars
  <1>4. t \in Agent
    BY <1>1, AgentFields DEF Phases
  <1>5. /\ t.pc = "registering" /\ t.found = g.found /\ t.report = g.report /\ t.got = g.got
        /\ g.report \subseteq Ids
    BY <1>1 DEF Agent
  <1> HIDE DEF t
  <1>6. Become(a, t)
    BY <1>2, <1>4, <1>5 DEF Become, SoundAgent, Executing
  <1>7. Backed(t) /\ Scanned(t, output) /\ Owes(t, owed[a])
    BY <1>2, <1>5 DEF Inv, KeepInv, Backed, RegisterInv, AttemptInv, Scanned, Owes
  <1>8. n \in Handler /\ n.pc = "check" /\ \A x \in n.todo : Kept(PathOf(x.id))
    BY <1>5, ReportIds DEF Handler, Inv, KeepInv, Backed
  <1> HIDE DEF n
  <1>9. \A h \in Handlers : handler'[h] = IF h = r THEN n ELSE handler[h]
    BY <1>2 DEF Inv, TypeOK, HandlerType
  <1>10. HandlerType'
    BY <1>2, <1>8, <1>9 DEF Inv, TypeOK, HandlerType
  <1>11. RegistersOnly(a)
    BY <1>8, <1>9 DEF RegistersOnly
  <1>12. \A h \in Handlers : \A x \in handler'[h].todo : Kept(PathOf(x.id))
    BY <1>8, <1>9 DEF Inv, KeepInv
  <1> QED
    BY <1>2, <1>3, <1>6, <1>7, <1>10, <1>11, <1>12, BecomeHandlerInv

\* The reports stay with the attempt, saved or not.
LEMMA ObserveInv ==
    ASSUME Inv, NEW a \in Attempts, NEW saved \in BOOLEAN, Observe(a, saved), agent[a].pc = "registering",
           RegistersOnly(a), HandlerType',
           \A h \in Handlers : \A x \in handler'[h].todo : Kept(PathOf(x.id)),
           UNCHANGED <<deployment, output, removed, commands, owed, status, active, artifact, past, finisher, cleaner>>
    PROVE  Inv'
  <1> DEFINE g == agent[a]
         got == g.got \cup Observed(g.report, saved)
         t == Idle(got)
  <1>1. g \in Agent
    BY DEF Inv, TypeOK, WorkType, SoundAgent
  <1>2. /\ Observed(g.report, saved) \in SUBSET Report
        /\ \A x \in Observed(g.report, saved) : x.id \in g.report
        /\ \A id \in g.report : \E x \in Observed(g.report, saved) : x.id = id
    <2>1. g.report \in SUBSET Ids
      BY <1>1 DEF Agent
    <2>2. Observed(g.report, saved) \in {Undated(g.report), Dated(g.report)}
      BY DEF Observed
    <2> QED
      BY <2>1, <2>2, ReportIds DEF IdsOf
  <1>3. got \in SUBSET Report
    BY <1>1, <1>2 DEF Agent
  <1>4. Become(a, t)
    BY <1>3, IdleSound DEF Become, Observe
  <1>5. /\ t.pc = "idle" /\ t.found = NoFiles /\ t.report = {} /\ t.got = got /\ t.wrote = {}
        /\ t.disturbed = FALSE
    BY IdleFields
  <1> HIDE DEF t
  <1>6. \A x \in got : Kept(PathOf(x.id))
    BY <1>2 DEF Inv, KeepInv, Backed
  <1>7. owed[a] \subseteq IdsOf(got)
    <2>1. owed[a] \subseteq IdsOf(g.got) \cup g.report
      BY DEF Inv, RegisterInv, AttemptInv, Owes
    <2> QED
      BY <1>2, <2>1 DEF IdsOf
  <1> HIDE DEF got
  <1>8. Backed(t) /\ Scanned(t, output) /\ Owes(t, owed[a])
    BY <1>5, <1>6, <1>7 DEF Backed, NoFiles, Scanned, Owes
  <1> QED
    BY <1>4, <1>8, BecomeHandlerInv

LEMMA ReadSavedInv ==
    ASSUME Inv, NEW a \in Attempts, ReadSaved(a)
    PROVE  Inv'
  <1> DEFINE r == <<a, "register">>
  <1>1. r \in Handlers /\ NoHandler \in Handler
    BY DEF Handlers, NoHandler, Handler
  <1>2. \A h \in Handlers : handler'[h] = IF h = r THEN NoHandler ELSE handler[h]
    BY DEF ReadSaved, Inv, TypeOK, HandlerType
  <1>3. HandlerType'
    BY <1>1, <1>2 DEF ReadSaved, Inv, TypeOK, HandlerType, NoHandler
  <1>4. RegistersOnly(a)
    BY <1>2 DEF RegistersOnly, NoHandler
  <1>5. \A h \in Handlers : \A x \in handler'[h].todo : Kept(PathOf(x.id))
    BY <1>2 DEF Inv, KeepInv, NoHandler
  <1> DEFINE saved == handler[r].pc = "saved"
  <1>6. saved \in BOOLEAN /\ Observe(a, saved) /\ agent[a].pc = "registering"
    BY DEF ReadSaved
  <1>7. UNCHANGED <<deployment, output, removed, commands, owed, status, active, artifact, past, finisher, cleaner>>
    BY DEF ReadSaved, cleanVars
  <1> HIDE DEF saved
  <1> QED
    BY <1>3, <1>4, <1>5, <1>6, <1>7, ObserveInv

LEMMA GiveUpInv ==
    ASSUME Inv, NEW a \in Attempts, GiveUp(a)
    PROVE  Inv'
  <1> DEFINE r == <<a, "register">>
         n == [handler[r] EXCEPT !.awaited = FALSE]
  <1>1. r \in Handlers /\ handler[r] \in Handler
    BY DEF Handlers, Inv, TypeOK, HandlerType
  <1>2. n \in Handler /\ n.pc = handler[r].pc /\ n.todo = handler[r].todo
    BY <1>1 DEF Handler
  <1>3. handler' = [handler EXCEPT ![r] = n]
    BY DEF GiveUp
  <1> HIDE DEF n
  <1>4. \A h \in Handlers : handler'[h] = IF h = r THEN n ELSE handler[h]
    BY <1>3 DEF Inv, TypeOK, HandlerType
  <1>5. HandlerType'
    BY <1>2, <1>3, <1>4 DEF Inv, TypeOK, HandlerType
  <1>6. RegistersOnly(a)
    BY <1>2, <1>4 DEF RegistersOnly
  <1>7. \A h \in Handlers : \A x \in handler'[h].todo : Kept(PathOf(x.id))
    BY <1>1, <1>2, <1>4 DEF Inv, KeepInv
  <1>8. Observe(a, FALSE) /\ agent[a].pc = "registering"
    BY DEF GiveUp
  <1>9. UNCHANGED <<deployment, output, removed, commands, owed, status, active, artifact, past, finisher, cleaner>>
    BY DEF GiveUp, cleanVars
  <1> QED
    BY <1>5, <1>6, <1>7, <1>8, <1>9, ObserveInv

\* The attempt ends, and what it has got is on its way.
LEMMA CompleteWithUsageInv ==
    ASSUME Inv, NEW a \in Attempts, CompleteWithUsage(a)
    PROVE  Inv'
  <1> DEFINE g == agent[a]
         c == <<a, "complete">>
         t == [Idle({}) EXCEPT !.pc = "done"]
         n == [pc |-> "check", todo |-> g.got, awaited |-> FALSE]
  <1>1. /\ g.pc = "idle" /\ g.got \in SUBSET Report /\ c \in Handlers
        /\ agent' = [agent EXCEPT ![a] = t] /\ handler' = [handler EXCEPT ![c] = n]
    BY DEF CompleteWithUsage, Post, Inv, TypeOK, WorkType, SoundAgent, Agent, Handlers
  <1>2. UNCHANGED <<deployment, output, removed, commands, owed, status, active, artifact, past, finisher, cleaner>>
    BY DEF CompleteWithUsage, cleanVars
  <1>3. /\ t \in Agent
        /\ t.pc = "done" /\ t.found = NoFiles /\ t.report = {} /\ t.got = {} /\ t.wrote = {}
    <2>1. Idle({}) \in Agent
      BY IdleSound DEF SoundAgent
    <2>2. t \in Agent
      BY <2>1, AgentFields DEF Phases
    <2>3. t.pc = "done" /\ t.found = NoFiles /\ t.report = {} /\ t.got = {} /\ t.wrote = {}
      BY <2>1, IdleFields DEF Agent
    <2> QED
      BY <2>2, <2>3
  <1> HIDE DEF t
  <1>4. Become(a, t)
    BY <1>1, <1>3 DEF Become, SoundAgent, Executing
  <1>5. n \in Handler /\ n.pc = "check" /\ n.todo = g.got /\ ~n.awaited
    BY <1>1 DEF Handler
  <1> HIDE DEF n
  <1>6. \A h \in Handlers : handler'[h] = IF h = c THEN n ELSE handler[h]
    BY <1>1 DEF Inv, TypeOK, HandlerType
  <1>7. \A b \in Attempts : agent'[b] = IF b = a THEN t ELSE agent[b]
    BY <1>1 DEF Inv, TypeOK, WorkType
  <1>8. TypeOK'
    <2>1. HandlerType'
      BY <1>1, <1>5, <1>6 DEF Inv, TypeOK, HandlerType
    <2>2. WorkType'
      BY <1>2, <1>4, BecomeType DEF Inv, TypeOK, WorkType
    <2> QED
      BY <1>2, <2>1, <2>2 DEF Inv, TypeOK, RowType
  <1>9. KeepInv'
    <2>1. \A x \in g.got : Kept(PathOf(x.id))
      BY DEF Inv, KeepInv, Backed
    <2>2. \A h \in Handlers : \A x \in handler'[h].todo : Kept(PathOf(x.id))
      BY <1>5, <1>6, <2>1 DEF Inv, KeepInv
    <2>3. Backed(t)
      BY <1>3 DEF Backed, NoFiles
    <2> QED
      BY <1>2, <1>4, <2>2, <2>3, BecomeKeeps DEF Inv, TypeOK
  <1>10. RegisterInv'
    <2>1. Known' = Known
      BY <1>2 DEF Known
    <2>2. AttemptInv'
      BY <1>2, <1>3, <1>7 DEF Inv, RegisterInv, AttemptInv, Scanned, Owes
    <2>3. AnnounceInv'
      BY <1>5, <1>6, <2>1 DEF Inv, RegisterInv, AnnounceInv
    <2>4. CompleteInv'
      <3> SUFFICES ASSUME NEW b \in Attempts
                   PROVE  /\ handler'[<<b, "register">>].pc # "status"
                          /\ handler'[<<b, "complete">>].pc # "idle" =>
                               /\ agent'[b].pc = "done"
                               /\ ~handler'[<<b, "complete">>].awaited
                               /\ owed'[b] \subseteq IdsOf(handler'[<<b, "complete">>].todo) \cup Known
                               /\ handler'[<<b, "complete">>].pc = "status" =>
                                    handler'[<<b, "complete">>].todo = {}
        BY <2>1 DEF CompleteInv, IdsOf
      <3>1. handler'[<<b, "register">>].pc # "status"
        BY <1>6 DEF Handlers, Inv, RegisterInv, CompleteInv
      <3>2. CASE b = a
        <4>1. owed[a] \subseteq IdsOf(g.got)
          BY <1>1 DEF Inv, RegisterInv, AttemptInv, Owes
        <4> QED
          BY <1>1, <1>2, <1>3, <1>5, <1>6, <1>7, <3>1, <3>2, <4>1
      <3>3. CASE b # a
        <4>1. handler'[<<b, "complete">>] = handler[<<b, "complete">>] /\ agent'[b] = agent[b]
          BY <1>6, <1>7, <3>3 DEF Handlers
        <4> QED
          BY <1>2, <3>1, <4>1 DEF Inv, RegisterInv, CompleteInv
      <3> QED
        BY <3>2, <3>3
    <2>5. FinishedInv'
      BY <1>1, <1>2, <1>7, <2>1 DEF Inv, RegisterInv, FinishedInv, TypeOK, RowType
    <2> QED
      BY <2>2, <2>3, <2>4, <2>5 DEF RegisterInv
  <1> QED
    BY <1>8, <1>9, <1>10 DEF Inv

LEMMA ClaimInv ==
    ASSUME Inv, NEW a \in Attempts, Claim(a)
    PROVE  Inv'
  <1> DEFINE t == Idle({})
  <1>1. /\ agent[a].pc = "absent" /\ agent' = [agent EXCEPT ![a] = t] /\ active' = a
        /\ UNCHANGED <<deployment, output, removed, commands, owed, status, handler, artifact, past, finisher, cleaner>>
    BY DEF Claim, cleanVars
  <1>2. Become(a, t)
    BY <1>1, IdleSound DEF Become
  <1>3. /\ t.pc = "idle" /\ t.found = NoFiles /\ t.report = {} /\ t.got = {} /\ t.wrote = {}
    BY IdleFields
  <1> HIDE DEF t
  <1>4. TypeOK'
    <2>1. WorkType'
      BY <1>1, <1>2, BecomeType DEF Inv, TypeOK, WorkType
    <2> QED
      BY <1>1, <2>1 DEF Inv, TypeOK, RowType, HandlerType
  <1>5. KeepInv'
    <2>1. Backed(t)
      BY <1>3 DEF Backed, NoFiles
    <2>2. \A h \in Handlers : \A x \in handler'[h].todo : Kept(PathOf(x.id))
      BY <1>1 DEF Inv, KeepInv
    <2> QED
      BY <1>1, <1>2, <2>1, <2>2, BecomeKeeps DEF Inv, TypeOK
  <1>6. RegisterInv'
    <2>1. owed[a] = {}
      BY <1>1 DEF Inv, RegisterInv, AttemptInv, Owes
    <2>2. Scanned(t, output) /\ Owes(t, owed'[a])
      BY <1>1, <1>3, <2>1 DEF Scanned, Owes
    <2>3. RegistersOnly(a)
      BY <1>1 DEF RegistersOnly
    <2> QED
      BY <1>1, <1>2, <2>2, <2>3, BecomeRegisters DEF Inv, TypeOK
  <1> QED
    BY <1>4, <1>5, <1>6 DEF Inv

-----------------------------------------------------------------------------
(* Steps that change a file *)

\* The attempts stay as they were but for what the files mean to them.
LEMMA FilesChangeInv ==
    ASSUME Inv, output' \in Files, agent' \in [Attempts -> SoundAgent],
           cleaner' \in [Cleaners -> Cleaner], \A k \in Cleaners : cleaner'[k].todo \subseteq cleaner[k].todo,
           \A p \in Paths : Kept(p) => Kept(p)',
           \A b \in Attempts : /\ agent'[b].pc = agent[b].pc
                               /\ agent'[b].found = agent[b].found
                               /\ SameReports(agent'[b], agent[b])
                               /\ Scanned(agent'[b], output'),
           UNCHANGED <<deployment, commands, owed, status, active, handler, artifact, past, finisher>>
    PROVE  Inv'
  <1>1. TypeOK'
    BY DEF Inv, TypeOK, WorkType, HandlerType, RowType
  <1>2. KeepInv'
    <2>1. \A id \in Ids : PathOf(id) \in Paths
      BY DEF Ids, PathOf
    <2>2. \A b \in Attempts : Backed(agent[b])'
      <3> SUFFICES ASSUME NEW b \in Attempts PROVE Backed(agent[b])'
        OBVIOUS
      <3>1. Backed(agent[b]) /\ agent[b] \in Agent
        BY DEF Inv, KeepInv, TypeOK, WorkType, SoundAgent
      <3>2. agent[b].report \subseteq Ids /\ \A x \in agent[b].got : x.id \in Ids
        BY <3>1 DEF Agent, Report
      <3> QED
        BY <2>1, <3>1, <3>2 DEF Backed, SameReports
    <2>3. \A h \in Handlers : \A x \in handler'[h].todo : Kept(PathOf(x.id))'
      <3>1. \A h \in Handlers : \A x \in handler[h].todo : x.id \in Ids
        BY DEF Inv, TypeOK, HandlerType, Handler, Report
      <3> QED
        BY <2>1, <3>1 DEF Inv, KeepInv
    <2> QED
      BY <2>1, <2>2, <2>3 DEF Inv, KeepInv
  <1>3. RegisterInv'
    <2>1. Known' = Known
      BY DEF Known
    <2>2. AttemptInv'
      BY DEF Inv, RegisterInv, AttemptInv, Owes, SameReports
    <2>3. AnnounceInv' /\ CompleteInv'
      BY <2>1 DEF Inv, RegisterInv, AnnounceInv, CompleteInv
    <2>4. FinishedInv'
      BY <2>1 DEF Inv, RegisterInv, FinishedInv, TypeOK, RowType
    <2> QED
      BY <2>2, <2>3, <2>4 DEF RegisterInv
  <1> QED
    BY <1>1, <1>2, <1>3 DEF Inv

\* What others have done to output/ is all that changes.
LEMMA DisturbedEffect ==
    ASSUME NEW g \in SoundAgent, NEW d \in BOOLEAN
    PROVE  LET t == [g EXCEPT !.disturbed = d] IN
           /\ t \in SoundAgent
           /\ t.pc = g.pc /\ t.found = g.found /\ t.wrote = g.wrote /\ t.next = g.next
           /\ SameReports(t, g)
           /\ t.disturbed = d
  <1> DEFINE t == [g EXCEPT !.disturbed = d]
  <1>1. t \in Agent
    BY AgentFields DEF SoundAgent
  <1>2. /\ t.pc = g.pc /\ t.found = g.found /\ t.wrote = g.wrote /\ t.next = g.next
        /\ t.command = g.command
        /\ SameReports(t, g)
        /\ t.disturbed = d
    BY DEF SoundAgent, Agent, SameReports
  <1> HIDE DEF t
  <1>3. t \in SoundAgent
    BY <1>1, <1>2 DEF SoundAgent
  <1> QED
    BY <1>2, <1>3 DEF t

\* Whoever is executing a command is disturbed, but for the one that may write the file.
LEMMA ChangeInv ==
    ASSUME Inv, NEW a \in Attempts, NEW p \in Paths, NEW v \in Versions \cup {NoFile}, NEW t,
           Change(t, a, p, v), t \in SoundAgent,
           t.pc = agent[a].pc, t.found = agent[a].found, SameReports(t, agent[a]),
           t.pc = "collect" => t.disturbed,
           UNCHANGED <<deployment, commands, owed, status, active, handler, artifact, past, finisher, cleaner>>
    PROVE  Inv'
  <1>1. output \in Files /\ agent \in [Attempts -> SoundAgent]
    BY DEF Inv, TypeOK, WorkType
  <1>2. output' = [output EXCEPT ![p] = v]
    BY DEF Change
  <1>3. output' \in Files /\ output'[p] = v /\ \A q \in Paths : q # p => output'[q] = output[q]
    BY <1>1, <1>2 DEF Files
  <1>4. \A q \in Paths : Kept(q) => Kept(q)'
    <2>1. v = NoFile => p \in removed'
      BY DEF Change
    <2>2. \A q \in Paths : q # p /\ q \in removed => q \in removed'
      BY DEF Change
    <2> QED
      BY <1>3, <2>1, <2>2 DEF Kept
  <1>5. ASSUME NEW b \in Attempts
        PROVE  /\ agent'[b] \in SoundAgent
               /\ agent'[b].pc = agent[b].pc
               /\ agent'[b].found = agent[b].found
               /\ SameReports(agent'[b], agent[b])
               /\ Scanned(agent'[b], output')
    <2>1. CASE b = a
      <3>1. agent'[b] = t
        BY <2>1 DEF Change
      <3>2. Scanned(t, output')
        BY <1>3 DEF Scanned
      <3> QED
        BY <2>1, <3>1, <3>2
    <2>2. CASE b # a
      <3> DEFINE d == agent[b].pc \in Executing
                 u == [agent[b] EXCEPT !.disturbed = d]
      <3>1. agent'[b] = u
        BY <2>2 DEF Change
      <3>2. d \in BOOLEAN
        OBVIOUS
      <3>3. Scanned(agent[b], output)
        BY DEF Inv, RegisterInv, AttemptInv
      <3>4. /\ u \in SoundAgent
            /\ u.pc = agent[b].pc /\ u.found = agent[b].found /\ u.wrote = agent[b].wrote
            /\ SameReports(u, agent[b])
            /\ u.disturbed = d
        <4>1. agent[b] \in SoundAgent
          BY <1>1
        <4> HIDE DEF d
        <4> QED
          BY <3>2, <4>1, DisturbedEffect
      <3> HIDE DEF u
      <3>5. Scanned(u, output')
        BY <3>3, <3>4 DEF Scanned, Executing
      <3> QED
        BY <3>1, <3>4, <3>5
    <2> QED
      BY <2>1, <2>2
  <1>6. agent' \in [Attempts -> SoundAgent]
    BY <1>5 DEF Change
  <1>7. cleaner' \in [Cleaners -> Cleaner] /\ \A k \in Cleaners : cleaner'[k].todo \subseteq cleaner[k].todo
    BY DEF Inv, TypeOK
  <1> QED
    BY <1>3, <1>4, <1>5, <1>6, <1>7, FilesChangeInv

LEMMA CommandChangesFileInv ==
    ASSUME Inv, NEW a \in Attempts, CommandChangesFile(a)
    PROVE  Inv'
  <1> DEFINE g == agent[a]
  <1>1. PICK p \in Paths, v \in Versions \cup {NoFile} : Change([g EXCEPT !.wrote = {p}], a, p, v)
    BY DEF CommandChangesFile
  <1> DEFINE t == [g EXCEPT !.wrote = {p}]
  <1>2. g \in Agent /\ g \in SoundAgent /\ g.pc = "running"
    BY DEF Inv, TypeOK, WorkType, SoundAgent, CommandChangesFile
  <1>3. t \in Agent
    BY <1>2, AgentFields
  <1>4. /\ t.pc = "running" /\ t.found = g.found /\ t.command = g.command /\ t.wrote = {p}
        /\ SameReports(t, g)
    BY <1>2 DEF Agent, SameReports
  <1>5. UNCHANGED <<deployment, commands, owed, status, active, handler, artifact, past, finisher, cleaner>>
    BY DEF CommandChangesFile, rowVars, cleanVars
  <1>6. Change(t, a, p, v)
    BY <1>1
  <1> HIDE DEF t
  <1>7. t \in SoundAgent
    BY <1>2, <1>3, <1>4 DEF SoundAgent, Executing
  <1> QED
    BY <1>2, <1>4, <1>5, <1>6, <1>7, ChangeInv

LEMMA OrphanChangesFileInv ==
    ASSUME Inv, NEW a \in Attempts, OrphanChangesFile(a)
    PROVE  Inv'
  <1> DEFINE g == agent[a]
             d == g.pc \in Executing
             t == [g EXCEPT !.disturbed = d]
  <1>1. PICK p \in Paths, v \in Versions \cup {NoFile} : Change(t, a, p, v)
    BY DEF OrphanChangesFile
  <1>2. g \in SoundAgent /\ d \in BOOLEAN
    BY DEF Inv, TypeOK, WorkType
  <1>3. /\ t \in SoundAgent
        /\ t.pc = g.pc /\ t.found = g.found /\ t.wrote = g.wrote
        /\ SameReports(t, g)
        /\ t.disturbed = d
    <2> HIDE DEF d, g
    <2> QED
      BY <1>2, DisturbedEffect
  <1>4. UNCHANGED <<deployment, commands, owed, status, active, handler, artifact, past, finisher, cleaner>>
    BY DEF OrphanChangesFile, rowVars, cleanVars
  <1> HIDE DEF t
  <1>5. t.pc = "collect" => t.disturbed
    BY <1>3 DEF Executing
  <1> QED
    BY <1>1, <1>3, <1>4, <1>5, ChangeInv

\* A cleanup removes the file of an artifact that has expired.
LEMMA DeleteFileInv ==
    ASSUME Inv, NEW k \in Cleaners, DeleteFile(k)
    PROVE  Inv'
  <1>1. PICK id \in cleaner[k].todo :
          LET p == PathOf(id) IN
          /\ cleaner' = [cleaner EXCEPT ![k].todo = @ \ {id}]
          /\ output' = [output EXCEPT ![p] = NoFile]
          /\ agent' = [a \in Attempts |->
               [agent[a] EXCEPT !.disturbed = @ \/ (output[p] # NoFile /\ agent[a].pc \in Executing)]]
    BY DEF DeleteFile
  <1> DEFINE p == PathOf(id)
             removes(a) == output[p] # NoFile /\ agent[a].pc \in Executing
  <1>2. UNCHANGED <<deployment, removed, commands, owed, status, active, handler, artifact, past, finisher>>
    BY DEF DeleteFile, rowVars
  <1>3. cleaner \in [Cleaners -> Cleaner] /\ output \in Files /\ agent \in [Attempts -> SoundAgent]
    BY DEF Inv, TypeOK, WorkType
  <1>4. id \in past /\ id \in Ids /\ p \in Paths
    BY <1>3 DEF Inv, KeepInv, Cleaner, Ids, PathOf
  <1>5. cleaner' \in [Cleaners -> Cleaner] /\ \A j \in Cleaners : cleaner'[j].todo \subseteq cleaner[j].todo
    BY <1>1, <1>3 DEF Cleaner
  <1>6. output' \in Files /\ \A q \in Paths : output'[q] = IF q = p THEN NoFile ELSE output[q]
    BY <1>1, <1>3, <1>4 DEF Files
  <1>7. \A q \in Paths : Kept(q) => Kept(q)'
    BY <1>2, <1>4, <1>6 DEF Kept
  <1>8. ASSUME NEW b \in Attempts
        PROVE  /\ agent'[b] \in SoundAgent
               /\ agent'[b].pc = agent[b].pc
               /\ agent'[b].found = agent[b].found
               /\ SameReports(agent'[b], agent[b])
               /\ Scanned(agent'[b], output')
    <2> DEFINE d == agent[b].disturbed \/ removes(b)
               u == [agent[b] EXCEPT !.disturbed = d]
    <2>1. agent'[b] = u
      BY <1>1
    <2>2. d \in BOOLEAN
      OBVIOUS
    <2>3. /\ u \in SoundAgent
          /\ u.pc = agent[b].pc /\ u.found = agent[b].found /\ u.wrote = agent[b].wrote
          /\ u.next = agent[b].next
          /\ SameReports(u, agent[b])
          /\ u.disturbed = d
      <3>1. agent[b] \in SoundAgent
        BY <1>3
      <3> HIDE DEF d
      <3> QED
        BY <2>2, <3>1, DisturbedEffect
    <2> HIDE DEF u
    <2>4. Scanned(agent[b], output) /\ agent[b].wrote \subseteq Paths
      BY <1>3 DEF Inv, RegisterInv, AttemptInv, SoundAgent, Agent
    <2>5. CASE output[p] = NoFile
      <3>1. \A q \in Paths : output'[q] = output[q]
        BY <1>6, <2>5
      <3> QED
        BY <2>1, <2>3, <2>4, <2>5, <3>1 DEF Scanned
    <2>6. CASE output[p] # NoFile
      BY <2>1, <2>3, <2>4, <2>6 DEF Scanned, Executing
    <2> QED
      BY <2>5, <2>6
  <1>9. agent' \in [Attempts -> SoundAgent]
    BY <1>1, <1>8
  <1> QED
    BY <1>2, <1>5, <1>6, <1>7, <1>8, <1>9, FilesChangeInv

-----------------------------------------------------------------------------
(* Steps of a handler *)

LEMMA SmallestNumber ==
    ASSUME NEW T \in SUBSET Nat, T # {}
    PROVE  \E n \in T : \A m \in T : n <= m
  <1>1. PICK n \in T : \A m \in T : ~(<<m, n>> \in OpToRel(<, Nat))
    BY NatLessThanWellFounded, WFMin, Zenon
  <1>2. \A m \in T : ~(m < n)
    BY <1>1 DEF OpToRel
  <1> QED
    BY <1>2

\* There is a first of the artifacts that are left: the least path of the least command.
LEMMA FirstIn ==
    ASSUME NEW todo \in SUBSET Report, todo # {}
    PROVE  First(todo) \in todo
  <1>1. \A x \in todo : x.id[1] \in Nat /\ x.id[2] \in Nat
    BY BoundsAssumption DEF Report, Ids, Paths
  <1> DEFINE N == {x.id[1] : x \in todo}
  <1>2. \E n \in N : \A m \in N : n <= m
    <2>1. N \in SUBSET Nat /\ N # {}
      BY <1>1
    <2> HIDE DEF N
    <2> QED
      BY <2>1, SmallestNumber
  <1>3. PICK u \in todo : \A y \in todo : u.id[1] <= y.id[1]
    BY <1>2
  <1> DEFINE T == {x \in todo : x.id[1] = u.id[1]}
             K == {x.id[2] : x \in T}
  <1>4. \E k \in K : \A m \in K : k <= m
    <2>1. K \in SUBSET Nat /\ K # {}
      BY <1>1
    <2> HIDE DEF K
    <2> QED
      BY <2>1, SmallestNumber
  <1>5. PICK x \in T : \A y \in T : x.id[2] <= y.id[2]
    BY <1>4
  <1>6. ASSUME NEW y \in todo
        PROVE  x.id[1] < y.id[1] \/ (x.id[1] = y.id[1] /\ x.id[2] <= y.id[2])
    <2>1. CASE y \in T
      BY <1>5, <2>1
    <2>2. CASE y \notin T
      BY <1>1, <1>3, <1>5, <2>2
    <2> QED
      BY <2>1, <2>2
  <1> QED
    BY <1>5, <1>6 DEF First

\* The rows change, or who is still to write them.
LEMMA RowsInv ==
    ASSUME Inv, HandlerType', RowType', cleaner' \in [Cleaners -> Cleaner],
           \A k \in Cleaners : cleaner'[k].todo \subseteq past',
           \A h \in Handlers : handler'[h].todo \subseteq handler[h].todo,
           past \subseteq past',
           \A id \in Ids : artifact'[id] # "none" => Kept(PathOf(id)),
           \A id \in Ids : artifact'[id] \in {"expired", "deleted"} => id \in past',
           AnnounceInv', CompleteInv', FinishedInv',
           UNCHANGED <<output, removed, agent, commands, owed>>
    PROVE  Inv'
  <1>1. TypeOK'
    BY DEF Inv, TypeOK, WorkType
  <1>2. \A p : Kept(p) => Kept(p)'
    BY DEF Kept
  <1>3. KeepInv'
    <2>1. \A a \in Attempts : Backed(agent[a])'
      BY <1>2 DEF Inv, KeepInv, Backed
    <2>2. \A h \in Handlers : \A x \in handler'[h].todo : Kept(PathOf(x.id))'
      BY <1>2 DEF Inv, KeepInv
    <2> QED
      BY <1>2, <2>1, <2>2 DEF KeepInv
  <1>4. AttemptInv'
    BY DEF Inv, RegisterInv, AttemptInv
  <1> QED
    BY <1>1, <1>3, <1>4 DEF Inv, RegisterInv

\* The handler h goes on, and may write a row.
LEMMA HandlerGoesInv ==
    ASSUME Inv, NEW h \in Handlers, NEW n \in Handler, handler' = [handler EXCEPT ![h] = n],
           n.todo \subseteq handler[h].todo,
           n.pc \in {"add", "event"} => n.todo # {},
           n.pc = "event" => First(n.todo).id \in Known',
           n.pc = "status" => h[2] = "complete" /\ n.todo = {},
           h[2] = "complete" /\ n.pc # "idle" =>
             /\ handler[h].pc # "idle" /\ ~n.awaited
             /\ IdsOf(handler[h].todo) \subseteq IdsOf(n.todo) \cup Known,
           artifact' \in [Ids -> {"none", "live", "expired", "deleted"}],
           Known \subseteq Known',
           \A id \in Ids : artifact'[id] # "none" => Kept(PathOf(id)),
           \A id \in Ids : artifact'[id] \in {"expired", "deleted"} => id \in past,
           UNCHANGED <<deployment, output, removed, agent, commands, owed, status, active, past, finisher, cleaner>>
    PROVE  Inv'
  <1>1. \A i \in Handlers : handler'[i] = IF i = h THEN n ELSE handler[i]
    BY DEF Inv, TypeOK, HandlerType
  <1>2. HandlerType'
    BY <1>1 DEF Inv, TypeOK, HandlerType
  <1>3. RowType'
    BY DEF Inv, TypeOK, RowType
  <1>4. AnnounceInv'
    <2>1. \A i \in Handlers : handler'[i].pc = "event" => First(handler'[i].todo).id \in Known'
      BY <1>1 DEF Inv, RegisterInv, AnnounceInv
    <2> QED
      BY <2>1 DEF AnnounceInv, First
  <1>5. CompleteInv'
    <2> SUFFICES ASSUME NEW b \in Attempts
                 PROVE  /\ handler'[<<b, "register">>].pc # "status"
                        /\ handler'[<<b, "complete">>].pc # "idle" =>
                             /\ agent'[b].pc = "done"
                             /\ ~handler'[<<b, "complete">>].awaited
                             /\ owed'[b] \subseteq IdsOf(handler'[<<b, "complete">>].todo) \cup Known'
                             /\ handler'[<<b, "complete">>].pc = "status" =>
                                  handler'[<<b, "complete">>].todo = {}
      BY DEF CompleteInv, IdsOf
    <2>1. <<b, "register">> \in Handlers /\ <<b, "complete">> \in Handlers
      BY DEF Handlers
    <2>2. handler'[<<b, "register">>].pc # "status"
      BY <1>1, <2>1 DEF Inv, RegisterInv, CompleteInv
    <2>3. CASE h = <<b, "complete">>
      BY <1>1, <2>1, <2>2, <2>3 DEF Inv, RegisterInv, CompleteInv
    <2>4. CASE h # <<b, "complete">>
      BY <1>1, <2>1, <2>2, <2>4 DEF Inv, RegisterInv, CompleteInv
    <2> QED
      BY <2>3, <2>4
  <1>6. FinishedInv'
    BY DEF Inv, RegisterInv, FinishedInv
  <1>7. \A i \in Handlers : handler'[i].todo \subseteq handler[i].todo
    BY <1>1
  <1>8. cleaner' \in [Cleaners -> Cleaner] /\ \A k \in Cleaners : cleaner'[k].todo \subseteq past'
    BY DEF Inv, TypeOK, KeepInv
  <1> QED
    BY <1>2, <1>3, <1>4, <1>5, <1>6, <1>7, <1>8, RowsInv

\* Nobody waits for the answer to a complete.
LEMMA NotAwaited ==
    ASSUME Inv, NEW h \in Handlers, h[2] = "complete", handler[h].pc # "idle"
    PROVE  ~handler[h].awaited
  <1>1. h = <<h[1], "complete">> /\ h[1] \in Attempts
    BY DEF Handlers
  <1> QED
    BY <1>1 DEF Inv, RegisterInv, CompleteInv

\* A handler returns.
LEMMA AnswerInv ==
    ASSUME Inv, NEW h \in Handlers, NEW pc \in {"saved", "refused"}, handler[h].pc # "idle", Answer(h, pc),
           UNCHANGED <<deployment, output, removed, agent, commands, owed, status, active, artifact, past, finisher, cleaner>>
    PROVE  Inv'
  <1> DEFINE n == IF handler[h].awaited THEN [pc |-> pc, todo |-> {}, awaited |-> TRUE] ELSE NoHandler
  <1>1. handler' = [handler EXCEPT ![h] = n]
    BY DEF Answer
  <1>2. n \in Handler /\ n.todo = {} /\ n.pc \in {"saved", "refused", "idle"}
    BY DEF Handler, NoHandler
  <1>3. h[2] = "complete" => n.pc = "idle"
    BY NotAwaited DEF NoHandler
  <1>4. Known' = Known
    BY DEF Known
  <1>5. /\ artifact' \in [Ids -> {"none", "live", "expired", "deleted"}]
        /\ \A id \in Ids : artifact'[id] # "none" => Kept(PathOf(id))
        /\ \A id \in Ids : artifact'[id] \in {"expired", "deleted"} => id \in past
    BY DEF Inv, TypeOK, RowType, KeepInv
  <1> HIDE DEF n
  <1> QED
    BY <1>1, <1>2, <1>3, <1>4, <1>5, HandlerGoesInv

\* A handler goes on with the artifacts that it has.
LEMMA GotoInv ==
    ASSUME Inv, NEW h \in Handlers, NEW pc \in {"begin", "get", "add", "status"}, handler[h].pc # "idle",
           Goto(h, pc),
           pc = "add" => handler[h].todo # {},
           pc = "status" => h[2] = "complete" /\ handler[h].todo = {},
           UNCHANGED <<deployment, output, removed, agent, commands, owed, status, active, artifact, past, finisher, cleaner>>
    PROVE  Inv'
  <1> DEFINE n == [handler[h] EXCEPT !.pc = pc]
  <1>1. handler' = [handler EXCEPT ![h] = n]
    BY DEF Goto
  <1>2. handler[h] \in Handler
    BY DEF Inv, TypeOK, HandlerType
  <1>3. n \in Handler /\ n.pc = pc /\ n.todo = handler[h].todo /\ n.awaited = handler[h].awaited
    BY <1>2 DEF Handler
  <1>4. h[2] = "complete" => ~handler[h].awaited
    BY NotAwaited
  <1>5. Known' = Known
    BY DEF Known
  <1>6. /\ artifact' \in [Ids -> {"none", "live", "expired", "deleted"}]
        /\ \A id \in Ids : artifact'[id] # "none" => Kept(PathOf(id))
        /\ \A id \in Ids : artifact'[id] \in {"expired", "deleted"} => id \in past
    BY DEF Inv, TypeOK, RowType, KeepInv
  <1> HIDE DEF n
  <1> QED
    BY <1>1, <1>3, <1>4, <1>5, <1>6, HandlerGoesInv

LEMMA StoreErrorInv ==
    ASSUME Inv, NEW h \in Handlers, StoreError(h)
    PROVE  Inv'
  <1>1. UNCHANGED <<deployment, output, removed, agent, commands, owed, status, active, artifact, past, finisher, cleaner>>
    BY DEF StoreError, workVars, cleanVars
  <1> QED
    BY <1>1, AnswerInv DEF StoreError

LEMMA CheckRunAttemptInv ==
    ASSUME Inv, NEW h \in Handlers, CheckRunAttempt(h)
    PROVE  Inv'
  <1>1. UNCHANGED <<deployment, output, removed, agent, commands, owed, status, active, artifact, past, finisher, cleaner>>
    BY DEF CheckRunAttempt, workVars, cleanVars
  <1>2. handler[h].pc # "idle" /\ (Answer(h, "refused") \/ Goto(h, "begin"))
    BY DEF CheckRunAttempt, At
  <1> QED
    BY <1>1, <1>2, AnswerInv, GotoInv

LEMMA GetRunInv ==
    ASSUME Inv, NEW h \in Handlers, GetRun(h)
    PROVE  Inv'
  <1>1. UNCHANGED <<deployment, output, removed, agent, commands, owed, status, active, artifact, past, finisher, cleaner>>
    BY DEF GetRun, workVars, cleanVars
  <1>2. handler[h].pc # "idle" /\ (Answer(h, "refused") \/ Goto(h, "get"))
    BY DEF GetRun, At
  <1> QED
    BY <1>1, <1>2, AnswerInv, GotoInv

LEMMA GetArtifactFailsInv ==
    ASSUME Inv, NEW h \in Handlers, GetArtifactFails(h)
    PROVE  Inv'
  <1>1. UNCHANGED <<deployment, output, removed, agent, commands, owed, status, active, artifact, past, finisher, cleaner>>
    BY DEF GetArtifactFails, workVars, cleanVars
  <1>2. handler[h].pc # "idle" /\ handler[h].todo # {} /\ Goto(h, "add")
    BY DEF GetArtifactFails, At
  <1> QED
    BY <1>1, <1>2, GotoInv

LEMMA RegisteredInv ==
    ASSUME Inv, NEW h \in Handlers, Registered(h)
    PROVE  Inv'
  <1>1. UNCHANGED <<deployment, output, removed, agent, commands, owed, status, active, artifact, past, finisher, cleaner>>
    BY DEF Registered, workVars, cleanVars
  <1>2. handler[h].pc # "idle" /\ handler[h].todo = {} /\ h[2] \in {"register", "complete"}
    BY DEF Registered, At, Handlers
  <1>3. CASE h[2] = "register"
    BY <1>1, <1>2, <1>3, AnswerInv DEF Registered
  <1>4. CASE h[2] = "complete"
    BY <1>1, <1>2, <1>4, GotoInv DEF Registered
  <1> QED
    BY <1>2, <1>3, <1>4

\* An artifact that is there is left out, and so is one that has been announced.
LEMMA NextArtifactInv ==
    ASSUME Inv, NEW h \in Handlers, handler[h].pc # "idle", handler[h].todo # {},
           First(handler[h].todo).id \in Known,
           handler' = [handler EXCEPT ![h].pc = "get", ![h].todo = @ \ {First(handler[h].todo)}],
           UNCHANGED <<deployment, output, removed, agent, commands, owed, status, active, artifact, past, finisher, cleaner>>
    PROVE  Inv'
  <1> DEFINE x == First(handler[h].todo)
             n == [handler[h] EXCEPT !.pc = "get", !.todo = @ \ {x}]
  <1>1. handler[h] \in Handler /\ handler \in [Handlers -> Handler]
    BY DEF Inv, TypeOK, HandlerType
  <1>2. handler' = [handler EXCEPT ![h] = n]
    BY <1>1 DEF Handler
  <1>3. n \in Handler /\ n.pc = "get" /\ n.todo = handler[h].todo \ {x} /\ n.awaited = handler[h].awaited
    BY <1>1 DEF Handler
  <1>4. h[2] = "complete" => ~handler[h].awaited
    BY NotAwaited
  <1>5. IdsOf(handler[h].todo) \subseteq IdsOf(n.todo) \cup Known
    BY <1>3 DEF IdsOf
  <1>6. Known' = Known
    BY DEF Known
  <1>7. /\ artifact' \in [Ids -> {"none", "live", "expired", "deleted"}]
        /\ \A id \in Ids : artifact'[id] # "none" => Kept(PathOf(id))
        /\ \A id \in Ids : artifact'[id] \in {"expired", "deleted"} => id \in past
    BY DEF Inv, TypeOK, RowType, KeepInv
  <1> HIDE DEF n
  <1> QED
    BY <1>2, <1>3, <1>4, <1>5, <1>6, <1>7, HandlerGoesInv

LEMMA GetArtifactInv ==
    ASSUME Inv, NEW h \in Handlers, GetArtifact(h)
    PROVE  Inv'
  <1> DEFINE x == First(handler[h].todo)
  <1>1. UNCHANGED <<deployment, output, removed, agent, commands, owed, status, active, artifact, past, finisher, cleaner>>
    BY DEF GetArtifact, workVars, cleanVars
  <1>2. handler[h].pc = "get" /\ handler[h].todo # {} /\ handler \in [Handlers -> Handler]
    BY DEF GetArtifact, At, Inv, TypeOK, HandlerType
  <1>3. CASE Visible(x.id)
    <2>1. x \in handler[h].todo /\ handler[h] \in Handler
      BY <1>2, FirstIn DEF Handler
    <2>2. x.id \in Known
      BY <1>3, <2>1 DEF Known, Visible, Handler, Report
    <2>3. handler' = [handler EXCEPT ![h].todo = handler[h].todo \ {x}]
      BY <1>3 DEF GetArtifact
    <2>4. handler' = [handler EXCEPT ![h].pc = "get", ![h].todo = @ \ {x}]
      BY <1>2, <2>1, <2>3 DEF Handler
    <2> QED
      BY <1>1, <1>2, <2>2, <2>4, NextArtifactInv
  <1>4. CASE ~Visible(x.id)
    BY <1>1, <1>2, <1>4, GotoInv DEF GetArtifact
  <1> QED
    BY <1>3, <1>4

LEMMA ArtifactEventInv ==
    ASSUME Inv, NEW h \in Handlers, ArtifactEvent(h)
    PROVE  Inv'
  <1>1. UNCHANGED <<deployment, output, removed, agent, commands, owed, status, active, artifact, past, finisher, cleaner>>
    BY DEF ArtifactEvent, workVars, cleanVars
  <1>2. handler[h].pc = "event" /\ handler[h].todo # {}
    BY DEF ArtifactEvent, At, Inv, TypeOK, HandlerType
  <1>3. First(handler[h].todo).id \in Known
    BY <1>2 DEF Inv, RegisterInv, AnnounceInv
  <1>4. handler' = [handler EXCEPT ![h].pc = "get", ![h].todo = @ \ {First(handler[h].todo)}]
    BY DEF ArtifactEvent
  <1> QED
    BY <1>1, <1>2, <1>3, <1>4, NextArtifactInv

\* A row is written.
LEMMA AddArtifactInv ==
    ASSUME Inv, NEW h \in Handlers, AddArtifact(h)
    PROVE  Inv'
  <1> DEFINE x == First(handler[h].todo)
             v == IF x.dated /\ x.id \in past THEN "expired" ELSE "live"
             n == [handler[h] EXCEPT !.pc = "event"]
  <1>1. UNCHANGED <<deployment, output, removed, agent, commands, owed, status, active, past, finisher, cleaner>>
    BY DEF AddArtifact, workVars, cleanVars
  <1>2. handler[h].pc = "add" /\ handler[h] \in Handler /\ handler[h].todo # {}
    BY DEF AddArtifact, At, Inv, TypeOK, HandlerType
  <1>3. x \in handler[h].todo /\ x \in Report /\ x.id \in Ids
    BY <1>2, FirstIn DEF Handler, Report
  <1>4. handler' = [handler EXCEPT ![h] = n]
    BY DEF AddArtifact, Goto
  <1>5. n \in Handler /\ n.pc = "event" /\ n.todo = handler[h].todo /\ n.awaited = handler[h].awaited
    BY <1>2 DEF Handler
  <1>6. artifact' = [artifact EXCEPT ![x.id] = v]
    BY DEF AddArtifact
  <1>7. v \in {"live", "expired"} /\ (v = "expired" => x.id \in past)
    OBVIOUS
  <1> HIDE DEF v, n
  <1>8. \A id \in Ids : artifact'[id] = IF id = x.id THEN v ELSE artifact[id]
    BY <1>6 DEF Inv, TypeOK, RowType
  <1>9. artifact' \in [Ids -> {"none", "live", "expired", "deleted"}]
    BY <1>3, <1>6, <1>7 DEF Inv, TypeOK, RowType
  <1>10. Known \subseteq Known' /\ x.id \in Known'
    BY <1>3, <1>7, <1>8 DEF Known
  <1>11. \A id \in Ids : artifact'[id] # "none" => Kept(PathOf(id))
    <2>1. Kept(PathOf(x.id))
      BY <1>3 DEF Inv, KeepInv
    <2> QED
      BY <1>8, <2>1 DEF Inv, KeepInv
  <1>12. \A id \in Ids : artifact'[id] \in {"expired", "deleted"} => id \in past
    BY <1>7, <1>8 DEF Inv, KeepInv
  <1>13. h[2] = "complete" => ~handler[h].awaited
    BY <1>2, NotAwaited
  <1>14. First(n.todo).id \in Known'
    BY <1>5, <1>10
  <1> QED
    BY <1>1, <1>2, <1>4, <1>5, <1>9, <1>10, <1>11, <1>12, <1>13, <1>14, HandlerGoesInv

\* The attempt whose complete ends the run has all that it owes registered.
LEMMA SucceedRunInv ==
    ASSUME Inv, NEW h \in Handlers, SucceedRun(h)
    PROVE  Inv'
  <1> DEFINE a == h[1]
  <1>1. UNCHANGED <<deployment, output, removed, agent, commands, owed, active, artifact, past, cleaner>>
    BY DEF SucceedRun, workVars, cleanVars
  <1>2. a \in Attempts /\ h = <<a, "complete">> /\ handler[h].pc = "status"
    <2>1. handler[h].pc = "status"
      BY DEF SucceedRun, At
    <2>2. a \in Attempts /\ (h = <<a, "register">> \/ h = <<a, "complete">>)
      BY DEF Handlers
    <2>3. handler[<<a, "register">>].pc # "status"
      BY <2>2 DEF Inv, RegisterInv, CompleteInv
    <2> QED
      BY <2>1, <2>2, <2>3
  <1>3. agent[a].pc = "done" /\ handler[h].todo = {} /\ owed[a] \subseteq Known /\ ~handler[h].awaited
    BY <1>2 DEF Inv, RegisterInv, CompleteInv, IdsOf
  <1>4. \/ UNCHANGED <<status, finisher>>
        \/ status' = "succeeded" /\ finisher' = a
    BY DEF SucceedRun
  <1>5. handler' = [handler EXCEPT ![h] = NoHandler]
    BY <1>3 DEF SucceedRun, Answer
  <1>6. \A i \in Handlers : handler'[i] = IF i = h THEN NoHandler ELSE handler[i]
    BY <1>5 DEF Inv, TypeOK, HandlerType
  <1>7. NoHandler \in Handler /\ NoHandler.pc = "idle" /\ NoHandler.todo = {}
    BY DEF NoHandler, Handler
  <1>8. Known' = Known
    BY <1>1 DEF Known
  <1>9. HandlerType'
    BY <1>5, <1>6, <1>7 DEF Inv, TypeOK, HandlerType
  <1>10. RowType'
    BY <1>1, <1>2, <1>4 DEF Inv, TypeOK, RowType, TerminalStatus
  <1>11. AnnounceInv'
    BY <1>6, <1>7, <1>8 DEF Inv, RegisterInv, AnnounceInv
  <1>12. CompleteInv'
    <2> SUFFICES ASSUME NEW b \in Attempts
                 PROVE  /\ handler'[<<b, "register">>].pc # "status"
                        /\ handler'[<<b, "complete">>].pc # "idle" =>
                             /\ agent'[b].pc = "done"
                             /\ ~handler'[<<b, "complete">>].awaited
                             /\ owed'[b] \subseteq IdsOf(handler'[<<b, "complete">>].todo) \cup Known'
                             /\ handler'[<<b, "complete">>].pc = "status" =>
                                  handler'[<<b, "complete">>].todo = {}
      BY DEF CompleteInv, IdsOf
    <2>1. <<b, "register">> \in Handlers /\ <<b, "complete">> \in Handlers
      BY DEF Handlers
    <2> QED
      BY <1>1, <1>6, <1>7, <1>8, <2>1 DEF Inv, RegisterInv, CompleteInv
  <1>13. FinishedInv'
    BY <1>1, <1>3, <1>4, <1>8 DEF Inv, RegisterInv, FinishedInv
  <1>14. \A i \in Handlers : handler'[i].todo \subseteq handler[i].todo
    BY <1>6, <1>7
  <1>15. cleaner' \in [Cleaners -> Cleaner] /\ \A k \in Cleaners : cleaner'[k].todo \subseteq past'
    BY <1>1 DEF Inv, TypeOK, KeepInv
  <1>16. /\ \A id \in Ids : artifact'[id] # "none" => Kept(PathOf(id))
         /\ \A id \in Ids : artifact'[id] \in {"expired", "deleted"} => id \in past'
    BY <1>1 DEF Inv, KeepInv
  <1> QED
    BY <1>1, <1>9, <1>10, <1>11, <1>12, <1>13, <1>14, <1>15, <1>16, RowsInv

-----------------------------------------------------------------------------
(* Steps that only change what has become of the rows *)

\* Nobody is told.
LEMMA QuietInv ==
    ASSUME Inv, RowType', cleaner' \in [Cleaners -> Cleaner],
           \A k \in Cleaners : cleaner'[k].todo \subseteq past',
           past \subseteq past', Known \subseteq Known', Known' \subseteq Known \cup past,
           \A id \in Ids : artifact'[id] \in {"expired", "deleted"} => id \in past',
           UNCHANGED <<output, removed, agent, commands, owed, handler, finisher>>
    PROVE  Inv'
  <1>1. HandlerType'
    BY DEF Inv, TypeOK, HandlerType
  <1>2. AnnounceInv' /\ CompleteInv' /\ FinishedInv'
    BY DEF Inv, RegisterInv, AnnounceInv, CompleteInv, FinishedInv
  <1>3. \A id \in Ids : artifact'[id] # "none" => Kept(PathOf(id))
    <2>1. \A id \in Ids : artifact'[id] # "none" => artifact[id] # "none" \/ id \in past
      BY DEF Known
    <2> QED
      BY <2>1 DEF Inv, KeepInv, Kept
  <1> QED
    BY <1>1, <1>2, <1>3, RowsInv

LEMMA CancelRunInv ==
    ASSUME Inv, CancelRun
    PROVE  Inv'
  <1>1. /\ status' = "canceled"
        /\ UNCHANGED <<deployment, output, removed, agent, commands, owed, active, handler, artifact, past, finisher, cleaner>>
    BY DEF CancelRun, workVars, cleanVars
  <1>2. RowType' /\ Known' = Known
    BY <1>1 DEF Inv, TypeOK, RowType, TerminalStatus, Known
  <1>3. /\ cleaner' \in [Cleaners -> Cleaner]
        /\ \A k \in Cleaners : cleaner'[k].todo \subseteq past'
        /\ \A id \in Ids : artifact'[id] \in {"expired", "deleted"} => id \in past'
    BY <1>1 DEF Inv, TypeOK, KeepInv
  <1> QED
    BY <1>1, <1>2, <1>3, QuietInv

LEMMA ExpireInv ==
    ASSUME Inv, NEW id \in Ids, Expire(id)
    PROVE  Inv'
  <1>1. /\ artifact[id] = "live"
        /\ artifact' = [artifact EXCEPT ![id] = "expired"]
        /\ past' = past \cup {id}
        /\ UNCHANGED <<deployment, output, removed, agent, commands, owed, status, active, handler, finisher, cleaner>>
    BY DEF Expire, workVars, cleanVars
  <1>2. \A i \in Ids : artifact'[i] = IF i = id THEN "expired" ELSE artifact[i]
    BY <1>1 DEF Inv, TypeOK, RowType
  <1>3. RowType'
    BY <1>1 DEF Inv, TypeOK, RowType
  <1>4. Known' = Known
    BY <1>1, <1>2 DEF Known
  <1>5. /\ cleaner' \in [Cleaners -> Cleaner]
        /\ \A k \in Cleaners : cleaner'[k].todo \subseteq past'
        /\ \A i \in Ids : artifact'[i] \in {"expired", "deleted"} => i \in past'
    BY <1>1, <1>2 DEF Inv, TypeOK, KeepInv
  <1> QED
    BY <1>1, <1>3, <1>4, <1>5, QuietInv

\* What a cleanup marks has expired.
LEMMA MarkDeletedInv ==
    ASSUME Inv, NEW k \in Cleaners, NEW ids \in SUBSET Ids, ids \subseteq past, MarkDeleted(k, ids),
           UNCHANGED <<deployment, output, removed, agent, commands, owed, status, active, handler, past, finisher>>
    PROVE  Inv'
  <1>1. \A id \in Ids : artifact'[id] = IF id \in ids THEN "deleted" ELSE artifact[id]
    BY DEF MarkDeleted
  <1>2. RowType'
    <2>1. artifact' \in [Ids -> {"none", "live", "expired", "deleted"}]
      BY DEF MarkDeleted, Inv, TypeOK, RowType
    <2> QED
      BY <2>1 DEF Inv, TypeOK, RowType
  <1>3. Known \subseteq Known' /\ Known' \subseteq Known \cup past
    BY <1>1 DEF Known
  <1>4. \A id \in Ids : artifact'[id] \in {"expired", "deleted"} => id \in past'
    BY <1>1 DEF Inv, KeepInv
  <1>5. cleaner' \in [Cleaners -> Cleaner] /\ \A j \in Cleaners : cleaner'[j].todo \subseteq past'
    <2> DEFINE n == IF deployment.deleteFiles THEN [pc |-> "remove", todo |-> ids] ELSE NoCleaner
    <2>1. n \in Cleaner /\ n.todo \subseteq past
      BY DEF Cleaner, NoCleaner
    <2>2. cleaner' = [cleaner EXCEPT ![k] = n]
      BY DEF MarkDeleted
    <2> HIDE DEF n
    <2> QED
      BY <2>1, <2>2 DEF Inv, TypeOK, KeepInv
  <1> QED
    BY <1>2, <1>3, <1>4, <1>5, QuietInv

LEMMA ExpiredPast ==
    ASSUME Inv, NEW ids \in Batches
    PROVE  ids \in SUBSET Ids /\ ids \subseteq past
  <1>1. ids \subseteq ExpiredArtifacts
    BY BatchesExpired
  <1> QED
    BY <1>1 DEF ExpiredArtifacts, Inv, KeepInv

\* Nothing happens to the rows.
LEMMA CleanerInv ==
    ASSUME Inv, NEW k \in Cleaners, NEW n \in Cleaner, n.todo \subseteq past,
           cleaner' = [cleaner EXCEPT ![k] = n],
           UNCHANGED <<deployment, output, removed, agent, commands, owed, status, active, handler, artifact, past, finisher>>
    PROVE  Inv'
  <1>1. RowType' /\ Known' = Known
    BY DEF Inv, TypeOK, RowType, Known
  <1>2. cleaner' \in [Cleaners -> Cleaner] /\ \A j \in Cleaners : cleaner'[j].todo \subseteq past'
    BY DEF Inv, TypeOK, KeepInv
  <1>3. \A id \in Ids : artifact'[id] \in {"expired", "deleted"} => id \in past'
    BY DEF Inv, KeepInv
  <1> QED
    BY <1>1, <1>2, <1>3, QuietInv

LEMMA CleanupStepInv ==
    ASSUME Inv, NEW k \in Cleaners, CleanupStep(k)
    PROVE  Inv'
  <1>1. CASE MemoryDeleteExpired(k)
    <2>1. PICK ids \in Batches : MarkDeleted(k, ids)
      BY <1>1 DEF MemoryDeleteExpired
    <2>2. UNCHANGED <<deployment, output, removed, agent, commands, owed, status, active, handler, past, finisher>>
      BY <1>1 DEF MemoryDeleteExpired, workVars
    <2>3. ids \in SUBSET Ids /\ ids \subseteq past
      BY ExpiredPast
    <2> QED
      BY <2>1, <2>2, <2>3, MarkDeletedInv
  <1>2. CASE PostgresSelectExpired(k)
    <2>1. PICK ids \in Batches : cleaner' = [cleaner EXCEPT ![k] = [pc |-> "mark", todo |-> ids]]
      BY <1>2 DEF PostgresSelectExpired
    <2> DEFINE n == [pc |-> "mark", todo |-> ids]
    <2>2. n \in Cleaner /\ n.todo \subseteq past
      BY ExpiredPast DEF Cleaner
    <2>3. UNCHANGED <<deployment, output, removed, agent, commands, owed, status, active, handler, artifact, past, finisher>>
      BY <1>2 DEF PostgresSelectExpired, workVars, rowVars
    <2>4. cleaner' = [cleaner EXCEPT ![k] = n]
      BY <2>1
    <2> HIDE DEF n
    <2> QED
      BY <2>2, <2>3, <2>4, CleanerInv
  <1>3. CASE PostgresMarkDeleted(k)
    <2>1. cleaner[k].todo \in SUBSET Ids /\ cleaner[k].todo \subseteq past
      BY DEF Inv, TypeOK, Cleaner, KeepInv
    <2>2. UNCHANGED <<deployment, output, removed, agent, commands, owed, status, active, handler, past, finisher>>
      BY <1>3 DEF PostgresMarkDeleted, workVars
    <2>3. MarkDeleted(k, cleaner[k].todo)
      BY <1>3 DEF PostgresMarkDeleted
    <2> QED
      BY <2>1, <2>2, <2>3, MarkDeletedInv
  <1>4. CASE DeleteFile(k)
    BY <1>4, DeleteFileInv
  <1>6. CASE DeleteFileFails(k)
    <2>1. PICK id \in cleaner[k].todo : cleaner' = [cleaner EXCEPT ![k].todo = @ \ {id}]
      BY <1>6 DEF DeleteFileFails
    <2> DEFINE n == [cleaner[k] EXCEPT !.todo = @ \ {id}]
    <2>2. cleaner[k] \in Cleaner /\ cleaner[k].todo \subseteq past
      BY DEF Inv, TypeOK, KeepInv
    <2>3. n \in Cleaner /\ n.todo \subseteq past
      BY <2>2 DEF Cleaner
    <2>4. cleaner' = [cleaner EXCEPT ![k] = n]
      BY <2>1
    <2>5. UNCHANGED <<deployment, output, removed, agent, commands, owed, status, active, handler, artifact,
                      past, finisher>>
      BY <1>6 DEF DeleteFileFails, workVars, rowVars
    <2> HIDE DEF n
    <2> QED
      BY <2>3, <2>4, <2>5, CleanerInv
  <1>5. CASE CleanupReturns(k) \/ CleanupCrashes(k)
    <2>1. cleaner' = [cleaner EXCEPT ![k] = NoCleaner]
      BY <1>5 DEF CleanupReturns, CleanupCrashes
    <2>2. UNCHANGED <<deployment, output, removed, agent, commands, owed, status, active, handler, artifact, past, finisher>>
      BY <1>5 DEF CleanupReturns, CleanupCrashes, workVars, rowVars
    <2>3. NoCleaner \in Cleaner /\ NoCleaner.todo \subseteq past
      BY DEF NoCleaner, Cleaner
    <2> QED
      BY <2>1, <2>2, <2>3, CleanerInv
  <1> QED
    BY <1>1, <1>2, <1>3, <1>4, <1>5, <1>6 DEF CleanupStep

-----------------------------------------------------------------------------
(* All steps *)

LEMMA InitInv == Init => Inv
  <1> SUFFICES ASSUME Init PROVE Inv
    OBVIOUS
  <1>1. /\ Absent.pc = "absent" /\ Absent.found = NoFiles /\ Absent.report = {} /\ Absent.got = {}
        /\ Absent.wrote = {}
    BY DEF Absent, Idle
  <1>2. KeepInv
    BY <1>1 DEF Init, KeepInv, Backed, NoFiles, NoHandler, NoCleaner
  <1>3. AttemptInv
    BY <1>1 DEF Init, AttemptInv, Scanned, Owes
  <1>4. AnnounceInv /\ CompleteInv /\ FinishedInv
    BY DEF Init, AnnounceInv, CompleteInv, FinishedInv, NoHandler, Handlers
  <1> QED
    BY <1>2, <1>3, <1>4, InitType DEF Inv, RegisterInv

LEMMA NextInv == Inv /\ [Next]_vars => Inv'
  <1> SUFFICES ASSUME Inv, [Next]_vars PROVE Inv'
    OBVIOUS
  <1>1. ASSUME NEW a \in Attempts, AgentStep(a) PROVE Inv'
    BY <1>1, ClaimInv, ExecuteInv, ScanOutputInv, StartCommandInv, CommandChangesFileInv, CommandEndsInv,
       OrphanChangesFileInv, FallBackToLocalInv, CollectArtifactsInv, LoseResultInv, PostArtifactsInv,
       ReadSavedInv, GiveUpInv, CompleteWithUsageInv
       DEF AgentStep
  <1>2. ASSUME NEW h \in Handlers, HandlerStep(h) PROVE Inv'
    BY <1>2, StoreErrorInv, CheckRunAttemptInv, GetRunInv, GetArtifactInv, GetArtifactFailsInv,
       AddArtifactInv, ArtifactEventInv, RegisteredInv, SucceedRunInv
       DEF HandlerStep
  <1>3. ASSUME NEW k \in Cleaners, CleanupStep(k) PROVE Inv'
    BY <1>3, CleanupStepInv
  <1>4. ASSUME NEW id \in Ids, Expire(id) PROVE Inv'
    BY <1>4, ExpireInv
  <1>5. CASE CancelRun
    BY <1>5, CancelRunInv
  <1>6. CASE UNCHANGED vars
    BY <1>6 DEF vars, workVars, rowVars, cleanVars, Inv, TypeOK, WorkType, HandlerType, RowType, KeepInv,
       Kept, Backed, RegisterInv, AttemptInv, AnnounceInv, CompleteInv, FinishedInv, Known
  <1> QED
    BY <1>1, <1>2, <1>3, <1>4, <1>5, <1>6 DEF Next

LEMMA Invariant == Spec => []Inv
  BY InitInv, NextInv, PTL DEF Spec

-----------------------------------------------------------------------------
(* Why the files are reclaimed *)

\* A file that a cleanup is to remove and that is still there is one that it has before it.
Pending(k, id) == cleaner[k].pc = "remove" /\ id \in cleaner[k].todo

ReclaimInv == \A x \in doomed :
    /\ x \in Cleaners \X Ids
    /\ output[PathOf(x[2])] # NoFile => Pending(x[1], x[2])

\* A file is written or removed by somebody else.
LEMMA ReclaimChange ==
    ASSUME ReclaimInv, NEW a, NEW p \in Paths, NEW v, NEW t, Change(t, a, p, v),
           output \in Files, cleaner' = cleaner
    PROVE  ReclaimInv'
  <1> SUFFICES ASSUME NEW x \in doomed'
               PROVE  /\ x \in Cleaners \X Ids
                      /\ output'[PathOf(x[2])] # NoFile => Pending(x[1], x[2])'
    BY DEF ReclaimInv, PathOf
  <1>1. x \in doomed /\ (v # NoFile => PathOf(x[2]) # p)
    BY DEF Change
  <1>2. x \in Cleaners \X Ids /\ PathOf(x[2]) \in Paths
    BY <1>1 DEF ReclaimInv, Ids, PathOf
  <1>3. output'[PathOf(x[2])] # NoFile => output[PathOf(x[2])] # NoFile
    BY <1>1, <1>2 DEF Change, Files
  <1> QED
    BY <1>1, <1>2, <1>3 DEF ReclaimInv, Pending

\* A cleanup sets out to remove files. Those of its last batch are gone.
LEMMA ReclaimMark ==
    ASSUME ReclaimInv, NEW k \in Cleaners, NEW ids \in SUBSET Ids, MarkDeleted(k, ids),
           cleaner[k].pc # "remove", cleaner \in [Cleaners -> Cleaner], output' = output
    PROVE  ReclaimInv'
  <1>1. \A j \in Cleaners : j # k => cleaner'[j] = cleaner[j]
    BY DEF MarkDeleted
  <1> SUFFICES ASSUME NEW x \in doomed'
               PROVE  /\ x \in Cleaners \X Ids
                      /\ output'[PathOf(x[2])] # NoFile => Pending(x[1], x[2])'
    BY DEF ReclaimInv, PathOf
  <1>2. CASE x \in doomed
    <2>1. x \in Cleaners \X Ids /\ (output[PathOf(x[2])] # NoFile => Pending(x[1], x[2]))
      BY <1>2 DEF ReclaimInv
    <2>2. Pending(x[1], x[2]) => x[1] # k /\ Pending(x[1], x[2])'
      BY <1>1, <2>1 DEF Pending
    <2> QED
      BY <2>1, <2>2
  <1>3. CASE x \notin doomed
    <2>1. deployment.deleteFiles /\ x \in {k} \X ids
      BY <1>3 DEF MarkDeleted
    <2> DEFINE n == [pc |-> "remove", todo |-> ids]
    <2>2. cleaner'[k] = n
      BY <2>1 DEF MarkDeleted
    <2>3. n.pc = "remove" /\ n.todo = ids
      OBVIOUS
    <2> HIDE DEF n
    <2> QED
      BY <2>1, <2>2, <2>3 DEF Pending
  <1> QED
    BY <1>2, <1>3

\* A file is removed, whoever else may have it before it, or it is left out.
LEMMA ReclaimDelete ==
    ASSUME Inv, ReclaimInv, NEW k \in Cleaners, DeleteFile(k) \/ DeleteFileFails(k)
    PROVE  ReclaimInv'
  <1>1. cleaner \in [Cleaners -> Cleaner] /\ output \in Files
    BY DEF Inv, TypeOK, WorkType
  <1>2. PICK id \in cleaner[k].todo :
          /\ cleaner' = [cleaner EXCEPT ![k].todo = @ \ {id}]
          /\ \/ output' = [output EXCEPT ![PathOf(id)] = NoFile] /\ doomed' = doomed
             \/ output' = output /\ doomed' = doomed \ {<<k, id>>}
    BY DEF DeleteFile, DeleteFileFails, workVars
  <1>3. PathOf(id) \in Paths
    BY <1>1 DEF Cleaner, Ids, PathOf
  <1>4. \A j \in Cleaners, i \in Ids : Pending(j, i) /\ <<j, i>> # <<k, id>> => Pending(j, i)'
    BY <1>1, <1>2 DEF Cleaner, Pending
  <1> SUFFICES ASSUME NEW x \in doomed'
               PROVE  /\ x \in Cleaners \X Ids
                      /\ output'[PathOf(x[2])] # NoFile => Pending(x[1], x[2])'
    BY DEF ReclaimInv, PathOf
  <1>5. /\ x \in doomed /\ x \in Cleaners \X Ids
        /\ output[PathOf(x[2])] # NoFile => Pending(x[1], x[2])
    BY <1>2 DEF ReclaimInv
  <1>6. CASE output' = [output EXCEPT ![PathOf(id)] = NoFile]
    <2>1. output'[PathOf(x[2])] # NoFile => x[2] # id /\ output[PathOf(x[2])] # NoFile
      BY <1>1, <1>3, <1>6 DEF Files
    <2> QED
      BY <1>4, <1>5, <2>1
  <1>7. CASE output' = output /\ doomed' = doomed \ {<<k, id>>}
    BY <1>4, <1>5, <1>7
  <1> QED
    BY <1>2, <1>6, <1>7

\* A cleanup ends, with nothing left or with what it leaves forgotten.
LEMMA ReclaimEnd ==
    ASSUME Inv, ReclaimInv, NEW k \in Cleaners, CleanupReturns(k) \/ CleanupCrashes(k)
    PROVE  ReclaimInv'
  <1>1. /\ cleaner' = [cleaner EXCEPT ![k] = NoCleaner]
        /\ doomed' = doomed \ ({k} \X cleaner[k].todo)
        /\ output' = output
    BY DEF CleanupReturns, CleanupCrashes, workVars
  <1>2. \A j \in Cleaners : j # k => cleaner'[j] = cleaner[j]
    BY <1>1 DEF Inv, TypeOK
  <1> SUFFICES ASSUME NEW x \in doomed'
               PROVE  /\ x \in Cleaners \X Ids
                      /\ output'[PathOf(x[2])] # NoFile => Pending(x[1], x[2])'
    BY DEF ReclaimInv, PathOf
  <1>3. /\ x \in doomed /\ x \in Cleaners \X Ids /\ x \notin {k} \X cleaner[k].todo
        /\ output[PathOf(x[2])] # NoFile => Pending(x[1], x[2])
    BY <1>1 DEF ReclaimInv
  <1>4. Pending(x[1], x[2]) => x[1] # k
    BY <1>3 DEF Pending
  <1> QED
    BY <1>1, <1>2, <1>3, <1>4 DEF Pending

LEMMA ReclaimSame ==
    ASSUME ReclaimInv, UNCHANGED <<output, cleaner, doomed>>
    PROVE  ReclaimInv'
  BY DEF ReclaimInv, Pending

LEMMA ReclaimNext == Inv /\ ReclaimInv /\ [Next]_vars => ReclaimInv'
  <1> SUFFICES ASSUME Inv, ReclaimInv, [Next]_vars PROVE ReclaimInv'
    OBVIOUS
  <1>1. output \in Files /\ cleaner \in [Cleaners -> Cleaner]
    BY DEF Inv, TypeOK, WorkType
  <1>2. ASSUME NEW a \in Attempts, AgentStep(a) PROVE ReclaimInv'
    <2>1. CASE CommandChangesFile(a) \/ OrphanChangesFile(a)
      <3>1. PICK p \in Paths, v \in Versions \cup {NoFile}, t \in {[agent[a] EXCEPT !.wrote = {q}] : q \in Paths}
                \cup {[agent[a] EXCEPT !.disturbed = agent[a].pc \in Executing]} :
              Change(t, a, p, v)
        BY <2>1 DEF CommandChangesFile, OrphanChangesFile
      <3>2. cleaner' = cleaner
        BY <2>1 DEF CommandChangesFile, OrphanChangesFile, cleanVars
      <3> QED
        BY <1>1, <3>1, <3>2, ReclaimChange
    <2>2. CASE ~(CommandChangesFile(a) \/ OrphanChangesFile(a))
      <3>1. UNCHANGED <<output, cleaner, doomed>>
        BY <1>2, <2>2 DEF AgentStep, Claim, Execute, ScanOutput, StartCommand, CommandEnds,
           FallBackToLocal, CollectArtifacts, LoseResult, PostArtifacts, ReadSaved, GiveUp,
           CompleteWithUsage, cleanVars
      <3> QED
        BY <3>1, ReclaimSame
    <2> QED
      BY <2>1, <2>2
  <1>3. ASSUME NEW h \in Handlers, HandlerStep(h) PROVE ReclaimInv'
    <2>1. UNCHANGED <<output, cleaner, doomed>>
      BY <1>3 DEF HandlerStep, StoreError, CheckRunAttempt, GetRun, GetArtifact, GetArtifactFails,
         AddArtifact, ArtifactEvent, Registered, SucceedRun, workVars, cleanVars
    <2> QED
      BY <2>1, ReclaimSame
  <1>4. ASSUME NEW k \in Cleaners, CleanupStep(k) PROVE ReclaimInv'
    <2>1. CASE MemoryDeleteExpired(k) \/ PostgresMarkDeleted(k)
      <3>1. PICK ids \in SUBSET Ids : MarkDeleted(k, ids)
        BY <1>1, <2>1, ExpiredPast DEF MemoryDeleteExpired, PostgresMarkDeleted, Cleaner
      <3>2. cleaner[k].pc # "remove" /\ output' = output
        BY <2>1 DEF MemoryDeleteExpired, PostgresMarkDeleted, BeginCleanup, workVars
      <3> QED
        BY <1>1, <3>1, <3>2, ReclaimMark
    <2>2. CASE PostgresSelectExpired(k)
      <3>1. cleaner[k].pc = "idle" /\ UNCHANGED <<output, doomed>>
        BY <2>2 DEF PostgresSelectExpired, BeginCleanup, workVars
      <3>2. \A j \in Cleaners : j # k => cleaner'[j] = cleaner[j]
        BY <2>2 DEF PostgresSelectExpired
      <3> QED
        BY <3>1, <3>2 DEF ReclaimInv, Pending
    <2> QED
      BY <1>4, <2>1, <2>2, ReclaimDelete, ReclaimEnd DEF CleanupStep
  <1>5. CASE (\E id \in Ids : Expire(id)) \/ CancelRun \/ UNCHANGED vars
    <2>1. UNCHANGED <<output, cleaner, doomed>>
      BY <1>5 DEF Expire, CancelRun, vars, workVars, cleanVars
    <2> QED
      BY <2>1, ReclaimSame
  <1> QED
    BY <1>2, <1>3, <1>4, <1>5 DEF Next

-----------------------------------------------------------------------------
(* Theorems *)

\* The attempts, handlers and cleanups are only ever where the program has a place for
\* them, and a handler that is about to write or announce an artifact has one left.
THEOREM ArtifactsTypeCorrect == Spec => []TypeOK
  BY Invariant, PTL DEF Inv

\* Whatever attempts, orphaned containers and cleanups do at the same time, a visible
\* artifact has its file unless an artifact of that file has expired before, or a command
\* has removed the file itself (internalCleanupExpiredArtifacts, RegisterArtifacts).
THEOREM FileKept == Spec => []ArtifactKeepsFile
  <1>1. Inv => ArtifactKeepsFile
    BY DEF Inv, KeepInv, Kept, ArtifactKeepsFile, Visible
  <1> QED
    BY <1>1, Invariant, PTL

\* A run that has succeeded has an artifact for every file that the commands of the
\* attempt that completed it have left, whatever failed on the way.
THEOREM AllRegistered == Spec => []OutputsRegistered
  <1>1. Inv => OutputsRegistered
    BY DEF Inv, RegisterInv, FinishedInv, Known, OutputsRegistered
  <1> QED
    BY <1>1, Invariant, PTL

\* A cleanup that has ended has left none of the files of the artifacts that it has marked,
\* whatever other cleanups and commands do meanwhile, but those that have been written
\* since, that it has failed to remove, or that it had before it when it died
\* (internalCleanupExpiredArtifacts, deleteLocalArtifactFiles).
THEOREM FilesGone == Spec => []FilesReclaimed
  <1>1. Init => ReclaimInv
    BY DEF Init, ReclaimInv
  <1>2. ReclaimInv => FilesReclaimed
    BY DEF ReclaimInv, FilesReclaimed, Pending
  <1> QED
    BY <1>1, <1>2, Invariant, ReclaimNext, PTL DEF Spec

==============================================================================
