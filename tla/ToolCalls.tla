------------------------------ MODULE ToolCalls ------------------------------
(***************************************************************************)
(* A tool call of an agent from the reservation of its quota to the row    *)
(* that records it: runtimeTool.InvokableRun, the quota-reserve, events    *)
(* and complete handlers of the control plane, and the rows of run_usage   *)
(* and skill_invocations.                                                  *)
(*                                                                         *)
(* The callers are attempts to execute runs of one user and project within *)
(* one day. An attempt calls its tools one after the other; attempts of    *)
(* different runs, and a stale attempt and its successor, work at a time.  *)
(* A step is one call of the repository, or one of module SkillRequests.   *)
(***************************************************************************)
EXTENDS SkillRequests

CONSTANTS
    Runs,
    Scenarios,                \* bound: the stores, limiters, skills and budgets to look at together
    RiskDenied,               \* the skills that the runs' risk policy blocks
    MaxToolCallsPerDay,       \* the quota policy, 0 for no limit
    MaxSandboxSecondsPerDay,
    ReservedSeconds,          \* timeout_seconds of sandbox commands, at most 300
    SandboxHalves,            \* half seconds a command may have taken in the end
    SandboxSkills,            \* cli.exec
    MaxCalls                  \* bound on the tool calls

ASSUME ToolsAssumption ==
    /\ Scenarios \subseteq [store : {"memory", "postgres"}, limiter : {"local", "redis"},
                            offered : SUBSET Skills, budget : Budgets]
    /\ RiskDenied \subseteq Skills /\ IsFiniteSet(Runs)
    /\ SandboxSkills \subseteq {s \in Skills : KindOf[s] = "builtin"}
    /\ {MaxToolCallsPerDay, MaxSandboxSecondsPerDay, MaxCalls} \subseteq Nat
    /\ ReservedSeconds \in 1..300 /\ SandboxHalves \subseteq Nat

VARIABLES
    store,      \* "memory" or "postgres", fixed from the start
    runOf,      \* the run each caller is an attempt of, fixed from the start
    offered,    \* the skills of the runs, fixed from the start
    current,    \* the run's attempt_id
    finished,   \* the runs that are terminal
    runUsage,   \* the row of run_usage
    rows,       \* skill_invocations, in the order of started_at
    caller,
    calls,
    \* The rest is history.
    granted,    \* the calls that reservations were granted for
    forgotten,  \* those that a complete has taken out of the usage
    settled,    \* the runs whose usage a complete has replaced, which may be under way all the same
    excused,    \* a reservation was decided on a sum that was out of date or could not be read
    dangling,   \* the calls of each run and skill with a row whose end will not be recorded
    overlapped  \* two updates of Postgres have found the same row open

toolHistory == <<granted, forgotten, settled, excused, dangling, overlapped>>
ownVars == <<store, runOf, offered, current, finished, runUsage, rows, caller, calls, toolHistory>>
toolVars == <<ownVars, requestVars>>

Nobody == "nobody"

\* Calls, and half seconds in the sandbox.
Usage == [calls : Nat, halves : Nat]

NoUsage == [calls |-> 0, halves |-> 0]

Row == [run : Runs, skill : Skills, open : BOOLEAN]

Caller == [pc : {"waiting", "ready", "check", "sum", "read", "save", "started", "startRow", "work",
                 "finish", "finishRow", "close", "completing", "settle", "finishing", "done"},
           skill : Skills,
           read : Usage,       \* the usage of the run, to be added to
           own : Usage,        \* what toolUsageCollector has counted
           hasRow : BOOLEAN,
           target : Nat]

NewCaller == [pc |-> "waiting", skill |-> CHOOSE s \in Skills : TRUE, read |-> NoUsage,
              own |-> NoUsage, hasRow |-> FALSE, target |-> 0]

ToolInit ==
    /\ RequestInit
    /\ store \in {"memory", "postgres"}
    /\ runOf \in [Callers -> Runs]
    /\ offered \in SUBSET Skills
    /\ [store |-> store, limiter |-> limiter, offered |-> offered, budget |-> budget] \in Scenarios
    /\ current = [r \in Runs |-> Nobody]
    /\ finished = {}
    /\ runUsage = [r \in Runs |-> NoUsage]
    /\ rows = <<>>
    /\ caller = [c \in Callers |-> NewCaller]
    /\ calls = 0
    /\ granted = [r \in Runs |-> 0]
    /\ forgotten = 0
    /\ settled = {}
    /\ excused = FALSE
    /\ dangling = [p \in Runs \X Skills |-> 0]
    /\ overlapped = FALSE

-----------------------------------------------------------------------------
(* Steps *)

ToolAt(c, pc) == caller[c].pc = pc

ToolGoto(c, pc) == caller' = [caller EXCEPT ![c].pc = pc]

SkillIn(c) == caller[c].skill

\* CheckRunAttempt lets the run's current attempt pass, terminal or not.
IsCurrentAttempt(c) == current[runOf[c]] = c

Sandboxed(c) == SkillIn(c) \in SandboxSkills

\* What a step on the caller alone leaves as it is.
callerOthers == <<store, runOf, offered, current, finished, runUsage, rows, calls, toolHistory>>

-----------------------------------------------------------------------------
(* Attempts *)

\* The attempt takes the run over, from another one that may still be at work.
StartAttempt(c) ==
    /\ ToolAt(c, "waiting") /\ runOf[c] \notin finished
    /\ current' = [current EXCEPT ![runOf[c]] = c]
    /\ ToolGoto(c, "ready")
    /\ UNCHANGED <<store, runOf, offered, finished, runUsage, rows, calls, toolHistory, requestVars>>

\* The end of the call is not recorded, and so its row will stay open, if it has one.
EndUnrecorded(c) ==
    dangling' = IF caller[c].hasRow THEN [dangling EXCEPT ![<<runOf[c], SkillIn(c)>>] = @ + 1]
                                    ELSE dangling

\* The runtime's process ends, or the attempt stops with its run failed or canceled
\* by someone else. A complete that is past its first write goes on without its client.
Abandon(c) ==
    /\ caller[c].pc \notin {"waiting", "finishing", "done"}
    /\ caller' = [caller EXCEPT ![c] = [NewCaller EXCEPT !.pc = "done"]]
    /\ request' = [request EXCEPT ![c] = NoRequest]
    /\ EndUnrecorded(c)
    /\ RequestFault
    /\ UNCHANGED <<store, runOf, offered, current, finished, runUsage, rows, calls, granted, forgotten, settled,
                   excused, overlapped, limiter, now, resolves, window, dialed, admitted>>

\* The observation of the call goes back to the model. A call that is denied for its
\* risk counts like one that was made, one that is denied for the quota does not.
Observe(c, halves) ==
    [NewCaller EXCEPT !.pc = "ready", !.own = [calls |-> caller[c].own.calls + 1,
                                               halves |-> caller[c].own.halves + halves]]

\* The model wants a tool. What the risk policy blocks is only reported.
CallTool(c) == \E s \in offered :
    /\ ToolAt(c, "ready")
    /\ calls < MaxCalls
    /\ calls' = calls + 1
    /\ caller' = [caller EXCEPT ![c].skill = s,
                                ![c].pc = IF s \in RiskDenied THEN "finish" ELSE "check"]
    /\ UNCHANGED <<store, runOf, offered, current, finished, runUsage, rows, toolHistory, requestVars>>

-----------------------------------------------------------------------------
(* internalReserveToolQuota *)

\* The tool is not run: the quota is used up, or could not be asked for.
NotRun(c) == caller' = [caller EXCEPT ![c] = [NewCaller EXCEPT !.pc = "ready", !.own = caller[c].own]]

ReserveCheckAttempt(c) ==
    /\ ToolAt(c, "check")
    /\ \/ IsCurrentAttempt(c) /\ ToolGoto(c, "sum") /\ UNCHANGED budget
       \/ ~IsCurrentAttempt(c) /\ NotRun(c) /\ UNCHANGED budget
       \/ NotRun(c) /\ RequestFault
    /\ UNCHANGED <<callerOthers, limiter, now, resolves, window, request, dialed, admitted>>

\* Faulty: a run counts only its own calls.
SumRunUsageSinceOwn(c) == runUsage[runOf[c]]

OverRuns(amounts) == MapThenSumSet(LAMBDA r : amounts[r], Runs)

SumRunUsageSince(c) ==
    [calls |-> OverRuns([r \in Runs |-> runUsage[r].calls]),
     halves |-> OverRuns([r \in Runs |-> runUsage[r].halves])]

\* Whole seconds, rounded up.
Seconds(halves) == (halves + 1) \div 2

Allowed(c, sum) ==
    /\ MaxToolCallsPerDay > 0 => sum.calls + 1 <= MaxToolCallsPerDay
    /\ MaxSandboxSecondsPerDay > 0 =>
         Seconds(sum.halves) + (IF Sandboxed(c) THEN ReservedSeconds ELSE 0) <= MaxSandboxSecondsPerDay

\* The sum of a failed query is zero, with no error.
ReserveDecide(c) ==
    /\ ToolAt(c, "sum")
    /\ \/ /\ IF Allowed(c, SumRunUsageSince(c)) THEN ToolGoto(c, "read") ELSE NotRun(c)
          /\ UNCHANGED <<excused, budget>>
       \/ /\ store = "postgres"
          /\ IF Allowed(c, NoUsage) THEN ToolGoto(c, "read") ELSE NotRun(c)
          /\ excused' = TRUE
          /\ RequestFault
    /\ UNCHANGED <<store, runOf, offered, current, finished, runUsage, rows, calls, granted, forgotten, settled,
                   dangling, overlapped, limiter, now, resolves, window, request, dialed, admitted>>

GetRunUsage(c) ==
    /\ ToolAt(c, "read")
    /\ \/ /\ caller' = [caller EXCEPT ![c].pc = "save", ![c].read = runUsage[runOf[c]]]
          /\ UNCHANGED budget
       \/ store = "postgres" /\ NotRun(c) /\ RequestFault
    /\ UNCHANGED <<callerOthers, limiter, now, resolves, window, request, dialed, admitted>>

ReservedUsage(c) ==
    [calls |-> caller[c].read.calls + 1,
     halves |-> caller[c].read.halves + (IF Sandboxed(c) THEN 2 * ReservedSeconds ELSE 0)]

\* Another reservation has been decided on a sum from before this step.
OthersDecided(c) == \E d \in Callers \ {c} : caller[d].pc \in {"read", "save"}

\* SaveRunUsage replaces the row. The answer may be lost: the call is reserved and
\* not made.
ReserveSave(c) ==
    /\ ToolAt(c, "save")
    /\ runUsage' = [runUsage EXCEPT ![runOf[c]] = ReservedUsage(c)]
    /\ granted' = [granted EXCEPT ![runOf[c]] = @ + 1]
    /\ excused' = (excused \/ OthersDecided(c))
    /\ \/ ToolGoto(c, "started") /\ UNCHANGED budget
       \/ NotRun(c) /\ RequestFault
    /\ UNCHANGED <<store, runOf, offered, current, finished, rows, calls, forgotten, settled, dangling, overlapped,
                   limiter, now, resolves, window, request, dialed, admitted>>

-----------------------------------------------------------------------------
(* Events and the rows they leave *)

\* An event is sent once, and what comes of it is ignored.
StartEvent(c) ==
    /\ ToolAt(c, "started")
    /\ \/ ToolGoto(c, IF IsCurrentAttempt(c) THEN "startRow" ELSE "work") /\ UNCHANGED budget
       \/ ToolGoto(c, "work") /\ RequestFault
    /\ UNCHANGED <<callerOthers, limiter, now, resolves, window, request, dialed, admitted>>

OpenRow(c, open) == Append(rows, [run |-> runOf[c], skill |-> SkillIn(c), open |-> open])

RecordStart(c) ==
    /\ ToolAt(c, "startRow")
    /\ rows' = OpenRow(c, TRUE)
    /\ caller' = [caller EXCEPT ![c].pc = "work", ![c].hasRow = TRUE]
    /\ UNCHANGED <<store, runOf, offered, current, finished, runUsage, calls, toolHistory, requestVars>>

\* Faulty: a row that is closed already will do.
OpenRowsAny(c) == {i \in DOMAIN rows : rows[i].run = runOf[c] /\ rows[i].skill = SkillIn(c)}

OpenRows(c) == {i \in DOMAIN rows : rows[i].open /\ rows[i].run = runOf[c] /\ rows[i].skill = SkillIn(c)}

LatestOpen(c) == IF OpenRows(c) = {} THEN 0 ELSE Max(OpenRows(c))

CloseRow(c, i) == rows' = IF i = 0 THEN OpenRow(c, FALSE) ELSE [rows EXCEPT ![i].open = FALSE]

\* After tool.finished the observation is with the model. The error of a builtin ends
\* the attempt.
Return(c) == \E halves \in (IF Sandboxed(c) THEN SandboxHalves ELSE {0}) :
    \/ caller' = [caller EXCEPT ![c] = Observe(c, halves)]
    \/ /\ KindOf[SkillIn(c)] = "builtin" /\ SkillIn(c) \notin RiskDenied
       /\ caller' = [caller EXCEPT ![c] = [NewCaller EXCEPT !.pc = "done"]]

\* The event does not get there, or a stale attempt's is refused: the row stays open.
FinishEvent(c) ==
    /\ ToolAt(c, "finish")
    /\ \/ IsCurrentAttempt(c) /\ ToolGoto(c, "finishRow") /\ UNCHANGED <<dangling, budget>>
       \/ /\ Return(c)
          /\ EndUnrecorded(c)
          /\ IF IsCurrentAttempt(c) THEN RequestFault ELSE UNCHANGED budget
    /\ UNCHANGED <<store, runOf, offered, current, finished, runUsage, rows, calls, granted, forgotten, settled,
                   excused, overlapped, limiter, now, resolves, window, request, dialed, admitted>>

\* The memory store's RecordSkillInvocation is one critical section.
MemoryRecordFinish(c) ==
    /\ store = "memory" /\ ToolAt(c, "finishRow")
    /\ CloseRow(c, LatestOpen(c))
    /\ Return(c)
    /\ UNCHANGED <<store, runOf, offered, current, finished, runUsage, calls, toolHistory, requestVars>>

\* That of Postgres finds the row in a subquery that locks nothing, and updates it.
PostgresFindOpen(c) ==
    /\ store = "postgres" /\ ToolAt(c, "finishRow")
    /\ caller' = [caller EXCEPT ![c].pc = "close", ![c].target = LatestOpen(c)]
    /\ overlapped' = (overlapped \/ \E d \in Callers \ {c} :
                        ToolAt(d, "close") /\ caller[d].target = LatestOpen(c) /\ LatestOpen(c) # 0)
    /\ UNCHANGED <<store, runOf, offered, current, finished, runUsage, rows, calls, granted, forgotten, settled,
                   excused, dangling, requestVars>>

PostgresRecordFinish(c) ==
    /\ ToolAt(c, "close")
    /\ CloseRow(c, caller[c].target)
    /\ Return(c)
    /\ UNCHANGED <<store, runOf, offered, current, finished, runUsage, calls, toolHistory, requestVars>>

-----------------------------------------------------------------------------
(* The work *)

\* Builtins are one step: cli.exec and workspace.read call other services.
Work(c) ==
    /\ ToolAt(c, "work")
    /\ \/ KindOf[SkillIn(c)] = "builtin" /\ ToolGoto(c, "finish") /\ UNCHANGED request
       \/ /\ KindOf[SkillIn(c)] # "builtin" /\ RequestAt(c, "none")
          /\ request' = [request EXCEPT ![c] = [pc |-> "start", skill |-> SkillIn(c), attempt |-> 1]]
          /\ UNCHANGED caller
       \/ /\ request[c].pc \in {"good", "bad"}
          /\ request' = [request EXCEPT ![c] = NoRequest]
          /\ ToolGoto(c, "finish")
    /\ UNCHANGED <<callerOthers, requestOthers>>

RequestOf(c) == RequestStep(c) /\ UNCHANGED ownVars

-----------------------------------------------------------------------------
(* internalCompleteRun, as far as the usage is concerned *)

EndLoop(c) ==
    /\ ToolAt(c, "ready")
    /\ ToolGoto(c, "completing")
    /\ UNCHANGED <<callerOthers, requestVars>>

CompleteCheckAttempt(c) ==
    /\ ToolAt(c, "completing")
    /\ ToolGoto(c, IF IsCurrentAttempt(c) /\ runOf[c] \notin finished THEN "settle" ELSE "done")
    /\ UNCHANGED <<callerOthers, requestVars>>

Monus(a, b) == IF a > b THEN a - b ELSE 0

\* SaveRunUsage: the attempt's own count replaces what was reserved. It has tokens in
\* it, and so is never zero. If the call fails, with the row replaced or not, so does the
\* complete.
CompleteSaveUsage(c) == LET r == runOf[c] IN
    /\ ToolAt(c, "settle")
    /\ \/ /\ runUsage' = [runUsage EXCEPT ![r] = caller[c].own]
          /\ forgotten' = forgotten + Monus(runUsage[r].calls, caller[c].own.calls)
          /\ settled' = settled \cup {r}
          /\ excused' = (excused \/ OthersDecided(c))
          /\ \/ ToolGoto(c, "finishing") /\ UNCHANGED budget
             \/ store = "postgres" /\ ToolGoto(c, "done") /\ RequestFault
       \/ /\ store = "postgres" /\ ToolGoto(c, "done") /\ RequestFault
          /\ UNCHANGED <<runUsage, forgotten, settled, excused>>
    /\ UNCHANGED <<store, runOf, offered, current, finished, rows, calls, granted, dangling, overlapped,
                   limiter, now, resolves, window, request, dialed, admitted>>

\* RepositorySink.Complete, which leaves a run that has become terminal alone. One of its
\* calls may fail before the status is written. The attempt ends in any case.
CompleteFinish(c) ==
    /\ ToolAt(c, "finishing")
    /\ \/ finished' = finished \cup {runOf[c]} /\ UNCHANGED budget
       \/ store = "postgres" /\ UNCHANGED finished /\ RequestFault
    /\ ToolGoto(c, "done")
    /\ UNCHANGED <<store, runOf, offered, current, runUsage, rows, calls, toolHistory,
                   limiter, now, resolves, window, request, dialed, admitted>>

-----------------------------------------------------------------------------

\* What a caller and its request do by themselves.
Advance(c) ==
    \/ ReserveCheckAttempt(c) \/ ReserveDecide(c) \/ GetRunUsage(c) \/ ReserveSave(c)
    \/ StartEvent(c) \/ RecordStart(c) \/ Work(c) \/ RequestOf(c)
    \/ FinishEvent(c) \/ MemoryRecordFinish(c) \/ PostgresFindOpen(c) \/ PostgresRecordFinish(c)
    \/ CompleteCheckAttempt(c) \/ CompleteSaveUsage(c) \/ CompleteFinish(c)

ToolNext ==
    \/ \E c \in Callers : StartAttempt(c) \/ CallTool(c) \/ EndLoop(c) \/ Abandon(c) \/ Advance(c)
    \/ (Tick \/ ResolveDifferently) /\ UNCHANGED ownVars

ToolSpec == ToolInit /\ [][ToolNext]_toolVars

-----------------------------------------------------------------------------
(* Properties *)

ToolTypeOK ==
    /\ RequestTypeOK
    /\ store \in {"memory", "postgres"}
    /\ runOf \in [Callers -> Runs]
    /\ offered \subseteq Skills
    /\ current \in [Runs -> Callers \cup {Nobody}]
    /\ finished \subseteq Runs
    /\ runUsage \in [Runs -> Usage]
    /\ rows \in Seq(Row)
    /\ caller \in [Callers -> Caller]
    /\ calls \in 0..MaxCalls
    /\ granted \in [Runs -> Nat]
    /\ forgotten \in Nat /\ settled \subseteq Runs
    /\ dangling \in [Runs \X Skills -> Nat]
    /\ {excused, overlapped} \subseteq BOOLEAN

\* The reservations of a day stay within the quota, and the usage of a run is what was
\* reserved until a complete replaces it, so long as no reservation is decided on an old
\* sum or without one. What a complete takes out of the usage is free again, although
\* the complete may fail after it and the run go on.
QuotaKept ==
    ~excused =>
        /\ MaxToolCallsPerDay > 0 => OverRuns(granted) <= MaxToolCallsPerDay + forgotten
        /\ \A r \in Runs \ settled : runUsage[r].calls = granted[r]

\* No invocation is shown as under way unless its call is, or the event of its end was
\* lost or refused, although two attempts of a run may call the same skill. On Postgres
\* two ends at the same time may close one row.
InvocationRowsClosed ==
    ~overlapped => \A r \in Runs, s \in Skills :
        Cardinality({i \in DOMAIN rows : rows[i] = [run |-> r, skill |-> s, open |-> TRUE]}) <=
            Cardinality({c \in Callers : caller[c].hasRow /\ runOf[c] = r /\ SkillIn(c) = s})
              + dangling[<<r, s>>]
=============================================================================
