------------------------------ MODULE QuotaProofs ------------------------------
(***************************************************************************)
(* Theorems about the two quotas.                                          *)
(*                                                                         *)
(* RunQuota, for every number of requests and every policy: the limits     *)
(* hold under any number of failed calls and crashes, as long as no reply  *)
(* of Redis is lost after its call took effect; and without failures the   *)
(* counters settle to what the rows say.                                   *)
(*                                                                         *)
(* ToolCalls with SkillRequests, for every number of attempts, runs,       *)
(* skills and faults: the tool quota, the rows of the invocations, the     *)
(* rate limits of the skills and the addresses they reach. Its sums over   *)
(* runs are those whose lemmas the first part proves.                      *)
(***************************************************************************)
EXTENDS RunQuota, ToolCalls, FiniteSetTheorems, NaturalsInduction, WellFoundedInduction, TLAPS

Pc(h) == handler[h].pc
RunOf(h) == handler[h].run
OwesActive(h) == Pc(h) = "settle" /\ "active" \in handler[h].owed

\* Where a create is before its run's reservation is committed, and where it has passed
\* a limit and has not failed.
Early == {"idle", "check", "active", "hour", "tokens", "add", "commit"}
Handed == {"dispatch", "dispatching", "accepted"}
BeyondActive == {"hour", "tokens", "add", "commit"} \cup Handed
BeyondHour == {"tokens", "add", "commit"} \cup Handed

\* Every handler has a run that was created, but a create that is still at work on it.
RunInv ==
    /\ \A c \in Creates : RunOf(c) = c
    /\ \A h \in Handlers :
         /\ Pc(h) # "idle" => RunOf(h) \in Creates
         /\ Pc(h) \in {"saveUsage", "before", "update"} => status[RunOf(h)] # "none"
         /\ Pc(h) \in {"usage", "marker", "delete"} => status[RunOf(h)] \in Finished
    /\ \A c \in Creates : Pc(c) \in {"commit", "dispatch", "dispatching"} => status[c] # "none"
    /\ \A c \in Creates : Pc(c) \in Early \ {"commit"} => status[c] = "none"

\* The marker of a run is written once, by the commit, and removed once.
MarkerInv ==
    \A c \in Creates :
        /\ handler[c].committed => Pc(c) \notin Early
        /\ marker[c] # {} => handler[c].committed /\ marker[c] = handler[c].reserved \ {"hour"}
        /\ handler[c].committed /\ marker[c] = {} =>
             \/ status[c] \in Finished \/ Pc(c) = "done"
             \/ Pc(c) = "settle" /\ handler[c].then = "done"
        /\ Pc(c) \in {"delete", "settle"} /\ handler[c].then = "rollback" => handler[c].committed

\* A reservation of a concurrent run is paid back by one handler, which has removed the
\* marker or is the create that never wrote it; that of the hour by the create alone.
OwedInv ==
    /\ \A h \in Handlers :
         /\ Pc(h) = "delete" => /\ "hour" \notin handler[h].owed
                                /\ handler[RunOf(h)].committed
                                /\ marker[RunOf(h)] \in {{}, handler[h].owed}
         /\ OwesActive(h) =>
              marker[RunOf(h)] = {} /\ (handler[RunOf(h)].committed \/ h = RunOf(h))
         /\ Pc(h) = "settle" /\ "hour" \in handler[h].owed =>
              h \in Creates /\ handler[h].then = "done" /\ "hour" \in handler[h].reserved
    /\ \A g, h \in Handlers :
         RunOf(g) = RunOf(h) /\ OwesActive(g) /\ OwesActive(h) => g = h

\* What a limit is passed with.
ReservedInv ==
    \A c \in Creates :
        /\ MaxConcurrentRuns > 0 /\ Pc(c) \in BeyondActive => "active" \in handler[c].reserved
        /\ MaxConcurrentRuns > 0 /\ Pc(c) \in Handed => handler[c].committed
        /\ MaxConcurrentRuns > 0 /\ handler[c].committed => "active" \in handler[c].reserved
        /\ MaxRunsPerHour > 0 /\ Pc(c) \in BeyondHour => "hour" \in handler[c].reserved

\* The creates that count for the hour and have not paid it back.
HourHolding == {c \in Creates :
    /\ "hour" \in handler[c].reserved
    /\ Pc(c) # "done"
    /\ Pc(c) = "settle" /\ handler[c].then = "done" => "hour" \in handler[c].owed}

\* The creates that have passed a limit and have not failed.
PastActive == Running \cup {c \in Creates : Pc(c) \in {"hour", "tokens", "add", "commit"}}
PastHour == {c \in Creates : Pc(c) \in BeyondHour}

CountInv ==
    /\ HeldIsCounted
    /\ counter["hour"] >= Cardinality(HourHolding)
    /\ MaxConcurrentRuns > 0 => Cardinality(PastActive) <= MaxConcurrentRuns
    /\ MaxRunsPerHour > 0 => Cardinality(PastHour) <= MaxRunsPerHour

OwnerInv == TypeOK /\ RunInv /\ MarkerInv /\ OwedInv /\ ReservedInv

IInv == OwnerInv /\ CountInv

-----------------------------------------------------------------------------
NextOwes(h) == handler'[h].pc = "settle" /\ "active" \in handler'[h].owed

\* A handler h goes on to pc with the run, the reservation and what it owes as they were.
Only(h) == handler' \in [Handlers -> Handler] /\ \A g \in Handlers \ {h} : handler'[g] = handler[g]

Moves(h, pc) ==
    /\ Only(h) /\ handler'[h].pc = pc
    /\ handler'[h].run = handler[h].run
    /\ handler'[h].reserved = handler[h].reserved /\ handler'[h].committed = handler[h].committed
    /\ handler'[h].owed = handler[h].owed

LEMMA GotoMoves == ASSUME TypeOK, NEW h \in Handlers, NEW pc \in PCs, Goto(h, pc)
                   PROVE  Moves(h, pc) /\ handler'[h].then = handler[h].then
  <1> DEFINE t == [handler[h] EXCEPT !.pc = pc]
  <1>1. handler \in [Handlers -> Handler] /\ handler[h] \in Handler
    BY DEF TypeOK
  <1>2. t \in Handler /\ t.pc = pc /\ t.run = handler[h].run /\ t.reserved = handler[h].reserved
        /\ t.committed = handler[h].committed /\ t.owed = handler[h].owed /\ t.then = handler[h].then
    BY <1>1 DEF Handler
  <1>3. handler' = [handler EXCEPT ![h] = t]
    BY DEF Goto
  <1> HIDE DEF t
  <1> QED
    BY <1>1, <1>2, <1>3 DEF Moves, Only

\* A step that takes nobody into a counted set and nothing off a counter.
LEMMA QuietCounts ==
    ASSUME IInv, TypeOK',
           counter'["active"] >= counter["active"], counter'["hour"] >= counter["hour"],
           Holding("active")' \subseteq Holding("active"), HourHolding' \subseteq HourHolding,
           MaxConcurrentRuns > 0 => PastActive' \subseteq PastActive,
           MaxRunsPerHour > 0 => PastHour' \subseteq PastHour
    PROVE  CountInv'
  <1>1. /\ IsFiniteSet(Holding("active")) /\ IsFiniteSet(HourHolding)
        /\ IsFiniteSet(PastActive) /\ IsFiniteSet(PastHour)
    <2>1. IsFiniteSet(Creates)
      BY RequestsAssumption
    <2>2. /\ Holding("active") \subseteq Creates /\ HourHolding \subseteq Creates
          /\ PastActive \subseteq Creates /\ PastHour \subseteq Creates
      BY DEF Holding, HourHolding, PastActive, PastHour, Running, Active, Created
    <2> QED
      BY <2>1, <2>2, FS_Subset
  <1>2. /\ Cardinality(Holding("active")') <= Cardinality(Holding("active"))
        /\ Cardinality(HourHolding') <= Cardinality(HourHolding)
        /\ MaxRunsPerHour > 0 => Cardinality(PastHour') <= Cardinality(PastHour)
        /\ MaxConcurrentRuns > 0 => Cardinality(PastActive') <= Cardinality(PastActive)
    BY <1>1, FS_Subset
  <1>3. /\ Cardinality(Holding("active")) \in Nat /\ Cardinality(HourHolding) \in Nat
        /\ Cardinality(PastActive) \in Nat /\ Cardinality(PastHour) \in Nat
        /\ Cardinality(Holding("active")') \in Nat /\ Cardinality(HourHolding') \in Nat
        /\ MaxConcurrentRuns > 0 => Cardinality(PastActive') \in Nat
        /\ MaxRunsPerHour > 0 => Cardinality(PastHour') \in Nat
    BY <1>1, FS_Subset, FS_CardinalityType
  <1>4. /\ counter["active"] \in Int /\ counter["hour"] \in Int
        /\ counter'["active"] \in Int /\ counter'["hour"] \in Int
        /\ MaxConcurrentRuns \in Nat /\ MaxRunsPerHour \in Nat
    BY LimitsAssumption DEF IInv, OwnerInv, TypeOK, Keys
  <1> QED
    BY <1>2, <1>3, <1>4 DEF IInv, CountInv, HeldIsCounted

\* Most steps only let a handler go on, and do not let it settle anything.
LEMMA MoveGood ==
    ASSUME IInv, TypeOK', RunInv', MarkerInv', ReservedInv',
           NEW h \in Handlers, NEW pc, pc \notin {"delete", "settle"}, Moves(h, pc),
           Pc(h) # "done", Pc(h) = "settle" => pc \in {"done", handler[h].then},
           marker' = marker,
           counter'["active"] = counter["active"], counter'["hour"] = counter["hour"],
           MaxConcurrentRuns > 0 => PastActive' \subseteq PastActive,
           MaxRunsPerHour > 0 /\ h \in Creates /\ pc \in BeyondHour => Pc(h) \in BeyondHour
    PROVE  IInv'
  <1>1. /\ \A g \in Handlers : /\ handler'[g].run = handler[g].run /\ handler'[g].owed = handler[g].owed
                               /\ handler'[g].committed = handler[g].committed
                               /\ handler'[g].reserved = handler[g].reserved
                               /\ g # h => handler'[g].pc = handler[g].pc /\ handler'[g].then = handler[g].then
        /\ handler'[h].pc = pc
    BY DEF Moves, Only
  <1>2. \A g \in Handlers : NextOwes(g) => OwesActive(g)
    BY <1>1 DEF OwesActive, NextOwes, Pc
  <1>3. \A g \in Handlers : g # h => handler'[g].pc = Pc(g)
    BY <1>1 DEF Pc
  <1>4. \A g \in Handlers : handler'[g].run = RunOf(g)
    BY <1>1 DEF RunOf
  <1>5. \A g \in Handlers : handler'[g].pc \in {"delete", "settle"} => g # h /\ handler'[g].pc = Pc(g) /\ RunOf(g) \in Handlers
    BY <1>1, <1>3 DEF Pc, IInv, OwnerInv, RunInv, Handlers
  <1>6. OwedInv'
    <2>1. \A g \in Handlers : NextOwes(g) =>
            marker[RunOf(g)] = {} /\ (handler'[RunOf(g)].committed \/ g = RunOf(g))
      BY <1>1, <1>2, <1>5 DEF IInv, OwnerInv, OwedInv, OwesActive, NextOwes
    <2>2. \A g \in Handlers : handler'[g].pc = "delete" =>
            "hour" \notin handler'[g].owed /\ handler'[RunOf(g)].committed
            /\ marker[RunOf(g)] \in {{}, handler'[g].owed}
      BY <1>1, <1>5 DEF IInv, OwnerInv, OwedInv
    <2>3. \A g \in Handlers : handler'[g].pc = "settle" /\ "hour" \in handler'[g].owed =>
            g \in Creates /\ handler'[g].then = "done" /\ "hour" \in handler'[g].reserved
      BY <1>1, <1>5 DEF IInv, OwnerInv, OwedInv
    <2>4. \A f, g \in Handlers :
            RunOf(f) = RunOf(g) /\ NextOwes(f) /\ NextOwes(g) => f = g
      BY <1>2 DEF IInv, OwnerInv, OwedInv
    <2> QED
      BY <1>4, <2>1, <2>2, <2>3, <2>4 DEF OwedInv, OwesActive, NextOwes, Pc, RunOf
  <1>7. Holding("active")' \subseteq Holding("active")
    <2> SUFFICES ASSUME NEW c \in Holding("active")' PROVE c \in Holding("active")
      OBVIOUS
    <2>1. c \in Creates /\ c \in Handlers
      BY DEF Holding, Handlers
    <2>2. CASE "active" \in marker'[c]
      BY <2>1, <2>2 DEF Holding
    <2>3. ASSUME NEW g \in Handlers, handler'[g].run = c, NextOwes(g) PROVE c \in Holding("active")
      BY <1>2, <1>4, <2>1, <2>3 DEF Holding, At, OwesActive, NextOwes, Pc, RunOf
    <2>4. CASE "active" \in handler'[c].reserved /\ ~handler'[c].committed /\ handler'[c].pc \notin {"settle", "done"}
      <3>1. Pc(c) \notin {"settle", "done"}
        <4>1. handler[c].then \in {"rollback", "done"} /\ ~handler[c].committed
          BY <1>1, <2>1, <2>4 DEF IInv, OwnerInv, TypeOK, Handler
        <4>2. Pc(c) = "settle" => handler[c].then = "done"
          BY <2>1, <4>1 DEF IInv, OwnerInv, MarkerInv
        <4> QED
          BY <1>1, <1>3, <2>1, <2>4, <4>2
      <3> QED
        BY <1>1, <2>1, <2>4, <3>1 DEF Holding, Pc
    <2> QED
      BY <2>2, <2>3, <2>4 DEF Holding, At, OwesActive, NextOwes, Pc, RunOf
  <1>8. HourHolding' \subseteq HourHolding
    BY <1>1 DEF HourHolding, Pc, Handlers
  <1>9. MaxRunsPerHour > 0 => PastHour' \subseteq PastHour
    BY <1>1 DEF PastHour, Pc, Handlers
  <1>10. counter'["active"] >= counter["active"] /\ counter'["hour"] >= counter["hour"]
    BY DEF IInv, OwnerInv, TypeOK, Keys
  <1>11. CountInv'
    BY <1>7, <1>8, <1>9, <1>10, QuietCounts
  <1> QED
    BY <1>6, <1>11 DEF IInv, OwnerInv

\* A handler may go on to pc, as far as the rows, its marker and its reservation go.
MayMove(h, pc) ==
    /\ h \in Creates \/ Pc(h) # "idle"
    /\ Pc(h) # "done" /\ (Pc(h) = "settle" => pc \in {"done", handler[h].then})
    /\ pc \notin {"idle", "delete", "settle"}
    /\ pc \in {"saveUsage", "before", "update"} => status[RunOf(h)] # "none"
    /\ pc \in {"usage", "marker"} => status[RunOf(h)] \in Finished

\* A create goes past what it has reserved, and never back.
Passes(h, pc) == h \in Creates =>
    /\ pc \in Early \ {"commit"} => Pc(h) \in Early \ {"commit"}
    /\ pc # "commit"
    /\ pc \in {"hour", "tokens", "add"} /\ MaxConcurrentRuns > 0 => Pc(h) \in {"hour", "tokens", "add"}
    /\ pc \in {"tokens", "add"} /\ MaxRunsPerHour > 0 => Pc(h) \in {"tokens", "add"}
    /\ pc \in Handed => Pc(h) \in Handed \/ Pc(h) = "commit"
    /\ pc \in Handed /\ Pc(h) = "commit" => pc = "dispatch" /\ MaxConcurrentRuns = 0
    /\ pc = "dispatching" => Pc(h) = "dispatch"
    /\ pc = "dispatch" => Pc(h) = "commit"

LEMMA MoveKept ==
    ASSUME IInv, TypeOK', NEW h \in Handlers, NEW pc, Moves(h, pc), MayMove(h, pc), Passes(h, pc),
           UNCHANGED <<status, marker>>,
           pc = "rollback" \/ handler'[h].then = handler[h].then \/ Pc(h) \notin {"settle", "delete"},
           counter'["active"] = counter["active"], counter'["hour"] = counter["hour"]
    PROVE  IInv'
  <1>1. /\ \A g \in Handlers : /\ handler'[g].run = handler[g].run
                               /\ handler'[g].committed = handler[g].committed
                               /\ handler'[g].reserved = handler[g].reserved
                               /\ g # h => handler'[g].pc = handler[g].pc /\ handler'[g].then = handler[g].then
        /\ handler'[h].pc = pc
    BY DEF Moves, Only
  <1>2. RunInv'
    BY <1>1 DEF MayMove, Passes, IInv, OwnerInv, RunInv, Pc, RunOf, Early, Handlers, Handed
  <1>3. MarkerInv'
    BY <1>1 DEF MayMove, Passes, IInv, OwnerInv, MarkerInv, Pc, Early, Handlers, Handed
  <1>4. ReservedInv'
    BY <1>1 DEF MayMove, Passes, IInv, OwnerInv, ReservedInv, Pc, Handlers, BeyondActive, BeyondHour, Handed
  <1>5. MaxConcurrentRuns > 0 => PastActive' \subseteq PastActive
    BY <1>1 DEF MayMove, Passes, PastActive, Running, Active, Created, Pc, Handlers, Handed
  <1>6. MaxRunsPerHour > 0 /\ h \in Creates /\ pc \in BeyondHour => Pc(h) \in BeyondHour
    BY DEF Passes, BeyondHour, Handed
  <1> QED
    BY <1>2, <1>3, <1>4, <1>5, <1>6, MoveGood DEF MayMove

LEMMA ReceiveGood == ASSUME IInv, NEW c \in Creates, Receive(c) PROVE IInv'
  <1>1. /\ Moves(c, "check") /\ handler'[c].then = handler[c].then /\ Pc(c) = "idle" /\ c \in Handlers
        /\ UNCHANGED <<status, usage, counter, marker, faults>>
    BY GotoMoves DEF Receive, IInv, OwnerInv, PCs, At, Pc, Handlers
  <1>2. TypeOK'
    BY <1>1 DEF IInv, OwnerInv, TypeOK, Moves, Only
  <1>3. MayMove(c, "check") /\ Passes(c, "check")
    BY <1>1 DEF MayMove, Passes, Early, Handed
  <1> QED
    BY <1>1, <1>2, <1>3, MoveKept

LEMMA CheckGood == ASSUME IInv, NEW c \in Creates, Check(c) PROVE IInv'
  <1>1. PICK pc \in {"done", "active"} : Goto(c, pc)
    BY DEF Check
  <1>2. c \in Handlers /\ pc \in PCs /\ TypeOK
    BY DEF IInv, OwnerInv, PCs, Keys, Handlers
  <1>3. Moves(c, pc) /\ handler'[c].then = handler[c].then
    BY <1>1, <1>2, GotoMoves
  <1>4. Pc(c) = "check" /\ UNCHANGED <<status, usage, counter, marker>> /\ faults' \in 0..MaxFaults
    BY <1>2, LimitsAssumption DEF Check, At, Pc, Fault, TypeOK
  <1>5. TypeOK'
    BY <1>2, <1>3, <1>4 DEF TypeOK, Moves, Only
  <1>6. MayMove(c, pc) /\ Passes(c, pc)
    BY <1>1, <1>4 DEF MayMove, Passes, Early, Handed
  <1> QED
    BY <1>2, <1>3, <1>4, <1>5, <1>6, MoveKept

\* A handler becomes t.
LEMMA BecomesMoves ==
    ASSUME TypeOK, NEW h \in Handlers, NEW t \in Handler, handler' = [handler EXCEPT ![h] = t],
           t.run = handler[h].run, t.reserved = handler[h].reserved,
           t.committed = handler[h].committed, t.owed = handler[h].owed
    PROVE  Moves(h, t.pc) /\ handler'[h].then = t.then
  BY DEF TypeOK, Moves, Only

LEMMA FailRunMoves ==
    ASSUME TypeOK, NEW c \in Handlers, handler' = [handler EXCEPT ![c] = FailRun(@)]
    PROVE  Moves(c, "before")
  <1> DEFINE t == FailRun(handler[c])
  <1>1. handler[c] \in Handler
    BY DEF TypeOK
  <1>2. /\ t \in Handler /\ t.pc = "before" /\ t.run = handler[c].run /\ t.reserved = handler[c].reserved
        /\ t.committed = handler[c].committed /\ t.owed = handler[c].owed
    BY <1>1 DEF FailRun, Handler, PCs, Finished
  <1>3. handler' = [handler EXCEPT ![c] = t]
    OBVIOUS
  <1> HIDE DEF t
  <1> QED
    BY <1>2, <1>3, BecomesMoves

LEMMA HandOverGood == ASSUME IInv, NEW c \in Creates, HandOver(c) PROVE IInv'
  <1> DEFINE t == [handler[c] EXCEPT !.pc = "dispatching", !.handed = TRUE]
  <1>1. c \in Handlers /\ handler[c] \in Handler /\ TypeOK
    BY DEF IInv, OwnerInv, TypeOK, Handlers
  <1>2. /\ t \in Handler /\ t.pc = "dispatching" /\ t.run = handler[c].run
        /\ t.reserved = handler[c].reserved /\ t.committed = handler[c].committed
        /\ t.owed = handler[c].owed /\ t.then = handler[c].then
    BY <1>1 DEF Handler, PCs
  <1>3. handler' = [handler EXCEPT ![c] = t]
    BY <1>1 DEF HandOver, TypeOK
  <1>4. Moves(c, "dispatching") /\ handler'[c].then = handler[c].then
    <2> HIDE DEF t
    <2> QED
      BY <1>1, <1>2, <1>3, BecomesMoves
  <1>5. Pc(c) = "dispatch" /\ UNCHANGED <<status, usage, counter, marker, faults>>
    BY DEF HandOver, At, Pc
  <1>6. TypeOK'
    BY <1>1, <1>4, <1>5 DEF TypeOK, Moves, Only
  <1>7. MayMove(c, "dispatching") /\ Passes(c, "dispatching")
    BY <1>5 DEF MayMove, Passes, Early, Handed
  <1> QED
    BY <1>1, <1>4, <1>5, <1>6, <1>7, MoveKept

LEMMA DispatchReturnsGood == ASSUME IInv, NEW c \in Creates, DispatchReturns(c) PROVE IInv'
  <1>1. c \in Handlers /\ TypeOK
    BY DEF IInv, OwnerInv, Handlers
  <1>2. Pc(c) \in {"dispatch", "dispatching"} /\ UNCHANGED <<status, usage, counter, marker, faults>>
    BY DEF DispatchReturns, Pc
  <1>3. PICK pc \in {"accepted", "before"} :
          /\ Moves(c, pc)
          /\ pc = "accepted" => Pc(c) = "dispatching"
    <2>1. CASE At(c, "dispatching") /\ Goto(c, "accepted")
      BY <1>1, <2>1, GotoMoves DEF PCs, At, Pc
    <2>2. CASE handler' = [handler EXCEPT ![c] = FailRun(@)]
      BY <1>1, <2>2, FailRunMoves
    <2> QED
      BY <2>1, <2>2 DEF DispatchReturns
  <1>4. TypeOK'
    BY <1>1, <1>2, <1>3 DEF TypeOK, Moves, Only
  <1>5. status[RunOf(c)] # "none"
    BY <1>2 DEF IInv, OwnerInv, RunInv, RunOf
  <1>6. MayMove(c, pc) /\ Passes(c, pc)
    BY <1>2, <1>3, <1>5 DEF MayMove, Passes, Early, Handed
  <1> QED
    BY <1>1, <1>2, <1>3, <1>4, <1>6, MoveKept

LEMMA CrashGood == ASSUME IInv, NEW h \in Handlers, Crash(h) PROVE IInv'
  <1>1. TypeOK /\ Moves(h, "done") /\ handler'[h].then = handler[h].then
    BY GotoMoves DEF Crash, IInv, OwnerInv, PCs
  <1>2. Pc(h) \notin {"idle", "done"} /\ UNCHANGED <<status, usage, counter, marker>>
        /\ faults' \in 0..MaxFaults
    BY <1>1, LimitsAssumption DEF Crash, Fault, Pc, TypeOK
  <1>3. TypeOK'
    BY <1>1, <1>2 DEF TypeOK, Moves, Only
  <1> QED
    BY <1>1, <1>2, <1>3, MoveKept DEF MayMove, Passes, Early, Handed

-----------------------------------------------------------------------------
(* Finishing a run. *)

LEMMA SaveRunUsageGood == ASSUME IInv, NEW f \in Finishers, SaveRunUsage(f) PROVE IInv'
  <1>1. TypeOK /\ f \in Handlers /\ Moves(f, "before") /\ handler'[f].then = handler[f].then
    BY GotoMoves DEF SaveRunUsage, IInv, OwnerInv, PCs, Handlers
  <1>2. /\ Pc(f) = "saveUsage" /\ UNCHANGED <<status, counter, marker, faults>>
        /\ usage' = [usage EXCEPT ![RunOf(f)] = handler[f].used]
    BY DEF SaveRunUsage, At, Pc, RunOf
  <1>3. usage' \in [Creates -> Nat]
    <2>1. handler[f].used \in Nat /\ usage \in [Creates -> Nat] /\ RunOf(f) \in Creates
      BY <1>1, <1>2 DEF TypeOK, Handler, IInv, OwnerInv, RunInv
    <2> QED
      BY <1>2, <2>1
  <1>4. TypeOK'
    BY <1>1, <1>2, <1>3 DEF TypeOK, Moves, Only
  <1>5. f \notin Creates /\ status[RunOf(f)] # "none"
    BY <1>1, <1>2, RequestsAssumption DEF IInv, OwnerInv, RunInv
  <1> QED
    BY <1>1, <1>2, <1>4, <1>5, MoveKept DEF MayMove, Passes

LEMMA GetBeforeGood == ASSUME IInv, NEW h \in Handlers, GetBefore(h) PROVE IInv'
  <1>1. handler[h] \in Handler /\ TypeOK
    BY DEF IInv, OwnerInv, TypeOK
  <1>2. ASSUME NEW b \in BOOLEAN, handler' = [handler EXCEPT ![h].pc = "update", ![h].before = b]
        PROVE  Moves(h, "update") /\ handler'[h].then = handler[h].then
    <2> DEFINE t == [handler[h] EXCEPT !.pc = "update", !.before = b]
    <2>1. /\ t \in Handler /\ t.pc = "update" /\ t.run = handler[h].run
          /\ t.reserved = handler[h].reserved /\ t.committed = handler[h].committed
          /\ t.owed = handler[h].owed /\ t.then = handler[h].then
      BY <1>1 DEF Handler, PCs
    <2>2. handler' = [handler EXCEPT ![h] = t]
      BY <1>1, <1>2 DEF TypeOK
    <2> HIDE DEF t
    <2> QED
      BY <1>1, <2>1, <2>2, BecomesMoves
  <1>3. Moves(h, "update") /\ handler'[h].then = handler[h].then
    <2>1. CASE handler' = [handler EXCEPT ![h].pc = "update", ![h].before = FALSE]
      BY <1>2, <2>1
    <2>2. ASSUME handler' = [handler EXCEPT ![h].pc = "update",
                                            ![h].before = status[handler[h].run] \in Finished]
          PROVE  Moves(h, "update") /\ handler'[h].then = handler[h].then
      <3>1. (status[handler[h].run] \in Finished) \in BOOLEAN
        OBVIOUS
      <3> QED
        BY <1>2, <2>2, <3>1
    <2> QED
      BY <2>1, <2>2 DEF GetBefore
  <1>4. Pc(h) = "before" /\ UNCHANGED <<status, usage, counter, marker>> /\ faults' \in 0..MaxFaults
    BY <1>1, LimitsAssumption DEF GetBefore, At, Pc, Fault, TypeOK
  <1>5. TypeOK'
    BY <1>1, <1>3, <1>4 DEF TypeOK, Moves, Only
  <1>6. MayMove(h, "update") /\ Passes(h, "update")
    BY <1>4 DEF MayMove, Passes, Early, Handed, IInv, OwnerInv, RunInv
  <1> QED
    BY <1>3, <1>4, <1>5, <1>6, MoveKept

LEMMA ReadUsageGood == ASSUME IInv, NEW h \in Handlers, ReadUsage(h) PROVE IInv'
  <1>1. handler[h] \in Handler /\ TypeOK /\ handler[h].then \in {"rollback", "done"}
    BY DEF IInv, OwnerInv, TypeOK, Handler
  <1>2. /\ Pc(h) = "usage" /\ UNCHANGED <<status, usage, counter, marker>>
        /\ faults' \in 0..MaxFaults
    BY <1>1, LimitsAssumption DEF ReadUsage, At, Pc, Fault, TypeOK
  <1>3. PICK pc \in {"marker", handler[h].then} : Moves(h, pc) /\ handler'[h].then = handler[h].then
    <2>1. ASSUME NEW n \in Nat, handler' = [handler EXCEPT ![h].pc = "marker", ![h].used = n]
          PROVE  Moves(h, "marker") /\ handler'[h].then = handler[h].then
      <3> DEFINE t == [handler[h] EXCEPT !.pc = "marker", !.used = n]
      <3>1. /\ t \in Handler /\ t.pc = "marker" /\ t.run = handler[h].run
            /\ t.reserved = handler[h].reserved /\ t.committed = handler[h].committed
            /\ t.owed = handler[h].owed /\ t.then = handler[h].then
        BY <1>1 DEF Handler, PCs
      <3>2. handler' = [handler EXCEPT ![h] = t]
        BY <1>1, <2>1 DEF TypeOK
      <3> HIDE DEF t
      <3> QED
        BY <1>1, <3>1, <3>2, BecomesMoves
    <2>2. usage[RunOf(h)] \in Nat
      BY <1>1, <1>2 DEF IInv, OwnerInv, RunInv, TypeOK
    <2>3. CASE Goto(h, handler[h].then)
      BY <1>1, <2>3, GotoMoves DEF PCs
    <2> QED
      BY <2>1, <2>2, <2>3 DEF ReadUsage, RunOf
  <1>4. TypeOK'
    BY <1>1, <1>2, <1>3 DEF TypeOK, Moves, Only
  <1>5. MayMove(h, pc) /\ Passes(h, pc)
    BY <1>1, <1>2, <1>3 DEF MayMove, Passes, Early, Handed, IInv, OwnerInv, RunInv
  <1> QED
    BY <1>2, <1>3, <1>4, <1>5, MoveKept

\* The status of a run only changes when it is created and when it is finished.
LEMMA UpdateGood == ASSUME IInv, NEW h \in Handlers, Update(h) PROVE IInv'
  <1>1. TypeOK /\ handler[h] \in Handler /\ handler[h].then \in {"rollback", "done"}
    BY DEF IInv, OwnerInv, TypeOK, Handler
  <1>2. /\ Pc(h) = "update" /\ UNCHANGED <<usage, counter, marker>> /\ faults' \in 0..MaxFaults
    BY <1>1, LimitsAssumption DEF Update, At, Pc, Fault, TypeOK
  <1>3. PICK pc \in {"usage", handler[h].then} :
          /\ Goto(h, pc)
          /\ \/ status' = status /\ pc = handler[h].then
             \/ status' = [status EXCEPT ![RunOf(h)] = IF @ \in Finished THEN @ ELSE handler[h].wanted]
    BY DEF Update, RunOf
  <1>4. Moves(h, pc) /\ handler'[h].then = handler[h].then
    BY <1>1, <1>3, GotoMoves DEF PCs
  <1>5. RunOf(h) \in Creates /\ status[RunOf(h)] # "none"
    BY <1>2 DEF IInv, OwnerInv, RunInv
  <1>6. CASE status' = status /\ pc = handler[h].then
    <2>1. TypeOK'
      BY <1>1, <1>2, <1>4, <1>6 DEF TypeOK, Moves, Only
    <2>2. MayMove(h, pc) /\ Passes(h, pc)
      BY <1>1, <1>2, <1>6 DEF MayMove, Passes, Early, Handed
    <2> QED
      BY <1>2, <1>4, <1>6, <2>1, <2>2, MoveKept
  <1>7. CASE status' = [status EXCEPT ![RunOf(h)] = IF @ \in Finished THEN @ ELSE handler[h].wanted]
    <2>1. /\ status' \in [Creates -> {"none", "queued"} \cup Finished]
          /\ status'[RunOf(h)] \in Finished
          /\ \A c \in Creates : c # RunOf(h) => status'[c] = status[c]
          /\ \A c \in Creates : status[c] \in Finished => status'[c] \in Finished
          /\ \A c \in Creates : status'[c] = "none" <=> status[c] = "none"
      BY <1>1, <1>5, <1>7 DEF TypeOK, Handler, Finished
    <2>2. TypeOK'
      BY <1>1, <1>2, <1>4, <2>1 DEF TypeOK, Moves, Only
    <2>3. /\ \A g \in Handlers : /\ handler'[g].run = handler[g].run
                                 /\ handler'[g].committed = handler[g].committed
                                 /\ handler'[g].reserved = handler[g].reserved
                                 /\ g # h => handler'[g].pc = handler[g].pc /\ handler'[g].then = handler[g].then
          /\ handler'[h].pc = pc /\ handler'[h].then = handler[h].then
          /\ pc \in {"usage", "rollback", "done"}
      BY <1>1, <1>3, <1>4 DEF Moves, Only
    <2>4. RunInv'
      <3>1. \A c \in Creates : handler'[c].run = c
        BY <2>3 DEF IInv, OwnerInv, RunInv, RunOf, Handlers
      <3>2. ASSUME NEW g \in Handlers, handler'[g].pc # "idle"
            PROVE  /\ handler'[g].run \in Creates
                   /\ handler'[g].pc \in {"saveUsage", "before", "update"} => status'[handler'[g].run] # "none"
                   /\ handler'[g].pc \in {"usage", "marker", "delete"} => status'[handler'[g].run] \in Finished
        BY <1>2, <1>5, <2>1, <2>3, <3>2 DEF IInv, OwnerInv, RunInv, RunOf, Pc
      <3>3. \A c \in Creates : /\ handler'[c].pc \in {"commit", "dispatch", "dispatching"} => status'[c] # "none"
                               /\ handler'[c].pc \in Early \ {"commit"} => status'[c] = "none"
        BY <2>1, <2>3 DEF IInv, OwnerInv, RunInv, Pc, Early, Handlers
      <3> QED
        BY <3>1, <3>2, <3>3 DEF RunInv, RunOf, Pc
    <2>5. MarkerInv'
      BY <1>2, <2>1, <2>3 DEF IInv, OwnerInv, MarkerInv, Pc, Early, Handlers
    <2>6. ReservedInv'
      BY <1>2, <2>3 DEF IInv, OwnerInv, ReservedInv, Pc, Handlers, BeyondActive, BeyondHour, Handed
    <2>7. PastActive' \subseteq PastActive
      BY <1>2, <2>1, <2>3 DEF PastActive, Running, Active, Created, Pc, Handlers
    <2>8. pc \notin BeyondHour
      BY <2>3 DEF BeyondHour, Handed
    <2> QED
      BY <1>2, <1>4, <2>2, <2>3, <2>4, <2>5, <2>6, <2>7, <2>8, MoveGood
  <1> QED
    BY <1>3, <1>6, <1>7

\* A handler becomes t, all others stay as they are.
LEMMA Becomes ==
    ASSUME TypeOK, NEW h \in Handlers, NEW t \in Handler, handler' = [handler EXCEPT ![h] = t]
    PROVE  Only(h) /\ handler'[h] = t
  BY DEF TypeOK, Only

-----------------------------------------------------------------------------
(* Creating a run. *)

LEMMA AddUserMessageGood == ASSUME IInv, NEW c \in Creates, AddUserMessage(c) PROVE IInv'
  <1>1. c \in Handlers /\ TypeOK /\ RunOf(c) = c
    BY DEF IInv, OwnerInv, RunInv, Handlers
  <1>2. Pc(c) = "add" /\ UNCHANGED <<usage, counter, marker>> /\ faults' \in 0..MaxFaults
    BY <1>1, LimitsAssumption DEF AddUserMessage, At, Pc, Fault, TypeOK
  <1>3. CASE Goto(c, "rollback") /\ status' = status
    <2>1. Moves(c, "rollback") /\ handler'[c].then = handler[c].then
      BY <1>1, <1>3, GotoMoves DEF PCs
    <2>2. TypeOK'
      BY <1>1, <1>2, <1>3, <2>1 DEF TypeOK, Moves, Only
    <2> QED
      BY <1>1, <1>2, <1>3, <2>1, <2>2, MoveKept DEF MayMove, Passes, Early, Handed
  <1>4. CASE Goto(c, "commit") /\ status' = [status EXCEPT ![c] = "queued"]
    <2>1. Moves(c, "commit") /\ handler'[c].then = handler[c].then
      BY <1>1, <1>4, GotoMoves DEF PCs
    <2>2. /\ \A g \in Handlers : /\ handler'[g].run = handler[g].run
                                 /\ handler'[g].committed = handler[g].committed
                                 /\ handler'[g].reserved = handler[g].reserved
                                 /\ handler'[g].then = handler[g].then
                                 /\ g # c => handler'[g].pc = handler[g].pc
          /\ handler'[c].pc = "commit"
      BY <2>1 DEF Moves, Only
    <2>3. /\ status' \in [Creates -> {"none", "queued"} \cup Finished]
          /\ status'[c] = "queued" /\ status[c] = "none"
          /\ \A d \in Creates : d # c => status'[d] = status[d]
          /\ \A d \in Creates : status[d] # "none" => status'[d] = status[d]
      BY <1>1, <1>2, <1>4 DEF TypeOK, IInv, OwnerInv, RunInv, Early
    <2>4. TypeOK'
      BY <1>1, <1>2, <2>1, <2>3 DEF TypeOK, Moves, Only
    <2>5. RunInv'
      <3>1. \A d \in Creates : handler'[d].run = d
        BY <2>2 DEF IInv, OwnerInv, RunInv, RunOf, Handlers
      <3>2. ASSUME NEW g \in Handlers, handler'[g].pc # "idle"
            PROVE  /\ handler'[g].run \in Creates
                   /\ handler'[g].pc \in {"saveUsage", "before", "update"} => status'[handler'[g].run] # "none"
                   /\ handler'[g].pc \in {"usage", "marker", "delete"} => status'[handler'[g].run] \in Finished
        BY <1>1, <1>2, <2>2, <2>3, <3>2 DEF IInv, OwnerInv, RunInv, RunOf, Pc, Finished
      <3>3. \A d \in Creates : /\ handler'[d].pc \in {"commit", "dispatch", "dispatching"} => status'[d] # "none"
                               /\ handler'[d].pc \in Early \ {"commit"} => status'[d] = "none"
        BY <2>2, <2>3 DEF IInv, OwnerInv, RunInv, Pc, Early, Handlers
      <3> QED
        BY <3>1, <3>2, <3>3 DEF RunInv, RunOf, Pc
    <2>6. MarkerInv'
      BY <1>2, <2>2, <2>3 DEF IInv, OwnerInv, MarkerInv, Pc, Early, Handlers, Finished
    <2>7. ReservedInv'
      BY <1>2, <2>2 DEF IInv, OwnerInv, ReservedInv, Pc, Handlers, BeyondActive, BeyondHour, Handed
    <2>8. PastActive' \subseteq PastActive
      BY <1>2, <2>2, <2>3 DEF PastActive, Running, Active, Created, Pc, Handlers
    <2>9. Pc(c) \in BeyondHour
      BY <1>2 DEF BeyondHour
    <2> QED
      BY <1>1, <1>2, <2>1, <2>2, <2>4, <2>5, <2>6, <2>7, <2>8, <2>9, MoveGood
  <1> QED
    BY <1>3, <1>4 DEF AddUserMessage

LEMMA CommitGood == ASSUME ~Fault("reply"), IInv, NEW c \in Creates, Commit(c) PROVE IInv'
  <1> DEFINE kept == KeptByMarker(handler[c].reserved)
             t == [handler[c] EXCEPT !.pc = "dispatch", !.committed = TRUE]
  <1>1. c \in Handlers /\ TypeOK /\ RunOf(c) = c /\ handler[c] \in Handler
    BY DEF IInv, OwnerInv, RunInv, Handlers, TypeOK
  <1>2. Pc(c) = "commit" /\ UNCHANGED <<status, usage, counter>> /\ faults' \in 0..MaxFaults
    BY <1>1, LimitsAssumption DEF Commit, At, Pc, Fault, TypeOK, Redis
  <1>3. CASE kept = {} /\ Goto(c, "dispatch") /\ marker' = marker
    <2>1. Moves(c, "dispatch") /\ handler'[c].then = handler[c].then
      BY <1>1, <1>3, GotoMoves DEF PCs
    <2>2. TypeOK'
      BY <1>1, <1>2, <1>3, <2>1 DEF TypeOK, Moves, Only
    <2>3. MaxConcurrentRuns = 0
      <3>1. "active" \notin handler[c].reserved
        BY <1>3 DEF KeptByMarker
      <3>2. ~(MaxConcurrentRuns > 0)
        BY <1>2, <3>1 DEF IInv, OwnerInv, ReservedInv, BeyondActive
      <3> QED
        BY <3>2, LimitsAssumption
    <2> QED
      BY <1>1, <1>2, <1>3, <2>1, <2>2, <2>3, MoveKept DEF MayMove, Passes, Early, Handed
  <1>4. CASE handler' = [handler EXCEPT ![c] = FailRun(@)] /\ marker' = marker
    <2>1. Moves(c, "before")
      BY <1>1, <1>4, FailRunMoves
    <2>2. TypeOK'
      BY <1>1, <1>2, <1>4, <2>1 DEF TypeOK, Moves, Only
    <2>3. status[RunOf(c)] # "none"
      BY <1>1, <1>2 DEF IInv, OwnerInv, RunInv
    <2> QED
      BY <1>1, <1>2, <1>4, <2>1, <2>2, <2>3, MoveKept DEF MayMove, Passes, Early, Handed
  <1>5. CASE /\ kept # {} /\ marker' = [marker EXCEPT ![c] = kept]
             /\ handler' = [handler EXCEPT ![c].pc = "dispatch", ![c].committed = TRUE]
    <2>1. /\ t \in Handler /\ t.pc = "dispatch" /\ t.run = handler[c].run /\ t.committed = TRUE
          /\ t.reserved = handler[c].reserved /\ t.owed = handler[c].owed /\ t.then = handler[c].then
      BY <1>1 DEF Handler, PCs
    <2>2. handler' = [handler EXCEPT ![c] = t]
      BY <1>1, <1>5 DEF TypeOK
    <2>3. Only(c) /\ handler'[c] = t
      <3> HIDE DEF t
      <3> QED
        BY <1>1, <2>1, <2>2, Becomes
    <2>4. /\ \A g \in Handlers : /\ handler'[g].run = handler[g].run
                                 /\ handler'[g].owed = handler[g].owed
                                 /\ handler'[g].reserved = handler[g].reserved
                                 /\ handler'[g].then = handler[g].then
                                 /\ g # c => /\ handler'[g].pc = handler[g].pc
                                             /\ handler'[g].committed = handler[g].committed
          /\ handler'[c].pc = "dispatch" /\ handler'[c].committed
      BY <2>1, <2>3 DEF Only
    <2>5. /\ kept = handler[c].reserved \ {"hour"} /\ kept \in SUBSET (Keys \ {"hour"})
          /\ ~handler[c].committed
      BY <1>1, <1>2 DEF IInv, OwnerInv, MarkerInv, KeptByMarker, Handler, Early
    <2>6. /\ marker' \in [Creates -> SUBSET (Keys \ {"hour"})]
          /\ marker'[c] = handler[c].reserved \ {"hour"} /\ marker'[c] # {}
          /\ \A d \in Creates : d # c => marker'[d] = marker[d]
      BY <1>1, <1>5, <2>5 DEF TypeOK
    <2>7. TypeOK'
      BY <1>1, <1>2, <2>3, <2>6 DEF TypeOK, Only
    <2> HIDE DEF t, kept
    <2>8. RunInv'
      BY <1>2, <2>4 DEF IInv, OwnerInv, RunInv, Pc, RunOf, Early, Handlers
    <2>9. MarkerInv'
      BY <1>2, <2>4, <2>6 DEF IInv, OwnerInv, MarkerInv, Pc, Early, Handlers
    <2>10. ReservedInv'
      BY <1>2, <2>4 DEF IInv, OwnerInv, ReservedInv, Pc, Handlers, BeyondActive, BeyondHour, Handed
    <2>11. \A g \in Handlers :
            /\ NextOwes(g) => OwesActive(g) /\ RunOf(g) \in Creates \ {c}
            /\ handler'[g].pc = "delete" => Pc(g) = "delete" /\ RunOf(g) \in Creates \ {c}
            /\ handler'[g].pc = "settle" => Pc(g) = "settle"
      <3>1. \A g \in Handlers :
              /\ NextOwes(g) => OwesActive(g)
              /\ handler'[g].pc \in {"delete", "settle"} => Pc(g) = handler'[g].pc
        BY <2>4 DEF NextOwes, OwesActive, Pc
      <3>2. \A g \in Handlers : OwesActive(g) => RunOf(g) \in Creates \ {c}
        <4> SUFFICES ASSUME NEW g \in Handlers, OwesActive(g) PROVE RunOf(g) \in Creates \ {c}
          OBVIOUS
        <4>1. Pc(g) = "settle" /\ g # c
          BY <1>2 DEF OwesActive
        <4>2. RunOf(g) \in Creates
          BY <4>1 DEF IInv, OwnerInv, RunInv
        <4>3. handler[RunOf(g)].committed \/ g = RunOf(g)
          BY DEF IInv, OwnerInv, OwedInv
        <4> QED
          BY <2>5, <4>1, <4>2, <4>3
      <3>3. \A g \in Handlers : Pc(g) = "delete" => RunOf(g) \in Creates \ {c}
        BY <2>5 DEF IInv, OwnerInv, RunInv, OwedInv
      <3> QED
        BY <3>1, <3>2, <3>3
    <2>12. OwedInv'
      <3>1. \A g \in Handlers : NextOwes(g) =>
              marker'[RunOf(g)] = {} /\ (handler'[RunOf(g)].committed \/ g = RunOf(g))
        <4> SUFFICES ASSUME NEW g \in Handlers, NextOwes(g)
                     PROVE  marker'[RunOf(g)] = {} /\ (handler'[RunOf(g)].committed \/ g = RunOf(g))
          OBVIOUS
        <4>1. OwesActive(g) /\ RunOf(g) \in Creates /\ RunOf(g) # c /\ RunOf(g) \in Handlers
          BY <2>11 DEF Handlers
        <4>2. marker[RunOf(g)] = {} /\ (handler[RunOf(g)].committed \/ g = RunOf(g))
          BY <4>1 DEF IInv, OwnerInv, OwedInv
        <4>3. marker'[RunOf(g)] = marker[RunOf(g)]
              /\ handler'[RunOf(g)].committed = handler[RunOf(g)].committed
          BY <2>4, <2>6, <4>1
        <4> QED
          BY <4>2, <4>3
      <3>2. \A g \in Handlers : handler'[g].pc = "delete" =>
              "hour" \notin handler'[g].owed /\ handler'[RunOf(g)].committed
              /\ marker'[RunOf(g)] \in {{}, handler'[g].owed}
        BY <2>4, <2>6, <2>11 DEF IInv, OwnerInv, OwedInv, Handlers
      <3>3. \A g \in Handlers : handler'[g].pc = "settle" /\ "hour" \in handler'[g].owed =>
              g \in Creates /\ handler'[g].then = "done" /\ "hour" \in handler'[g].reserved
        BY <2>4, <2>11 DEF IInv, OwnerInv, OwedInv
      <3>4. \A f, g \in Handlers : RunOf(f) = RunOf(g) /\ NextOwes(f) /\ NextOwes(g) => f = g
        BY <2>11 DEF IInv, OwnerInv, OwedInv
      <3>5. \A g \in Handlers : handler'[g].run = RunOf(g)
        BY <2>4 DEF RunOf
      <3> QED
        BY <3>1, <3>2, <3>3, <3>4, <3>5 DEF OwedInv, OwesActive, NextOwes, Pc, RunOf
    <2>13. Holding("active")' \subseteq Holding("active")
      <3> SUFFICES ASSUME NEW d \in Holding("active")' PROVE d \in Holding("active")
        OBVIOUS
      <3>1. d \in Creates /\ d \in Handlers
        BY DEF Holding, Handlers
      <3>2. CASE d = c
        <4>1. "active" \in handler[c].reserved
          BY <2>4, <2>6, <2>11, <3>2 DEF Holding, At, NextOwes, RunOf
        <4> QED
          BY <1>2, <2>5, <3>1, <3>2, <4>1 DEF Holding, Pc
      <3>3. ASSUME NEW g \in Handlers, handler'[g].run = d, NextOwes(g) PROVE d \in Holding("active")
        BY <2>4, <2>11, <3>1, <3>3 DEF Holding, At, OwesActive, Pc
      <3>4. CASE d # c /\ "active" \in marker'[d]
        BY <2>6, <3>1, <3>4 DEF Holding
      <3>5. CASE d # c /\ "active" \in handler'[d].reserved /\ ~handler'[d].committed
                 /\ handler'[d].pc \notin {"settle", "done"}
        BY <2>4, <3>1, <3>5 DEF Holding
      <3> QED
        BY <3>2, <3>3, <3>4, <3>5 DEF Holding, At, NextOwes
    <2>14. HourHolding' \subseteq HourHolding
      BY <1>2, <2>4 DEF HourHolding, Pc, Handlers
    <2>15. PastActive' \subseteq PastActive
      BY <1>2, <2>4, <2>6 DEF PastActive, Running, Active, Created, Pc, Handlers
    <2>16. PastHour' \subseteq PastHour
      BY <1>2, <2>4 DEF PastHour, BeyondHour, Handed, Pc, Handlers
    <2>17. counter'["active"] >= counter["active"] /\ counter'["hour"] >= counter["hour"]
      BY <1>1, <1>2 DEF TypeOK, Keys
    <2>18. CountInv'
      BY <2>7, <2>13, <2>14, <2>15, <2>16, <2>17, QuietCounts
    <2> QED
      BY <2>7, <2>8, <2>9, <2>10, <2>12, <2>18 DEF IInv, OwnerInv
  <1> QED
    <2> HIDE DEF t
    <2> QED
      BY <1>3, <1>4, <1>5 DEF Commit, Redis, Fault

\* The create pays back t.owed: what it has reserved, if it never wrote the marker or has
\* removed it.
LEMMA RollbackPays ==
    ASSUME IInv, TypeOK', NEW c \in Creates, Pc(c) = "rollback", UNCHANGED <<status, usage, counter>>,
           NEW t \in Handler, handler' = [handler EXCEPT ![c] = t], t.pc = "settle",
           t.run = handler[c].run, t.committed = handler[c].committed,
           t.reserved = handler[c].reserved, t.owed \subseteq t.reserved, t.then = "done",
           \/ marker' = [marker EXCEPT ![c] = {}]
           \/ marker' = marker,
           "active" \in t.owed =>
             marker'[c] = {} /\ (~handler[c].committed \/ marker[c] # {})
    PROVE  IInv'
  <1>1. c \in Handlers /\ TypeOK /\ RunOf(c) = c
    BY DEF IInv, OwnerInv, RunInv, Handlers, TypeOK
  <1>2. Only(c) /\ handler'[c] = t
    BY <1>1, Becomes
  <1>3. /\ \A g \in Handlers : /\ handler'[g].run = handler[g].run
                               /\ handler'[g].committed = handler[g].committed
                               /\ handler'[g].reserved = handler[g].reserved
                               /\ g # c => handler'[g] = handler[g]
        /\ handler'[c].pc = "settle" /\ handler'[c].owed = t.owed /\ handler'[c].then = "done"
    BY <1>2 DEF Only
  <1>4. \A d \in Creates : marker'[d] = marker[d] \/ (d = c /\ marker'[d] = {})
    BY <1>1 DEF TypeOK
  <1>5. "active" \in t.owed => marker'[c] = {} /\ (~handler[c].committed \/ marker[c] # {})
    OBVIOUS
  <1>6. RunInv'
    BY <1>3 DEF IInv, OwnerInv, RunInv, Pc, RunOf, Early, Handlers
  <1>7. MarkerInv'
    BY <1>3, <1>4 DEF IInv, OwnerInv, MarkerInv, Pc, Early, Handlers
  <1>8. ReservedInv'
    BY <1>3 DEF IInv, OwnerInv, ReservedInv, Pc, Handlers, BeyondActive, BeyondHour, Handed
  <1>9. OwedInv'
    <2>1. \A g \in Handlers : NextOwes(g) /\ g # c => OwesActive(g) /\ RunOf(g) \in Creates
      BY <1>3 DEF IInv, OwnerInv, RunInv, OwesActive, NextOwes, Pc
    <2>2. \A g \in Handlers : NextOwes(g) =>
            marker'[RunOf(g)] = {} /\ (handler'[RunOf(g)].committed \/ g = RunOf(g))
      <3> SUFFICES ASSUME NEW g \in Handlers, NextOwes(g)
                   PROVE  marker'[RunOf(g)] = {} /\ (handler'[RunOf(g)].committed \/ g = RunOf(g))
        OBVIOUS
      <3>1. CASE g = c
        BY <1>1, <1>3, <1>5, <3>1 DEF NextOwes
      <3>2. CASE g # c
        <4>1. OwesActive(g) /\ RunOf(g) \in Creates /\ RunOf(g) \in Handlers
          BY <2>1, <3>2 DEF Handlers
        <4>2. marker[RunOf(g)] = {} /\ (handler[RunOf(g)].committed \/ g = RunOf(g))
          BY <4>1 DEF IInv, OwnerInv, OwedInv
        <4> QED
          BY <1>3, <1>4, <4>1, <4>2
      <3> QED
        BY <3>1, <3>2
    <2>3. \A g \in Handlers : handler'[g].pc = "delete" =>
            "hour" \notin handler'[g].owed /\ handler'[RunOf(g)].committed
            /\ marker'[RunOf(g)] \in {{}, handler'[g].owed}
      <3> SUFFICES ASSUME NEW g \in Handlers, handler'[g].pc = "delete"
                   PROVE  "hour" \notin handler'[g].owed /\ handler'[RunOf(g)].committed
                          /\ marker'[RunOf(g)] \in {{}, handler'[g].owed}
        OBVIOUS
      <3>1. Pc(g) = "delete" /\ handler'[g].owed = handler[g].owed
        BY <1>3 DEF Pc
      <3>2. RunOf(g) \in Creates /\ RunOf(g) \in Handlers
        BY <3>1 DEF IInv, OwnerInv, RunInv, Handlers
      <3> QED
        BY <1>3, <1>4, <3>1, <3>2 DEF IInv, OwnerInv, OwedInv
    <2>4. \A g \in Handlers : handler'[g].pc = "settle" /\ "hour" \in handler'[g].owed =>
            g \in Creates /\ handler'[g].then = "done" /\ "hour" \in handler'[g].reserved
      BY <1>3 DEF IInv, OwnerInv, OwedInv, Pc
    <2>5. \A f, g \in Handlers : RunOf(f) = RunOf(g) /\ NextOwes(f) /\ NextOwes(g) => f = g
      <3>1. ASSUME NEW g \in Handlers, g # c, NextOwes(g), NextOwes(c), RunOf(g) = c PROVE FALSE
        <4>1. marker[c] = {} /\ handler[c].committed
          BY <2>1, <3>1 DEF IInv, OwnerInv, OwedInv
        <4> QED
          BY <1>3, <1>5, <3>1, <4>1 DEF NextOwes
      <3> QED
        BY <1>1, <2>1, <3>1 DEF IInv, OwnerInv, OwedInv
    <2>6. \A g \in Handlers : handler'[g].run = RunOf(g)
      BY <1>3 DEF RunOf
    <2> QED
      BY <2>2, <2>3, <2>4, <2>5, <2>6 DEF OwedInv, OwesActive, NextOwes, Pc, RunOf
  <1>10. Holding("active")' \subseteq Holding("active")
    <2> SUFFICES ASSUME NEW d \in Holding("active")' PROVE d \in Holding("active")
      OBVIOUS
    <2>1. d \in Creates /\ d \in Handlers
      BY DEF Holding, Handlers
    <2>2. CASE "active" \in marker'[d]
      BY <1>4, <2>1, <2>2 DEF Holding
    <2>3. ASSUME NEW g \in Handlers, handler'[g].run = d, NextOwes(g), g # c
          PROVE  d \in Holding("active")
      BY <1>3, <2>1, <2>3 DEF Holding, At, NextOwes
    <2>4. CASE d = c /\ NextOwes(c)
      <3>1. CASE ~handler[c].committed
        BY <1>3, <2>1, <2>4, <3>1 DEF Holding, Pc, NextOwes
      <3>2. CASE handler[c].committed
        BY <1>3, <1>5, <2>4, <3>2 DEF Holding, NextOwes, IInv, OwnerInv, MarkerInv
      <3> QED
        BY <3>1, <3>2
    <2>5. CASE "active" \in handler'[d].reserved /\ ~handler'[d].committed
               /\ handler'[d].pc \notin {"settle", "done"}
      BY <1>3, <2>1, <2>5 DEF Holding
    <2> QED
      BY <1>1, <1>3, <2>2, <2>3, <2>4, <2>5 DEF Holding, At, NextOwes, RunOf
  <1>11. HourHolding' \subseteq HourHolding
    BY <1>3 DEF HourHolding, Pc, Handlers
  <1>12. PastActive' \subseteq PastActive
    BY <1>3, <1>4 DEF PastActive, Running, Active, Created, Pc, Handlers
  <1>13. PastHour' \subseteq PastHour
    BY <1>3 DEF PastHour, BeyondHour, Handed, Pc, Handlers
  <1>14. counter'["active"] >= counter["active"] /\ counter'["hour"] >= counter["hour"]
    BY <1>1 DEF TypeOK, Keys
  <1>15. CountInv'
    BY <1>10, <1>11, <1>12, <1>13, <1>14, QuietCounts
  <1> QED
    BY <1>6, <1>7, <1>8, <1>9, <1>15 DEF IInv, OwnerInv
LEMMA RollbackGood == ASSUME ~Fault("reply"), IInv, NEW c \in Creates, Rollback(c) PROVE IInv'
  <1> DEFINE r == handler[c].reserved
             t(owed) == [handler[c] EXCEPT !.pc = "settle", !.owed = owed, !.used = 0, !.then = "done"]
  <1>1. c \in Handlers /\ TypeOK /\ handler[c] \in Handler
    BY DEF IInv, OwnerInv, Handlers, TypeOK
  <1>2. Pc(c) = "rollback" /\ UNCHANGED <<status, usage, counter>> /\ faults' \in 0..MaxFaults
    BY <1>1, LimitsAssumption DEF Rollback, At, Pc, Fault, TypeOK, Redis
  <1>3. ASSUME NEW owed \in SUBSET r, handler' = [handler EXCEPT ![c] = t(owed)],
               \/ marker' = [marker EXCEPT ![c] = {}]
               \/ marker' = marker,
               "active" \in owed => marker'[c] = {} /\ (~handler[c].committed \/ marker[c] # {})
        PROVE  IInv'
    <2>1. /\ t(owed) \in Handler /\ t(owed).pc = "settle" /\ t(owed).run = handler[c].run
          /\ t(owed).committed = handler[c].committed /\ t(owed).reserved = handler[c].reserved
          /\ t(owed).owed = owed /\ t(owed).then = "done"
      <3>1. owed \in SUBSET Keys
        BY <1>1 DEF Handler
      <3> QED
        BY <1>1, <3>1 DEF Handler, PCs
    <2>2. marker' \in [Creates -> SUBSET (Keys \ {"hour"})]
      BY <1>1, <1>3 DEF TypeOK
    <2> HIDE DEF t
    <2>3. TypeOK'
      BY <1>1, <1>2, <1>3, <2>1, <2>2 DEF TypeOK
    <2> QED
      BY <1>2, <1>3, <2>1, <2>3, RollbackPays
  <1>4. CASE ~handler[c].committed /\ handler' = [handler EXCEPT ![c] = t(r)] /\ marker' = marker
    <2>1. marker[c] = {}
      BY <1>4 DEF IInv, OwnerInv, MarkerInv
    <2> HIDE DEF t
    <2> QED
      BY <1>3, <1>4, <2>1
  <1>5. CASE /\ marker[c] # {} /\ marker' = [marker EXCEPT ![c] = {}]
             /\ handler' = [handler EXCEPT ![c] = t(r)]
    <2>1. marker'[c] = {}
      BY <1>1, <1>5 DEF TypeOK
    <2> HIDE DEF t
    <2> QED
      BY <1>3, <1>5, <2>1
  <1>6. CASE /\ handler' = [handler EXCEPT ![c] = t(r \cap {"hour"})]
             /\ marker' = [marker EXCEPT ![c] = {}] \/ marker' = marker
    <2>1. r \cap {"hour"} \in SUBSET r /\ "active" \notin r \cap {"hour"}
      OBVIOUS
    <2> HIDE DEF t
    <2> QED
      BY <1>3, <1>6, <2>1
  <1> QED
    BY <1>4, <1>5, <1>6 DEF Rollback, Redis, Fault, OwedByRollback

-----------------------------------------------------------------------------
\* A finisher takes up a run.
LEMMA FinishTakes ==
    ASSUME IInv, NEW f \in Finishers, Pc(f) = "idle", UNCHANGED <<status, usage, counter, marker, faults>>,
           NEW t \in Handler, handler' = [handler EXCEPT ![f] = t], t.pc \in {"saveUsage", "before"},
           t.run \in Creates, status[t.run] # "none"
    PROVE  IInv'
  <1>1. f \in Handlers /\ f \notin Creates /\ TypeOK
    BY RequestsAssumption DEF IInv, OwnerInv, Handlers
  <1>2. Only(f) /\ handler'[f] = t
    BY <1>1, Becomes
  <1>3. (\A g \in Handlers \ {f} : handler'[g] = handler[g]) /\ (\A c \in Creates : handler'[c] = handler[c])
    BY <1>1, <1>2 DEF Only, Handlers
  <1>4. TypeOK'
    BY <1>1, <1>2 DEF TypeOK, Only
  <1>5. RunInv'
    BY <1>1, <1>2, <1>3 DEF IInv, OwnerInv, RunInv, Pc, RunOf
  <1>6. MarkerInv' /\ ReservedInv'
    BY <1>3 DEF IInv, OwnerInv, MarkerInv, ReservedInv, Pc
  <1>7. \A g \in Handlers : handler'[g].pc \in {"delete", "settle"} =>
          /\ g # f /\ handler'[g] = handler[g] /\ RunOf(g) \in Creates
          /\ handler'[RunOf(g)] = handler[RunOf(g)] /\ RunOf(g) \in Handlers
    <2> SUFFICES ASSUME NEW g \in Handlers, handler'[g].pc \in {"delete", "settle"}
                 PROVE  /\ g # f /\ handler'[g] = handler[g] /\ RunOf(g) \in Creates
                        /\ handler'[RunOf(g)] = handler[RunOf(g)] /\ RunOf(g) \in Handlers
      OBVIOUS
    <2>1. g # f /\ handler'[g] = handler[g]
      BY <1>2, <1>3
    <2>2. RunOf(g) \in Creates
      BY <2>1 DEF IInv, OwnerInv, RunInv, Pc
    <2> QED
      BY <1>3, <2>1, <2>2 DEF Handlers
  <1>8. \A g \in Handlers : NextOwes(g) => OwesActive(g) /\ handler'[g].pc = "settle"
    BY <1>7 DEF NextOwes, OwesActive, Pc
  <1>9. OwedInv'
    <2>1. \A g \in Handlers : NextOwes(g) =>
            marker'[handler'[g].run] = {} /\ (handler'[handler'[g].run].committed \/ g = handler'[g].run)
      BY <1>7, <1>8 DEF IInv, OwnerInv, OwedInv, RunOf
    <2>2. \A g \in Handlers : handler'[g].pc = "delete" =>
            "hour" \notin handler'[g].owed /\ handler'[handler'[g].run].committed
            /\ marker'[handler'[g].run] \in {{}, handler'[g].owed}
      BY <1>7 DEF IInv, OwnerInv, OwedInv, RunOf, Pc
    <2>3. \A g \in Handlers : handler'[g].pc = "settle" /\ "hour" \in handler'[g].owed =>
            g \in Creates /\ handler'[g].then = "done" /\ "hour" \in handler'[g].reserved
      BY <1>7 DEF IInv, OwnerInv, OwedInv, Pc
    <2>4. \A d, g \in Handlers :
            handler'[d].run = handler'[g].run /\ NextOwes(d) /\ NextOwes(g) => d = g
      BY <1>7, <1>8 DEF IInv, OwnerInv, OwedInv, RunOf
    <2> QED
      BY <2>1, <2>2, <2>3, <2>4 DEF OwedInv, OwesActive, NextOwes, Pc, RunOf
  <1>10. Holding("active")' \subseteq Holding("active")
    <2> SUFFICES ASSUME NEW d \in Holding("active")' PROVE d \in Holding("active")
      OBVIOUS
    <2>1. d \in Creates
      BY DEF Holding
    <2>2. ASSUME NEW g \in Handlers, handler'[g].run = d, NextOwes(g) PROVE d \in Holding("active")
      BY <1>7, <2>1, <2>2 DEF Holding, At, NextOwes
    <2> QED
      BY <1>3, <2>1, <2>2 DEF Holding, At, NextOwes
  <1>11. /\ HourHolding' \subseteq HourHolding /\ PastActive' \subseteq PastActive
         /\ PastHour' \subseteq PastHour
    BY <1>3 DEF HourHolding, PastActive, Running, Active, Created, PastHour, Pc
  <1>12. counter'["active"] >= counter["active"] /\ counter'["hour"] >= counter["hour"]
    BY <1>1 DEF TypeOK, Keys
  <1>13. CountInv'
    BY <1>4, <1>10, <1>11, <1>12, QuietCounts
  <1> QED
    BY <1>4, <1>5, <1>6, <1>9, <1>13 DEF IInv, OwnerInv

LEMMA FinishGood == ASSUME IInv, NEW f \in Finishers, Finish(f) PROVE IInv'
  <1> DEFINE t(pc, run, wanted, used) ==
               [handler[f] EXCEPT !.pc = pc, !.run = run, !.wanted = wanted, !.used = used]
  <1>1. f \in Handlers /\ handler \in [Handlers -> Handler] /\ handler[f] \in Handler
    BY DEF IInv, OwnerInv, TypeOK, Handlers
  <1>2. Pc(f) = "idle" /\ UNCHANGED <<status, usage, counter, marker, faults>>
    BY DEF Finish, At, Pc
  <1>3. ASSUME NEW pc \in {"saveUsage", "before"}, NEW run \in Creates, NEW wanted \in Finished,
               NEW used \in Nat, status[run] # "none",
               handler' = [handler EXCEPT ![f] = t(pc, run, wanted, used)]
        PROVE  IInv'
    <2>1. /\ t(pc, run, wanted, used) \in Handler /\ t(pc, run, wanted, used).pc = pc
          /\ t(pc, run, wanted, used).run = run
      BY <1>1 DEF Handler, PCs, Handlers
    <2> HIDE DEF t
    <2> QED
      BY <1>2, <1>3, <2>1, FinishTakes
  <1>4. PICK run \in Creates :
          /\ status[run] # "none"
          /\ \/ \E tokens \in TokenUsages :
                  handler' = [handler EXCEPT ![f] = t("saveUsage", run, "succeeded", tokens)]
             \/ handler' = [handler EXCEPT ![f] = t("before", run, "canceled", 0)]
    BY DEF Finish
  <1> HIDE DEF t
  <1>5. CASE handler' = [handler EXCEPT ![f] = t("before", run, "canceled", 0)]
    BY <1>3, <1>4, <1>5 DEF Finished
  <1>6. ASSUME NEW tokens \in TokenUsages,
               handler' = [handler EXCEPT ![f] = t("saveUsage", run, "succeeded", tokens)]
        PROVE  IInv'
    BY <1>3, <1>4, <1>6, LimitsAssumption DEF Finished
  <1> QED
    BY <1>4, <1>5, <1>6

\* OwedInv of the next state, by the runs of this one.
LEMMA OwedNext ==
    ASSUME \A g \in Handlers : handler'[g].run = RunOf(g),
           \A g \in Handlers : NextOwes(g) =>
             marker'[RunOf(g)] = {} /\ (handler'[RunOf(g)].committed \/ g = RunOf(g)),
           \A g \in Handlers : handler'[g].pc = "delete" =>
             "hour" \notin handler'[g].owed /\ handler'[RunOf(g)].committed
             /\ marker'[RunOf(g)] \in {{}, handler'[g].owed},
           \A g \in Handlers : handler'[g].pc = "settle" /\ "hour" \in handler'[g].owed =>
             g \in Creates /\ handler'[g].then = "done" /\ "hour" \in handler'[g].reserved,
           \A f, g \in Handlers : RunOf(f) = RunOf(g) /\ NextOwes(f) /\ NextOwes(g) => f = g
    PROVE  OwedInv'
  BY DEF OwedInv, OwesActive, NextOwes, Pc, RunOf

\* The handlers that pay back, and their runs, while handler h becomes t.
LEMMA OwedKept ==
    ASSUME IInv, NEW h \in Handlers, NEW t \in Handler, handler' = [handler EXCEPT ![h] = t],
           t.run = handler[h].run, t.committed = handler[h].committed,
           t.reserved = handler[h].reserved, Pc(h) # "idle",
           \A d \in Creates : marker'[d] = marker[d] \/ marker'[d] = {},
           t.pc = "delete" =>
             /\ "hour" \notin t.owed /\ handler[RunOf(h)].committed
             /\ marker'[RunOf(h)] \in {{}, t.owed},
           t.pc = "settle" /\ "active" \in t.owed =>
             /\ marker'[RunOf(h)] = {} /\ (handler[RunOf(h)].committed \/ h = RunOf(h))
             /\ OwesActive(h) \/ marker[RunOf(h)] # {},
           t.pc = "settle" /\ "hour" \in t.owed =>
             h \in Creates /\ t.then = "done" /\ "hour" \in t.reserved
    PROVE  OwedInv'
  <1>1. Only(h) /\ handler'[h] = t
    BY Becomes DEF IInv, OwnerInv
  <1>2. /\ \A g \in Handlers : /\ handler'[g].run = RunOf(g)
                               /\ handler'[g].committed = handler[g].committed
                               /\ g # h => handler'[g] = handler[g]
        /\ \A g \in Handlers : Pc(g) # "idle" => RunOf(g) \in Creates /\ RunOf(g) \in Handlers
    BY <1>1 DEF Only, RunOf, Handlers, IInv, OwnerInv, RunInv
  <1>3. \A g \in Handlers : g # h /\ NextOwes(g) => OwesActive(g) /\ Pc(g) # "idle"
    BY <1>2 DEF NextOwes, OwesActive, Pc
  <1>4. \A g \in Handlers : NextOwes(g) =>
          marker'[RunOf(g)] = {} /\ (handler'[RunOf(g)].committed \/ g = RunOf(g))
    <2> SUFFICES ASSUME NEW g \in Handlers, NextOwes(g)
                 PROVE  marker'[RunOf(g)] = {} /\ (handler'[RunOf(g)].committed \/ g = RunOf(g))
      OBVIOUS
    <2>1. CASE g = h
      BY <1>1, <1>2, <2>1 DEF NextOwes
    <2>2. CASE g # h
      <3>1. /\ marker[RunOf(g)] = {} /\ (handler[RunOf(g)].committed \/ g = RunOf(g))
            /\ RunOf(g) \in Creates /\ RunOf(g) \in Handlers
        BY <1>2, <1>3, <2>2 DEF IInv, OwnerInv, OwedInv
      <3> QED
        BY <1>2, <3>1
    <2> QED
      BY <2>1, <2>2
  <1>5. \A g \in Handlers : handler'[g].pc = "delete" =>
          "hour" \notin handler'[g].owed /\ handler'[RunOf(g)].committed
          /\ marker'[RunOf(g)] \in {{}, handler'[g].owed}
    <2> SUFFICES ASSUME NEW g \in Handlers, handler'[g].pc = "delete"
                 PROVE  "hour" \notin handler'[g].owed /\ handler'[RunOf(g)].committed
                        /\ marker'[RunOf(g)] \in {{}, handler'[g].owed}
      OBVIOUS
    <2>1. CASE g = h
      BY <1>1, <1>2, <2>1
    <2>2. CASE g # h
      <3>1. Pc(g) = "delete" /\ handler'[g] = handler[g]
        BY <1>2, <2>2 DEF Pc
      <3> QED
        BY <1>2, <3>1 DEF IInv, OwnerInv, OwedInv
    <2> QED
      BY <2>1, <2>2
  <1>6. \A g \in Handlers : handler'[g].pc = "settle" /\ "hour" \in handler'[g].owed =>
          g \in Creates /\ handler'[g].then = "done" /\ "hour" \in handler'[g].reserved
    BY <1>1, <1>2 DEF IInv, OwnerInv, OwedInv, Pc
  <1>7. \A f, g \in Handlers : RunOf(f) = RunOf(g) /\ NextOwes(f) /\ NextOwes(g) => f = g
    <2>1. ASSUME NEW g \in Handlers, g # h, NextOwes(g), NextOwes(h), RunOf(g) = RunOf(h) PROVE FALSE
      <3>1. OwesActive(g) /\ marker[RunOf(g)] = {}
        BY <1>3, <2>1 DEF IInv, OwnerInv, OwedInv
      <3>2. OwesActive(h)
        BY <1>1, <2>1, <3>1 DEF NextOwes
      <3> QED
        BY <2>1, <3>1, <3>2 DEF IInv, OwnerInv, OwedInv
    <2>2. ASSUME NEW f \in Handlers, NEW g \in Handlers, f # h, g # h,
                 RunOf(f) = RunOf(g), NextOwes(f), NextOwes(g)
          PROVE  f = g
      BY <1>3, <2>2 DEF IInv, OwnerInv, OwedInv
    <2> QED
      BY <2>1, <2>2
  <1>8. \A g \in Handlers : handler'[g].run = RunOf(g)
    BY <1>2
  <1> QED
    BY <1>4, <1>5, <1>6, <1>7, <1>8, OwedNext

\* A finisher, or a create that is failing its run, goes on to pay back what the marker
\* stood for.
LEMMA PaysMarker ==
    ASSUME IInv, TypeOK', NEW h \in Handlers, NEW t \in Handler, handler' = [handler EXCEPT ![h] = t],
           t.run = handler[h].run, t.committed = handler[h].committed,
           t.reserved = handler[h].reserved, t.then = handler[h].then,
           UNCHANGED <<status, usage, counter>>,
           Pc(h) \in {"marker", "delete"}, t.pc \in {"delete", "settle", "done", "rollback"},
           t.pc \in {"done", "rollback"} => t.pc = t.then,
           t.pc \in {"delete", "settle"} =>
             /\ marker[RunOf(h)] # {} /\ t.owed = marker[RunOf(h)]
             /\ t.pc = "settle" => marker'[RunOf(h)] = {},
           \/ marker' = [marker EXCEPT ![RunOf(h)] = {}]
           \/ marker' = marker
    PROVE  IInv'
  <1>1. /\ TypeOK /\ RunOf(h) \in Creates /\ status[RunOf(h)] \in Finished
        /\ \A c \in Creates : RunOf(c) = c
    BY DEF IInv, OwnerInv, RunInv
  <1>2. Only(h) /\ handler'[h] = t
    BY <1>1, Becomes
  <1>3. /\ \A g \in Handlers : /\ handler'[g].run = handler[g].run
                               /\ handler'[g].committed = handler[g].committed
                               /\ handler'[g].reserved = handler[g].reserved
                               /\ handler'[g].then = handler[g].then
                               /\ g # h => handler'[g] = handler[g]
        /\ handler'[h].pc = t.pc /\ handler'[h].owed = t.owed
    BY <1>2 DEF Only
  <1>4. \A d \in Creates : marker'[d] = marker[d] \/ (d = RunOf(h) /\ marker'[d] = {})
    BY <1>1 DEF TypeOK
  <1>5. marker[RunOf(h)] # {} => /\ handler[RunOf(h)].committed /\ "hour" \notin marker[RunOf(h)]
                                 /\ marker[RunOf(h)] = handler[RunOf(h)].reserved \ {"hour"}
    BY <1>1 DEF IInv, OwnerInv, MarkerInv
  <1>6. RunInv'
    BY <1>1, <1>3 DEF IInv, OwnerInv, RunInv, Pc, RunOf, Early, Handlers
  <1>7. MarkerInv'
    <2>1. h \in Creates /\ t.pc \in {"delete", "settle"} => handler[h].committed
      BY <1>1, <1>5
    <2>2. \A d \in Creates : marker'[d] # {} => marker'[d] = marker[d]
      BY <1>4
    <2>3. \A d \in Creates : handler'[d].committed /\ marker'[d] = {} =>
            \/ status[d] \in Finished \/ handler'[d].pc = "done"
            \/ handler'[d].pc = "settle" /\ handler'[d].then = "done"
      <3> SUFFICES ASSUME NEW d \in Creates, handler'[d].committed, marker'[d] = {},
                          d # RunOf(h)
                   PROVE  \/ status[d] \in Finished \/ handler'[d].pc = "done"
                          \/ handler'[d].pc = "settle" /\ handler'[d].then = "done"
        BY <1>1
      <3>1. d # h /\ handler'[d] = handler[d] /\ marker[d] = {} /\ handler[d].committed
        BY <1>1, <1>3, <1>4 DEF Handlers
      <3> QED
        BY <3>1 DEF IInv, OwnerInv, MarkerInv, Pc
    <2> QED
      BY <1>3, <2>1, <2>2, <2>3 DEF IInv, OwnerInv, MarkerInv, Pc, Early, Handlers
  <1>8. ReservedInv'
    BY <1>3 DEF IInv, OwnerInv, ReservedInv, Pc, Handlers, BeyondActive, BeyondHour, Handed
  <1>9. OwedInv'
    <2>1. t.pc = "delete" =>
            /\ "hour" \notin t.owed /\ handler[RunOf(h)].committed
            /\ marker'[RunOf(h)] \in {{}, t.owed}
      BY <1>1, <1>4, <1>5
    <2>2. t.pc = "settle" /\ "active" \in t.owed =>
            /\ marker'[RunOf(h)] = {} /\ (handler[RunOf(h)].committed \/ h = RunOf(h))
            /\ OwesActive(h) \/ marker[RunOf(h)] # {}
      BY <1>5
    <2>3. ~(t.pc = "settle" /\ "hour" \in t.owed)
      BY <1>5
    <2>4. Pc(h) # "idle" /\ \A d \in Creates : marker'[d] = marker[d] \/ marker'[d] = {}
      BY <1>4
    <2> QED
      BY <2>1, <2>2, <2>3, <2>4, OwedKept
  <1>10. Holding("active")' \subseteq Holding("active")
    <2> SUFFICES ASSUME NEW d \in Holding("active")' PROVE d \in Holding("active")
      OBVIOUS
    <2>1. d \in Creates /\ d \in Handlers
      BY DEF Holding, Handlers
    <2>2. CASE "active" \in marker'[d]
      BY <1>4, <2>1, <2>2 DEF Holding
    <2>3. ASSUME NEW g \in Handlers, handler'[g].run = d, NextOwes(g), g # h
          PROVE  d \in Holding("active")
      BY <1>3, <2>1, <2>3 DEF Holding, At, NextOwes
    <2>4. CASE d = RunOf(h) /\ NextOwes(h)
      BY <1>3, <2>1, <2>4 DEF Holding, NextOwes
    <2>5. CASE "active" \in handler'[d].reserved /\ ~handler'[d].committed
               /\ handler'[d].pc \notin {"settle", "done"}
      BY <1>3, <2>1, <2>5 DEF Holding, Pc
    <2> QED
      BY <1>3, <2>2, <2>3, <2>4, <2>5 DEF Holding, At, NextOwes, RunOf
  <1>11. HourHolding' \subseteq HourHolding
    BY <1>3 DEF HourHolding, Pc, Handlers
  <1>12. PastActive' \subseteq PastActive
    BY <1>3, <1>4 DEF PastActive, Running, Active, Created, Pc, Handlers
  <1>13. PastHour' \subseteq PastHour
    BY <1>3 DEF PastHour, BeyondHour, Handed, Pc, Handlers
  <1>14. counter'["active"] >= counter["active"] /\ counter'["hour"] >= counter["hour"]
    BY <1>1 DEF TypeOK, Keys
  <1>15. CountInv'
    BY <1>10, <1>11, <1>12, <1>13, <1>14, QuietCounts
  <1> QED
    BY <1>6, <1>7, <1>8, <1>9, <1>15 DEF IInv, OwnerInv

LEMMA GetMarkerGood == ASSUME IInv, NEW h \in Handlers, GetMarker(h) PROVE IInv'
  <1> DEFINE kept == marker[RunOf(h)]
             t(pc) == [handler[h] EXCEPT !.pc = pc, !.owed = kept]
  <1>1. /\ TypeOK /\ handler \in [Handlers -> Handler] /\ handler[h] \in Handler
        /\ handler[h].then \in {"rollback", "done"}
    BY DEF IInv, OwnerInv, TypeOK, Handler
  <1>2. /\ Pc(h) = "marker" /\ UNCHANGED <<status, usage, counter, marker>>
        /\ faults' \in 0..MaxFaults
    BY <1>1, LimitsAssumption DEF GetMarker, At, Pc, Fault, TypeOK
  <1>3. kept \in SUBSET Keys /\ status[RunOf(h)] \in Finished
    BY <1>1, <1>2 DEF IInv, OwnerInv, RunInv, TypeOK
  <1>4. ASSUME NEW pc \in {"delete", handler[h].then},
               handler' = [handler EXCEPT ![h].pc = pc, ![h].owed = kept],
               pc = "delete" => kept # {}
        PROVE  IInv'
    <2>1. /\ t(pc) \in Handler /\ t(pc).pc = pc /\ t(pc).run = handler[h].run
          /\ t(pc).committed = handler[h].committed /\ t(pc).reserved = handler[h].reserved
          /\ t(pc).owed = kept /\ t(pc).then = handler[h].then
      BY <1>1, <1>3 DEF Handler, PCs
    <2>2. handler' = [handler EXCEPT ![h] = t(pc)]
      BY <1>1, <1>4
    <2> HIDE DEF t
    <2>3. TypeOK'
      BY <1>1, <1>2, <2>1, <2>2 DEF TypeOK
    <2>4. /\ t(pc).pc \in {"delete", "settle", "done", "rollback"}
          /\ t(pc).pc \in {"done", "rollback"} => t(pc).pc = t(pc).then
          /\ t(pc).pc \in {"delete", "settle"} =>
               /\ marker[RunOf(h)] # {} /\ t(pc).owed = marker[RunOf(h)]
               /\ t(pc).pc = "settle" => marker'[RunOf(h)] = {}
      BY <1>1, <1>4, <2>1
    <2> HIDE DEF kept
    <2> QED
      BY <1>2, <2>1, <2>2, <2>3, <2>4, PaysMarker
  <1>5. CASE Goto(h, handler[h].then)
    <2>1. Moves(h, handler[h].then) /\ handler'[h].then = handler[h].then
      BY <1>1, <1>5, GotoMoves DEF PCs
    <2>2. TypeOK'
      BY <1>1, <1>2, <2>1 DEF TypeOK, Moves, Only
    <2> QED
      BY <1>1, <1>2, <2>1, <2>2, MoveKept DEF MayMove, Passes, Early, Handed
  <1>6. CASE handler' = [handler EXCEPT ![h].pc = IF kept = {} THEN handler[h].then ELSE "delete",
                                        ![h].owed = kept]
    <2> HIDE DEF t, kept
    <2>1. CASE kept = {}
      BY <1>1, <1>4, <1>6, <2>1
    <2>2. CASE kept # {}
      BY <1>4, <1>6, <2>2
    <2> QED
      BY <2>1, <2>2
  <1> QED
    BY <1>5, <1>6 DEF GetMarker, RunOf

LEMMA DeleteMarkerGood ==
    ASSUME ~Fault("reply"), IInv, NEW h \in Handlers, DeleteMarker(h) PROVE IInv'
  <1>1. /\ TypeOK /\ handler \in [Handlers -> Handler] /\ handler[h] \in Handler
        /\ handler[h].then \in {"rollback", "done"}
    BY DEF IInv, OwnerInv, TypeOK, Handler
  <1>2. /\ Pc(h) = "delete" /\ UNCHANGED <<status, usage, counter>> /\ faults' \in 0..MaxFaults
    BY <1>1, LimitsAssumption DEF DeleteMarker, Redis, At, Pc, Fault, TypeOK
  <1>3. RunOf(h) \in Creates /\ marker[RunOf(h)] \in {{}, handler[h].owed}
    BY <1>2 DEF IInv, OwnerInv, RunInv, OwedInv
  <1>4. CASE Goto(h, handler[h].then) /\ (marker' = marker \/ marker[RunOf(h)] = {})
    <2>1. Moves(h, handler[h].then) /\ handler'[h].then = handler[h].then
      BY <1>1, <1>4, GotoMoves DEF PCs
    <2>2. marker' = marker
      <3>1. CASE marker' = [marker EXCEPT ![RunOf(h)] = {}] /\ marker[RunOf(h)] = {}
        BY <1>1, <3>1 DEF TypeOK
      <3> QED
        BY <1>4, <3>1 DEF DeleteMarker, Redis, RunOf
    <2>3. TypeOK'
      BY <1>1, <1>2, <2>1, <2>2 DEF TypeOK, Moves, Only
    <2> QED
      BY <1>1, <1>2, <2>1, <2>2, <2>3, MoveKept DEF MayMove, Passes, Early, Handed
  <1>5. CASE /\ Goto(h, "settle") /\ marker[RunOf(h)] # {}
             /\ marker' = [marker EXCEPT ![RunOf(h)] = {}]
    <2> DEFINE t == [handler[h] EXCEPT !.pc = "settle"]
    <2>1. /\ t \in Handler /\ t.pc = "settle" /\ t.run = handler[h].run
          /\ t.committed = handler[h].committed /\ t.reserved = handler[h].reserved
          /\ t.owed = handler[h].owed /\ t.then = handler[h].then
      BY <1>1 DEF Handler, PCs
    <2>2. handler' = [handler EXCEPT ![h] = t]
      BY <1>5 DEF Goto
    <2> HIDE DEF t
    <2>3. /\ marker' \in [Creates -> SUBSET (Keys \ {"hour"})] /\ marker'[RunOf(h)] = {}
      BY <1>1, <1>3, <1>5 DEF TypeOK
    <2>4. TypeOK'
      BY <1>1, <1>2, <2>1, <2>2, <2>3 DEF TypeOK
    <2> QED
      BY <1>2, <1>3, <1>5, <2>1, <2>2, <2>3, <2>4, PaysMarker
  <1> QED
    BY <1>4, <1>5 DEF DeleteMarker, Redis, Fault, RunOf

-----------------------------------------------------------------------------
(* The counters. *)

LEMMA FirstKeyOwed == ASSUME NEW owed \in SUBSET Keys, owed # {} PROVE FirstKey(owed) \in owed
  <1>1. \E k \in owed : \/ k = "active"
                        \/ k = "hour" /\ "active" \notin owed
                        \/ owed = {k}
    <2>1. CASE "active" \in owed
      BY <2>1
    <2>2. CASE "active" \notin owed /\ "hour" \in owed
      BY <2>2
    <2>3. CASE "active" \notin owed /\ "hour" \notin owed
      <3>1. owed = {"tokens"}
        BY <2>3 DEF Keys
      <3> QED
        BY <3>1
    <2> QED
      BY <2>1, <2>2, <2>3
  <1> QED
    BY <1>1 DEF FirstKey

LEMMA RemovedCount ==
    ASSUME NEW S, IsFiniteSet(S), NEW x \in S, NEW T, T \subseteq S \ {x}
    PROVE  Cardinality(T) <= Cardinality(S) - 1 /\ Cardinality(T) \in Nat /\ Cardinality(S) \in Nat
  <1>1. /\ IsFiniteSet(S \ {x}) /\ Cardinality(S \ {x}) = Cardinality(S) - 1
        /\ Cardinality(S \ {x}) \in Nat /\ Cardinality(S) \in Nat
    BY FS_RemoveElement, FS_CardinalityType
  <1>2. IsFiniteSet(T) /\ Cardinality(T) <= Cardinality(S \ {x})
    BY <1>1, FS_Subset
  <1> QED
    BY <1>1, <1>2, FS_CardinalityType

LEMMA AddedCount ==
    ASSUME NEW S, IsFiniteSet(S), NEW x, NEW T, T \subseteq S \cup {x}
    PROVE  Cardinality(T) <= Cardinality(S) + 1 /\ Cardinality(T) \in Nat /\ Cardinality(S) \in Nat
  <1>1. /\ IsFiniteSet(S \cup {x}) /\ Cardinality(S \cup {x}) <= Cardinality(S) + 1
        /\ Cardinality(S \cup {x}) \in Nat /\ Cardinality(S) \in Nat
    BY FS_AddElement, FS_CardinalityType
  <1>2. IsFiniteSet(T) /\ Cardinality(T) <= Cardinality(S \cup {x})
    BY <1>1, FS_Subset
  <1> QED
    BY <1>1, <1>2, FS_CardinalityType

LEMMA SettleGood == ASSUME ~Fault("reply"), IInv, NEW h \in Handlers, Settle(h) PROVE IInv'
  <1> DEFINE k == FirstKey(handler[h].owed)
             t == [handler[h] EXCEPT !.owed = handler[h].owed \ {k}]
  <1>1. /\ TypeOK /\ handler \in [Handlers -> Handler] /\ handler[h] \in Handler
        /\ handler[h].then \in {"rollback", "done"} /\ handler[h].owed \in SUBSET Keys
    BY DEF IInv, OwnerInv, TypeOK, Handler
  <1>2. /\ Pc(h) = "settle" /\ UNCHANGED <<status, usage, marker>> /\ faults' \in 0..MaxFaults
    BY <1>1, LimitsAssumption DEF Settle, Redis, At, Pc, Fault, TypeOK
  <1>3. CASE Goto(h, handler[h].then) /\ counter' = counter
    <2>1. Moves(h, handler[h].then) /\ handler'[h].then = handler[h].then
      BY <1>1, <1>3, GotoMoves DEF PCs
    <2>2. TypeOK'
      BY <1>1, <1>2, <1>3, <2>1 DEF TypeOK, Moves, Only
    <2> QED
      BY <1>1, <1>2, <1>3, <2>1, <2>2, MoveKept DEF MayMove, Passes, Early, Handed
  <1>4. CASE /\ handler[h].owed # {} /\ handler' = [handler EXCEPT ![h].owed = @ \ {k}]
             /\ Add(k, Amount(h, k)) \/ counter' = counter
    <2>1. k \in handler[h].owed /\ k \in Keys
      BY <1>1, <1>4, FirstKeyOwed
    <2>2. /\ t \in Handler /\ t.pc = "settle" /\ t.run = handler[h].run
          /\ t.committed = handler[h].committed /\ t.reserved = handler[h].reserved
          /\ t.owed = handler[h].owed \ {k} /\ t.then = handler[h].then
      BY <1>1, <1>2, <2>1 DEF Handler, PCs, Pc
    <2>3. handler' = [handler EXCEPT ![h] = t]
      BY <1>1, <1>4
    <2> HIDE DEF t
    <2>4. Only(h) /\ handler'[h] = t
      BY <1>1, <2>2, <2>3, Becomes
    <2>5. /\ \A g \in Handlers : /\ handler'[g].run = handler[g].run
                                 /\ handler'[g].pc = handler[g].pc
                                 /\ handler'[g].committed = handler[g].committed
                                 /\ handler'[g].reserved = handler[g].reserved
                                 /\ handler'[g].then = handler[g].then
                                 /\ handler'[g].owed \subseteq handler[g].owed
                                 /\ g # h => handler'[g] = handler[g]
          /\ handler'[h].owed = handler[h].owed \ {k}
      BY <1>2, <2>2, <2>4 DEF Only, Pc
    <2>6. /\ counter' \in [Keys -> Int]
          /\ \A j \in Keys : j # k => counter'[j] = counter[j]
          /\ counter'[k] = counter[k] \/ counter'[k] = counter[k] + Amount(h, k)
      <3>1. Amount(h, k) \in Int
        BY <1>1, LimitsAssumption DEF Amount, Handler
      <3> QED
        BY <1>1, <1>4, <2>1, <3>1 DEF Add, TypeOK
    <2>7. TypeOK'
      BY <1>1, <1>2, <2>4, <2>6 DEF TypeOK, Only
    <2>8. RunInv'
      BY <1>2, <2>5 DEF IInv, OwnerInv, RunInv, Pc, RunOf, Handlers
    <2>9. MarkerInv' /\ ReservedInv'
      BY <1>2, <2>5 DEF IInv, OwnerInv, MarkerInv, ReservedInv, Pc, Handlers
    <2>10. OwedInv'
      <3>1. /\ t.pc = "settle" /\ "active" \in t.owed => OwesActive(h)
            /\ t.pc = "settle" /\ "hour" \in t.owed => Pc(h) = "settle" /\ "hour" \in handler[h].owed
        BY <1>2, <2>2 DEF OwesActive, Pc
      <3>2. OwesActive(h) => marker'[RunOf(h)] = {} /\ (handler[RunOf(h)].committed \/ h = RunOf(h))
        BY <1>2 DEF IInv, OwnerInv, OwedInv
      <3>3. Pc(h) = "settle" /\ "hour" \in handler[h].owed =>
              h \in Creates /\ handler[h].then = "done" /\ "hour" \in handler[h].reserved
        BY DEF IInv, OwnerInv, OwedInv
      <3>4. Pc(h) # "idle" /\ \A d \in Creates : marker'[d] = marker[d] \/ marker'[d] = {}
        BY <1>2
      <3>5. t.pc = "settle" /\ "active" \in t.owed =>
              /\ marker'[RunOf(h)] = {} /\ (handler[RunOf(h)].committed \/ h = RunOf(h))
              /\ OwesActive(h) \/ marker[RunOf(h)] # {}
        BY <3>1, <3>2
      <3>6. t.pc = "settle" /\ "hour" \in t.owed =>
              h \in Creates /\ t.then = "done" /\ "hour" \in t.reserved
        BY <2>2, <3>1, <3>3
      <3> QED
        BY <2>2, <2>3, <3>4, <3>5, <3>6, OwedKept
    <2>11. /\ Holding("active")' \subseteq Holding("active") /\ HourHolding' \subseteq HourHolding
           /\ PastActive' \subseteq PastActive /\ PastHour' \subseteq PastHour
      <3>1. Holding("active")' \subseteq Holding("active")
        BY <1>2, <2>5 DEF Holding, At, Handlers
      <3>2. HourHolding' \subseteq HourHolding
        BY <2>5 DEF HourHolding, Pc, Handlers
      <3>3. PastActive' \subseteq PastActive /\ PastHour' \subseteq PastHour
        BY <1>2, <2>5 DEF PastActive, Running, Active, Created, PastHour, Pc, Handlers
      <3> QED
        BY <3>1, <3>2, <3>3
    <2>12. CASE counter'["active"] = counter["active"] /\ counter'["hour"] = counter["hour"]
      <3>1. counter'["active"] >= counter["active"] /\ counter'["hour"] >= counter["hour"]
        BY <1>1, <2>12 DEF TypeOK, Keys
      <3>2. CountInv'
        BY <2>7, <2>11, <3>1, QuietCounts
      <3> QED
        BY <2>7, <2>8, <2>9, <2>10, <3>2 DEF IInv, OwnerInv
    <2>13. /\ counter["active"] \in Int /\ counter["hour"] \in Int
           /\ IsFiniteSet(Holding("active")) /\ IsFiniteSet(HourHolding)
           /\ IsFiniteSet(PastActive) /\ IsFiniteSet(PastHour)
      <3>1. /\ Holding("active") \subseteq Creates /\ HourHolding \subseteq Creates
            /\ PastActive \subseteq Creates /\ PastHour \subseteq Creates
        BY DEF Holding, HourHolding, PastActive, PastHour, Running, Active, Created
      <3> QED
        BY <1>1, <3>1, RequestsAssumption, FS_Subset DEF TypeOK, Keys
    <2>14. /\ Cardinality(Holding("active")') <= Cardinality(Holding("active"))
           /\ Cardinality(HourHolding') <= Cardinality(HourHolding)
           /\ Cardinality(PastHour') <= Cardinality(PastHour)
           /\ Cardinality(PastActive') <= Cardinality(PastActive)
           /\ {Cardinality(Holding("active")), Cardinality(HourHolding), Cardinality(PastHour),
               Cardinality(PastActive), Cardinality(Holding("active")'), Cardinality(HourHolding'),
               Cardinality(PastHour'), Cardinality(PastActive')} \subseteq Nat
      BY <2>11, <2>13, FS_Subset, FS_CardinalityType
    <2>15. CASE k = "active" /\ counter'["active"] = counter["active"] - 1
      <3>1. OwesActive(h) /\ RunOf(h) \in Creates /\ RunOf(h) \in Handlers
        BY <1>2, <2>1, <2>15 DEF OwesActive, IInv, OwnerInv, RunInv, Handlers
      <3>2. RunOf(h) \in Holding("active")
        BY <3>1 DEF Holding, OwesActive, At, Pc, RunOf
      <3>3. RunOf(h) \notin Holding("active")'
        <4>1. marker'[RunOf(h)] = {} /\ (handler[RunOf(h)].committed \/ h = RunOf(h))
          BY <1>2, <3>1 DEF IInv, OwnerInv, OwedInv
        <4>2. ASSUME NEW g \in Handlers, handler'[g].run = RunOf(h), NextOwes(g) PROVE FALSE
          <5>1. OwesActive(g) /\ RunOf(g) = RunOf(h) /\ g # h
            BY <2>5, <2>15, <4>2 DEF NextOwes, OwesActive, Pc, RunOf
          <5> QED
            BY <3>1, <5>1 DEF IInv, OwnerInv, OwedInv
        <4>3. handler'[RunOf(h)].committed \/ handler'[RunOf(h)].pc = "settle"
          BY <1>2, <2>5, <3>1, <4>1 DEF Pc
        <4> QED
          BY <4>1, <4>2, <4>3 DEF Holding, At, NextOwes
      <3>4. Cardinality(Holding("active")') <= Cardinality(Holding("active")) - 1
        BY <2>11, <2>13, <3>2, <3>3, RemovedCount
      <3>5. counter'["hour"] = counter["hour"]
        BY <2>6, <2>15 DEF Keys
      <3>6. CountInv'
        BY <2>13, <2>14, <2>15, <3>4, <3>5, LimitsAssumption DEF IInv, CountInv, HeldIsCounted
      <3> QED
        BY <2>7, <2>8, <2>9, <2>10, <3>6 DEF IInv, OwnerInv
    <2>16. CASE k = "hour" /\ counter'["hour"] = counter["hour"] - 1
      <3>1. h \in Creates /\ handler[h].then = "done" /\ "hour" \in handler[h].reserved
        BY <1>2, <2>1, <2>16 DEF IInv, OwnerInv, OwedInv
      <3>2. h \in HourHolding
        BY <1>2, <2>1, <2>16, <3>1 DEF HourHolding
      <3>3. h \notin HourHolding'
        BY <1>2, <2>5, <2>16, <3>1 DEF HourHolding, Pc
      <3>4. Cardinality(HourHolding') <= Cardinality(HourHolding) - 1
        BY <2>11, <2>13, <3>2, <3>3, RemovedCount
      <3>5. counter'["active"] = counter["active"]
        BY <2>6, <2>16 DEF Keys
      <3>6. CountInv'
        BY <2>13, <2>14, <2>16, <3>4, <3>5, LimitsAssumption DEF IInv, CountInv, HeldIsCounted
      <3> QED
        BY <2>7, <2>8, <2>9, <2>10, <3>6 DEF IInv, OwnerInv
    <2>17. \/ counter'["active"] = counter["active"] /\ counter'["hour"] = counter["hour"]
           \/ k = "active" /\ counter'["active"] = counter["active"] - 1
           \/ k = "hour" /\ counter'["hour"] = counter["hour"] - 1
      <3>1. k \in {"active", "hour"} => Amount(h, k) = -1
        BY DEF Amount
      <3> HIDE DEF k
      <3> QED
        BY <2>1, <2>6, <2>13, <3>1 DEF Keys
    <2> QED
      BY <2>12, <2>15, <2>16, <2>17
  <1> HIDE DEF t
  <1> QED
    BY <1>3, <1>4 DEF Settle, Redis, Fault

\* Whoever has passed the limit of concurrent runs still holds his reservation of one, and
\* whoever has passed the limit of the hour that of the hour.
PastIsHeld ==
    /\ MaxConcurrentRuns > 0 => PastActive \subseteq Holding("active")
    /\ MaxRunsPerHour > 0 => PastHour \subseteq HourHolding

LEMMA PastIsHolding == OwnerInv => PastIsHeld
  <1> SUFFICES ASSUME OwnerInv PROVE PastIsHeld
    OBVIOUS
  <1>1. ASSUME MaxConcurrentRuns > 0, NEW c \in PastActive PROVE c \in Holding("active")
    <2>1. c \in Creates
      BY DEF PastActive, Running, Active, Created
    <2>2. CASE marker[c] # {}
      BY <1>1, <2>1, <2>2 DEF OwnerInv, MarkerInv, ReservedInv, Holding
    <2>3. CASE Pc(c) \in {"hour", "tokens", "add", "commit"}
      BY <1>1, <2>1, <2>3 DEF OwnerInv, MarkerInv, ReservedInv, BeyondActive, Early, Holding, Pc
    <2>4. CASE marker[c] = {} /\ Pc(c) \in Handed /\ status[c] \notin Finished
      BY <1>1, <2>1, <2>4 DEF OwnerInv, MarkerInv, ReservedInv, Handed
    <2> QED
      BY <1>1, <2>2, <2>3, <2>4 DEF PastActive, Running, Active, Created, Pc, Handed
  <1>2. ASSUME MaxRunsPerHour > 0, NEW c \in PastHour PROVE c \in HourHolding
    BY <1>2 DEF PastHour, HourHolding, OwnerInv, ReservedInv, BeyondHour, Handed
  <1> QED
    BY <1>1, <1>2 DEF PastIsHeld

\* A create has added to a counter.
LEMMA ReserveAdds ==
    ASSUME IInv, NEW c \in Creates, NEW k \in Keys, Pc(c) = k, UNCHANGED <<status, usage, marker>>,
           faults' \in 0..MaxFaults, Limit(k) # 0, Add(k, Cost(k)),
           NEW t \in Handler, handler' = [handler EXCEPT ![c] = t],
           t.run = handler[c].run, t.committed = handler[c].committed, t.then = handler[c].then,
           t.owed = handler[c].owed, t.reserved = handler[c].reserved \cup {k},
           t.pc \in {AfterKey(k), "rollback"},
           t.pc = AfterKey(k) => Within(k, counter[k] + Cost(k))
    PROVE  IInv'
  <1>1. TypeOK /\ c \in Handlers /\ RunOf(c) = c
    BY DEF IInv, OwnerInv, RunInv, Handlers
  <1>2. Only(c) /\ handler'[c] = t
    BY <1>1, Becomes
  <1>3. /\ \A g \in Handlers : /\ handler'[g].run = handler[g].run
                               /\ handler'[g].committed = handler[g].committed
                               /\ handler'[g].owed = handler[g].owed
                               /\ handler'[g].then = handler[g].then
                               /\ g # c => handler'[g] = handler[g]
        /\ handler'[c].pc = t.pc /\ handler'[c].reserved = handler[c].reserved \cup {k}
    BY <1>2 DEF Only
  <1>4. /\ counter' \in [Keys -> Int] /\ counter'[k] = counter[k] + Cost(k) /\ counter[k] \in Int
        /\ \A j \in Keys : j # k => counter'[j] = counter[j]
    <2>1. Cost(k) \in Int
      BY LimitsAssumption DEF Cost
    <2> QED
      BY <1>1, <2>1 DEF Add, TypeOK
  <1>5. TypeOK'
    BY <1>1, <1>2, <1>4 DEF TypeOK, Only
  <1>6. /\ t.pc \in {"hour", "tokens", "add", "rollback"}
        /\ t.pc = "hour" => Pc(c) = "active" /\ k = "active"
        /\ t.pc = "tokens" => Pc(c) = "hour" /\ k = "hour"
        /\ t.pc = "add" => Pc(c) = "tokens" /\ k = "tokens"
        /\ Pc(c) \in {"active", "hour", "tokens"}
    BY DEF AfterKey, Keys
  <1>7. ~handler[c].committed /\ marker[c] = {} /\ status[c] = "none"
    BY <1>6 DEF IInv, OwnerInv, RunInv, MarkerInv, Early
  <1>8. RunInv'
    BY <1>3, <1>6, <1>7 DEF IInv, OwnerInv, RunInv, Pc, RunOf, Early, Handlers
  <1>9. MarkerInv'
    BY <1>3, <1>6, <1>7 DEF IInv, OwnerInv, MarkerInv, Pc, Early, Handlers
  <1>10. ReservedInv'
    <2>1. MaxConcurrentRuns > 0 /\ t.pc \in BeyondActive => "active" \in handler[c].reserved \cup {k}
      BY <1>6 DEF IInv, OwnerInv, ReservedInv, BeyondActive, Handed
    <2>2. MaxRunsPerHour > 0 /\ t.pc \in BeyondHour => "hour" \in handler[c].reserved \cup {k}
      BY <1>6 DEF IInv, OwnerInv, ReservedInv, BeyondHour, Handed
    <2>3. t.pc \notin Handed
      BY <1>6 DEF Handed
    <2> QED
      BY <1>3, <1>7, <2>1, <2>2, <2>3 DEF IInv, OwnerInv, ReservedInv, Pc, Handlers
  <1>11. OwedInv'
    <2>1. t.pc \notin {"delete", "settle"} /\ Pc(c) # "idle"
      BY <1>6
    <2>2. /\ \A g \in Handlers : handler'[g].run = RunOf(g)
          /\ \A g \in Handlers : handler'[g].pc \in {"delete", "settle"} =>
               handler'[g] = handler[g] /\ RunOf(g) \in Handlers
      BY <1>3, <2>1 DEF RunOf, Pc, IInv, OwnerInv, TypeOK, Handler
    <2>3. \A g \in Handlers : NextOwes(g) => OwesActive(g) /\ handler'[g].pc = "settle"
      BY <2>2 DEF NextOwes, OwesActive, Pc
    <2>4. \A g \in Handlers : NextOwes(g) =>
            marker'[RunOf(g)] = {} /\ (handler'[RunOf(g)].committed \/ g = RunOf(g))
      BY <1>3, <2>2, <2>3 DEF IInv, OwnerInv, OwedInv
    <2>5. \A g \in Handlers : handler'[g].pc = "delete" =>
            "hour" \notin handler'[g].owed /\ handler'[RunOf(g)].committed
            /\ marker'[RunOf(g)] \in {{}, handler'[g].owed}
      BY <1>3, <2>2 DEF IInv, OwnerInv, OwedInv, Pc
    <2>6. \A g \in Handlers : handler'[g].pc = "settle" /\ "hour" \in handler'[g].owed =>
            g \in Creates /\ handler'[g].then = "done" /\ "hour" \in handler'[g].reserved
      BY <2>2 DEF IInv, OwnerInv, OwedInv, Pc
    <2>7. \A f, g \in Handlers : RunOf(f) = RunOf(g) /\ NextOwes(f) /\ NextOwes(g) => f = g
      BY <2>3 DEF IInv, OwnerInv, OwedInv
    <2>8. \A g \in Handlers : handler'[g].run = RunOf(g)
      BY <2>2
    <2> QED
      BY <2>4, <2>5, <2>6, <2>7, <2>8, OwedNext
  <1>12. OwnerInv'
    BY <1>5, <1>8, <1>9, <1>10, <1>11 DEF OwnerInv
  <1>13. OwnerInv' => PastIsHeld'
    BY PastIsHolding, PTL
  <1>14. /\ Holding("active")' \subseteq Holding("active") \cup {c}
         /\ k # "active" => Holding("active")' \subseteq Holding("active")
    <2>1. ASSUME NEW d \in Holding("active")', d # c \/ k # "active" PROVE d \in Holding("active")
      <3>1. d \in Creates /\ d \in Handlers
        BY DEF Holding, Handlers
      <3>2. CASE "active" \in marker'[d]
        BY <3>1, <3>2 DEF Holding
      <3>3. ASSUME NEW g \in Handlers, handler'[g].run = d, NextOwes(g) PROVE d \in Holding("active")
        <4>1. g # c
          BY <1>3, <1>6, <3>3 DEF NextOwes
        <4> QED
          BY <1>3, <3>1, <3>3, <4>1 DEF Holding, At, NextOwes
      <3>4. CASE "active" \in handler'[d].reserved /\ ~handler'[d].committed
                 /\ handler'[d].pc \notin {"settle", "done"}
        BY <1>3, <1>6, <2>1, <3>1, <3>4 DEF Holding, Pc
      <3> QED
        BY <3>2, <3>3, <3>4 DEF Holding, At, NextOwes
    <2> QED
      BY <2>1
  <1>15. /\ HourHolding' \subseteq HourHolding \cup {c}
         /\ k # "hour" => HourHolding' \subseteq HourHolding
    BY <1>3, <1>6 DEF HourHolding, Pc, Handlers
  <1>16. /\ MaxConcurrentRuns > 0 /\ t.pc # "hour" => PastActive' \subseteq PastActive
         /\ t.pc # "tokens" => PastHour' \subseteq PastHour
    <2>1. \A d \in Creates : d # c => handler'[d] = handler[d]
      BY <1>3 DEF Handlers
    <2> QED
      BY <1>3, <1>6, <1>7, <2>1
      DEF PastActive, Running, Active, Created, PastHour, BeyondHour, Handed, Pc
  <1>17. /\ IsFiniteSet(Holding("active")) /\ IsFiniteSet(HourHolding)
         /\ IsFiniteSet(PastActive) /\ IsFiniteSet(PastHour)
         /\ IsFiniteSet(Holding("active")') /\ IsFiniteSet(HourHolding')
    <2>1. /\ Holding("active") \subseteq Creates /\ HourHolding \subseteq Creates
          /\ PastActive \subseteq Creates /\ PastHour \subseteq Creates
          /\ Holding("active")' \subseteq Creates /\ HourHolding' \subseteq Creates
      BY DEF Holding, HourHolding, PastActive, PastHour, Running, Active, Created
    <2> QED
      BY <2>1, RequestsAssumption, FS_Subset
  <1>18. /\ counter["active"] \in Int /\ counter["hour"] \in Int
         /\ counter'["active"] = IF k = "active" THEN counter["active"] + 1 ELSE counter["active"]
         /\ counter'["hour"] = IF k = "hour" THEN counter["hour"] + 1 ELSE counter["hour"]
    BY <1>1, <1>4 DEF TypeOK, Keys, Cost
  <1>19. counter'["active"] >= Cardinality(Holding("active")')
    <2>1. CASE k = "active"
      <3>1. /\ Cardinality(Holding("active")') <= Cardinality(Holding("active")) + 1
            /\ Cardinality(Holding("active")') \in Nat /\ Cardinality(Holding("active")) \in Nat
        BY <1>14, <1>17, AddedCount
      <3> QED
        BY <1>18, <2>1, <3>1 DEF IInv, CountInv, HeldIsCounted
    <2>2. CASE k # "active"
      BY <1>14, <1>17, <1>18, <2>2, FS_Subset, FS_CardinalityType DEF IInv, CountInv, HeldIsCounted
    <2> QED
      BY <2>1, <2>2
  <1>20. counter'["hour"] >= Cardinality(HourHolding')
    <2>1. CASE k = "hour"
      <3>1. /\ Cardinality(HourHolding') <= Cardinality(HourHolding) + 1
            /\ Cardinality(HourHolding') \in Nat /\ Cardinality(HourHolding) \in Nat
        BY <1>15, <1>17, AddedCount
      <3> QED
        BY <1>18, <2>1, <3>1 DEF IInv, CountInv
    <2>2. CASE k # "hour"
      BY <1>15, <1>17, <1>18, <2>2, FS_Subset, FS_CardinalityType DEF IInv, CountInv
    <2> QED
      BY <2>1, <2>2
  <1>21. MaxConcurrentRuns > 0 => Cardinality(PastActive') <= MaxConcurrentRuns
    <2> SUFFICES ASSUME MaxConcurrentRuns > 0
                 PROVE  Cardinality(PastActive') <= MaxConcurrentRuns
      OBVIOUS
    <2>1. CASE t.pc # "hour"
      <3>1. IsFiniteSet(PastActive') /\ Cardinality(PastActive') <= Cardinality(PastActive)
        BY <1>16, <1>17, <2>1, FS_Subset
      <3> QED
        BY <1>17, <3>1, FS_CardinalityType, LimitsAssumption DEF IInv, CountInv
    <2>2. CASE t.pc = "hour"
      <3>1. PastActive' \subseteq Holding("active")'
        BY <1>12, <1>13 DEF PastIsHeld
      <3>2. IsFiniteSet(PastActive') /\ Cardinality(PastActive') <= Cardinality(Holding("active")')
        BY <1>17, <3>1, FS_Subset
      <3>3. counter'["active"] <= MaxConcurrentRuns
        BY <1>6, <1>18, <2>2 DEF Within, Limit, AfterKey, Cost
      <3> QED
        BY <1>17, <1>18, <1>19, <3>2, <3>3, FS_CardinalityType, LimitsAssumption
    <2> QED
      BY <2>1, <2>2
  <1>22. MaxRunsPerHour > 0 => Cardinality(PastHour') <= MaxRunsPerHour
    <2> SUFFICES ASSUME MaxRunsPerHour > 0
                 PROVE  Cardinality(PastHour') <= MaxRunsPerHour
      OBVIOUS
    <2>1. CASE t.pc # "tokens"
      <3>1. IsFiniteSet(PastHour') /\ Cardinality(PastHour') <= Cardinality(PastHour)
        BY <1>16, <1>17, <2>1, FS_Subset
      <3> QED
        BY <1>17, <3>1, FS_CardinalityType, LimitsAssumption DEF IInv, CountInv
    <2>2. CASE t.pc = "tokens"
      <3>1. PastHour' \subseteq HourHolding'
        BY <1>12, <1>13 DEF PastIsHeld
      <3>2. IsFiniteSet(PastHour') /\ Cardinality(PastHour') <= Cardinality(HourHolding')
        BY <1>17, <3>1, FS_Subset
      <3>3. counter'["hour"] <= MaxRunsPerHour
        BY <1>6, <1>18, <2>2 DEF Within, Limit, AfterKey, Cost
      <3> QED
        BY <1>17, <1>18, <1>20, <3>2, <3>3, FS_CardinalityType, LimitsAssumption
    <2> QED
      BY <2>1, <2>2
  <1> QED
    BY <1>12, <1>19, <1>20, <1>21, <1>22 DEF IInv, CountInv, HeldIsCounted

LEMMA ReserveGood == ASSUME ~Fault("reply"), IInv, NEW c \in Creates, Reserve(c) PROVE IInv'
  <1>1. /\ c \in Handlers /\ TypeOK /\ handler \in [Handlers -> Handler] /\ handler[c] \in Handler
        /\ counter \in [Keys -> Int] /\ handler[c].reserved \in SUBSET Keys
    BY DEF IInv, OwnerInv, TypeOK, Handlers, Handler
  <1>2. PICK k \in Keys :
          /\ Pc(c) = k
          /\ \/ /\ Limit(k) = 0 \/ Cost(k) = 0
                /\ Goto(c, AfterKey(k)) /\ UNCHANGED counter
             \/ Goto(c, "rollback") /\ UNCHANGED counter
             \/ /\ Limit(k) # 0 /\ Add(k, Cost(k))
                /\ \/ handler' = [handler EXCEPT ![c] = [[handler[c] EXCEPT !.reserved = @ \cup {k}]
                                    EXCEPT !.pc = IF Within(k, counter[k] + Cost(k))
                                                  THEN AfterKey(k) ELSE "rollback"]]
                   \/ handler' = [handler EXCEPT ![c] = [[handler[c] EXCEPT !.reserved = @ \cup {k}]
                                    EXCEPT !.pc = "rollback"]]
    BY DEF Reserve, Redis, Fault, At, Pc
  <1>3. UNCHANGED <<status, usage, marker>> /\ faults' \in 0..MaxFaults
    BY <1>1, LimitsAssumption DEF Reserve, Redis, Fault, TypeOK
  <1>4. AfterKey(k) \in {"hour", "tokens", "add"}
    BY DEF AfterKey, Keys
  <1>5. ASSUME NEW pc \in {AfterKey(k), "rollback"}, Goto(c, pc), counter' = counter,
               pc = AfterKey(k) => Limit(k) = 0 \/ Cost(k) = 0
        PROVE  IInv'
    <2>1. Moves(c, pc) /\ handler'[c].then = handler[c].then
      BY <1>1, <1>4, <1>5, GotoMoves DEF PCs, Keys
    <2>2. TypeOK'
      BY <1>1, <1>3, <1>5, <2>1 DEF TypeOK, Moves, Only
    <2>3. MayMove(c, pc)
      BY <1>2, <1>4, <1>5 DEF MayMove, Keys
    <2>4. Passes(c, pc)
      <3>1. CASE pc = "rollback"
        BY <3>1 DEF Passes, Early, Handed
      <3>2. CASE k = "active" /\ pc = "hour" /\ MaxConcurrentRuns = 0
        BY <1>2, <3>2 DEF Passes, Early, Handed
      <3>3. CASE k = "hour" /\ pc = "tokens" /\ MaxRunsPerHour = 0
        BY <1>2, <3>3 DEF Passes, Early, Handed
      <3>4. CASE k = "tokens" /\ pc = "add"
        BY <1>2, <3>4 DEF Passes, Early, Handed
      <3> QED
        BY <1>5, <3>1, <3>2, <3>3, <3>4 DEF AfterKey, Limit, Cost, Keys
    <2> QED
      BY <1>1, <1>3, <1>5, <2>1, <2>2, <2>3, <2>4, MoveKept
  <1>6. ASSUME NEW pc \in {AfterKey(k), "rollback"}, Limit(k) # 0, Add(k, Cost(k)),
               handler' = [handler EXCEPT ![c] = [[handler[c] EXCEPT !.reserved = @ \cup {k}]
                                                    EXCEPT !.pc = pc]],
               pc = AfterKey(k) => Within(k, counter[k] + Cost(k))
        PROVE  IInv'
    <2> DEFINE t == [[handler[c] EXCEPT !.reserved = @ \cup {k}] EXCEPT !.pc = pc]
    <2>1. /\ t \in Handler /\ t.run = handler[c].run /\ t.committed = handler[c].committed
          /\ t.then = handler[c].then /\ t.owed = handler[c].owed
          /\ t.reserved = handler[c].reserved \cup {k} /\ t.pc = pc
      BY <1>1, <1>4 DEF Handler, PCs, Keys
    <2>2. handler' = [handler EXCEPT ![c] = t]
      BY <1>6
    <2> HIDE DEF t
    <2> QED
      BY <1>2, <1>3, <1>6, <2>1, <2>2, ReserveAdds
  <1>7. AfterKey(k) # "rollback"
    BY <1>4
  <1>8. CASE Goto(c, AfterKey(k)) /\ UNCHANGED counter /\ (Limit(k) = 0 \/ Cost(k) = 0)
    BY <1>5, <1>8
  <1>9. CASE Goto(c, "rollback") /\ UNCHANGED counter
    BY <1>5, <1>7, <1>9
  <1>10. CASE /\ Limit(k) # 0 /\ Add(k, Cost(k))
              /\ handler' = [handler EXCEPT ![c] = [[handler[c] EXCEPT !.reserved = @ \cup {k}]
                               EXCEPT !.pc = IF Within(k, counter[k] + Cost(k))
                                             THEN AfterKey(k) ELSE "rollback"]]
    <2>1. CASE Within(k, counter[k] + Cost(k))
      BY <1>6, <1>10, <2>1
    <2>2. CASE ~Within(k, counter[k] + Cost(k))
      BY <1>6, <1>7, <1>10, <2>2
    <2> QED
      BY <2>1, <2>2
  <1>11. CASE /\ Limit(k) # 0 /\ Add(k, Cost(k))
              /\ handler' = [handler EXCEPT ![c] = [[handler[c] EXCEPT !.reserved = @ \cup {k}]
                               EXCEPT !.pc = "rollback"]]
    BY <1>6, <1>7, <1>11
  <1> QED
    BY <1>2, <1>8, <1>9, <1>10, <1>11

-----------------------------------------------------------------------------
(* Theorems. *)

LEMMA InitGood == ASSUME Init PROVE IInv
  <1> USE DEF Init
  <1>1. TypeOK
    BY LimitsAssumption DEF TypeOK, Keys, Handler, PCs, Handlers, Finished
  <1>2. /\ \A h \in Handlers : /\ Pc(h) = "idle" /\ RunOf(h) = h /\ ~OwesActive(h)
                               /\ handler[h].reserved = {}
        /\ \A c \in Creates : ~handler[c].committed /\ marker[c] = {} /\ status[c] = "none"
    BY DEF Pc, RunOf, OwesActive, Handlers
  <1>3. RunInv
    BY <1>2 DEF RunInv, Handlers, Early
  <1>4. MarkerInv /\ OwedInv /\ ReservedInv
    BY <1>2 DEF MarkerInv, OwedInv, ReservedInv, Handlers, BeyondActive, BeyondHour, Handed
  <1>5. Holding("active") = {} /\ HourHolding = {} /\ PastActive = {} /\ PastHour = {}
    BY <1>2 DEF Holding, HourHolding, PastActive, PastHour, Running, Active, Created, BeyondHour,
                Handed, At, OwesActive, Pc, Handlers
  <1>6. Cardinality({}) = 0 /\ counter["active"] = 0 /\ counter["hour"] = 0
    BY FS_EmptySet DEF Keys
  <1>7. CountInv
    <2>1. /\ Cardinality(Holding("active")) = 0 /\ Cardinality(HourHolding) = 0
          /\ Cardinality(PastActive) = 0 /\ Cardinality(PastHour) = 0
      BY <1>5, <1>6
    <2> QED
      BY <1>6, <2>1, LimitsAssumption DEF CountInv, HeldIsCounted
  <1> QED
    BY <1>1, <1>3, <1>4, <1>7 DEF IInv, OwnerInv

LEMMA StutterGood == ASSUME IInv, UNCHANGED vars PROVE IInv'
  <1> QED
    BY DEF vars, IInv, OwnerInv, TypeOK, RunInv, MarkerInv, OwedInv, ReservedInv, CountInv,
           HeldIsCounted, Holding, HourHolding, PastActive, PastHour, Running, Active, Created,
           OwesActive, At, Pc, RunOf

LEMMA Inductive == ASSUME ~Fault("reply"), IInv, [Next]_vars PROVE IInv'
  <1>1. ASSUME NEW c \in Creates,
               \/ Receive(c) \/ Check(c) \/ Reserve(c) \/ AddUserMessage(c) \/ Commit(c)
               \/ HandOver(c) \/ DispatchReturns(c) \/ Rollback(c)
        PROVE  IInv'
    BY <1>1, ReceiveGood, CheckGood, ReserveGood, AddUserMessageGood, CommitGood, HandOverGood,
       DispatchReturnsGood, RollbackGood
  <1>2. ASSUME NEW f \in Finishers, Finish(f) \/ SaveRunUsage(f) PROVE IInv'
    BY <1>2, FinishGood, SaveRunUsageGood
  <1>3. ASSUME NEW h \in Handlers,
               \/ GetBefore(h) \/ Update(h) \/ ReadUsage(h)
               \/ GetMarker(h) \/ DeleteMarker(h) \/ Settle(h) \/ Crash(h)
        PROVE  IInv'
    BY <1>3, GetBeforeGood, UpdateGood, ReadUsageGood, GetMarkerGood, DeleteMarkerGood, SettleGood,
       CrashGood
  <1>4. CASE UNCHANGED vars
    BY <1>4, StutterGood
  <1> QED
    BY <1>1, <1>2, <1>3, <1>4 DEF Next

\* Whoever has passed a limit is counted by it: the two bounds of LimitsHold follow.
LEMMA InvariantBounds == IInv => LimitsHold
  <1> SUFFICES ASSUME IInv PROVE LimitsHold
    OBVIOUS
  <1>1. Running \subseteq PastActive /\ {c \in Creates : At(c, "accepted")} \subseteq PastHour
    BY DEF PastActive, PastHour, BeyondHour, Handed, At, Pc
  <1>2. IsFiniteSet(PastActive) /\ IsFiniteSet(PastHour)
    <2>1. PastActive \subseteq Creates /\ PastHour \subseteq Creates
      BY DEF PastActive, PastHour, Running, Active, Created
    <2> QED
      BY <2>1, RequestsAssumption, FS_Subset
  <1>3. /\ Cardinality(Running) <= Cardinality(PastActive)
        /\ Cardinality({c \in Creates : At(c, "accepted")}) <= Cardinality(PastHour)
        /\ Cardinality(Running) \in Nat /\ Cardinality(PastActive) \in Nat
        /\ Cardinality({c \in Creates : At(c, "accepted")}) \in Nat /\ Cardinality(PastHour) \in Nat
    BY <1>1, <1>2, FS_Subset, FS_CardinalityType
  <1> QED
    BY <1>3, LimitsAssumption DEF IInv, CountInv, LimitsHold

LEMMA InvariantHolds == ASSUME "reply" \notin FaultKinds PROVE Spec => []IInv
  <1>1. Init => IInv
    BY InitGood
  <1>2. IInv /\ [Next]_vars => IInv'
    BY Inductive DEF Fault
  <1> QED
    BY <1>1, <1>2, PTL DEF Spec

\* The user never has more runs in progress, nor more accepted within the hour, than the
\* policy allows, however many requests create, finish and cancel runs, and whatever call of
\* the store or of Redis fails, if no reply of Redis is lost (reserveRunQuota,
\* ReserveRunWithHint).
THEOREM LimitsAlwaysHold == ASSUME "reply" \notin FaultKinds PROVE Spec => []LimitsHold
  <1>1. Spec => []IInv
    BY InvariantHolds
  <1> QED
    BY <1>1, InvariantBounds, PTL

\* No reservation is paid back twice, by the rollback of the create and any number of
\* finishers of its run (redisReservation.Rollback, RedisLimiter.ReleaseRun).
THEOREM HeldAlwaysCounted == ASSUME "reply" \notin FaultKinds PROVE Spec => []HeldIsCounted
  <1>1. Spec => []IInv
    BY InvariantHolds
  <1>2. IInv => HeldIsCounted
    BY DEF IInv, CountInv
  <1> QED
    BY <1>1, <1>2, PTL

-----------------------------------------------------------------------------
(* The sum of the usage rows. CHOOSE picks the recursion, so that its equation is *)
(* a lemma; inductions over finite sets take a smallest counterexample.           *)

\* A nonempty set of natural numbers has a least element.
LEMMA SmallestElement ==
    ASSUME NEW T \in SUBSET Nat, T # {}
    PROVE  \E n \in T : \A m \in T : n <= m
  <1> DEFINE Less == {ss \in Nat \X Nat : ss[1] < ss[2]}
  <1>1. IsWellFoundedOn(Less, Nat)
    BY NatLessThanWellFounded DEF OpToRel
  <1>2. \E n \in T : \A m \in T : <<m, n>> \notin Less
    <2> HIDE DEF Less
    <2> QED
      BY <1>1, WFMin
  <1>3. PICK n \in T : \A m \in T : <<m, n>> \notin Less
    BY <1>2
  <1>4. \A m \in T : ~(m < n)
    BY <1>3
  <1> QED
    BY <1>4

\* A nonempty set of finite sets has a member that none of the others is a proper part of.
LEMMA SmallestSet ==
    ASSUME NEW T, T # {}, \A S \in T : IsFiniteSet(S)
    PROVE  \E S \in T : \A R \in T : R \subseteq S => R = S
  <1> DEFINE N == {Cardinality(S) : S \in T}
  <1>1. N \in SUBSET Nat /\ N # {}
    BY FS_CardinalityType
  <1>2. PICK n \in N : \A m \in N : n <= m
    <2> HIDE DEF N
    <2> QED
      BY <1>1, SmallestElement
  <1>3. PICK S \in T : n = Cardinality(S)
    OBVIOUS
  <1>4. ASSUME NEW R \in T, R \subseteq S PROVE R = S
    <2>1. Cardinality(S) <= Cardinality(R)
      BY <1>2, <1>3
    <2>2. /\ Cardinality(R) <= Cardinality(S) /\ (Cardinality(S) = Cardinality(R) => S = R)
          /\ Cardinality(R) \in Nat /\ Cardinality(S) \in Nat
      BY <1>4, FS_Subset, FS_CardinalityType
    <2> QED
      BY <2>1, <2>2
  <1> QED
    BY <1>4

\* The element that a sum over s takes first.
Pick1(s) == CHOOSE x \in s : TRUE

\* f adds up u over every part of S, one element after the other.
AddsUp(f, S, u) ==
    f = [s \in SUBSET S |-> IF s = {} THEN 0 ELSE u[Pick1(s)] + f[s \ {Pick1(s)}]]

\* Two recursions agree on the parts that both add up, if their terms do.
LEMMA AddsUpAgree ==
    ASSUME NEW S, NEW R, NEW u, NEW v, NEW f, NEW g, AddsUp(f, S, u), AddsUp(g, R, v),
           NEW T, T \subseteq S, T \subseteq R, IsFiniteSet(T), \A x \in T : u[x] = v[x]
    PROVE  f[T] = g[T]
  <1> DEFINE Bad == {s \in SUBSET T : f[s] # g[s]}
  <1> SUFFICES ASSUME Bad # {} PROVE FALSE
    OBVIOUS
  <1>1. PICK s \in Bad : \A r \in Bad : r \subseteq s => r = s
    <2>1. \A r \in Bad : IsFiniteSet(r)
      BY FS_Subset
    <2> HIDE DEF Bad
    <2> QED
      BY <2>1, SmallestSet
  <1>2. s \in SUBSET S /\ s \in SUBSET R /\ s \in SUBSET T
    OBVIOUS
  <1> DEFINE x == Pick1(s)
  <1>3. /\ f[s] = IF s = {} THEN 0 ELSE u[x] + f[s \ {x}]
        /\ g[s] = IF s = {} THEN 0 ELSE v[x] + g[s \ {x}]
    BY <1>2 DEF AddsUp
  <1>4. s # {} /\ x \in s
    BY <1>1, <1>3 DEF Pick1
  <1>5. f[s \ {x}] = g[s \ {x}]
    <2> HIDE DEF x
    <2> QED
      BY <1>1, <1>2, <1>4
  <1>6. u[x] = v[x]
    BY <1>2, <1>4
  <1> HIDE DEF x
  <1> QED
    BY <1>1, <1>3, <1>5, <1>6

\* The recursion is defined.
LEMMA AddsUpDefined ==
    ASSUME NEW S, IsFiniteSet(S), NEW u
    PROVE  \E f : AddsUp(f, S, u)
  <1> DEFINE Bad == {T \in SUBSET S : ~\E f : AddsUp(f, T, u)}
  <1> SUFFICES ASSUME Bad # {} PROVE FALSE
    OBVIOUS
  <1>1. \A r \in SUBSET S : IsFiniteSet(r)
    BY FS_Subset
  <1>2. PICK T \in Bad : \A r \in Bad : r \subseteq T => r = T
    <2>1. \A r \in Bad : IsFiniteSet(r)
      BY <1>1
    <2> HIDE DEF Bad
    <2> QED
      BY <2>1, SmallestSet
  <1> DEFINE G(r) == CHOOSE g : AddsUp(g, r, u)
             f == [s \in SUBSET T |-> IF s = {} THEN 0
                                      ELSE u[Pick1(s)] + G(s \ {Pick1(s)})[s \ {Pick1(s)}]]
  <1>3. T \in SUBSET S /\ IsFiniteSet(T)
    BY <1>1
  <1>4. ASSUME NEW r \in SUBSET T, r # T PROVE AddsUp(G(r), r, u)
    <2>1. r \notin Bad
      BY <1>2, <1>4
    <2> QED
      BY <1>3, <2>1
  <1>5. ASSUME NEW s \in SUBSET T, s # {}
        PROVE  /\ Pick1(s) \in s /\ s \ {Pick1(s)} \in SUBSET T /\ s \ {Pick1(s)} # T
    BY <1>5 DEF Pick1
  <1>6. ASSUME NEW r \in SUBSET T, r # T PROVE f[r] = G(r)[r]
    <2>1. AddsUp(G(r), r, u)
      BY <1>4, <1>6
    <2>2. CASE r = {}
      <3>1. f[r] = 0
        BY <2>2
      <3>2. G(r)[r] = 0
        <4> HIDE DEF G
        <4> QED
          BY <2>1, <2>2 DEF AddsUp
      <3> QED
        BY <3>1, <3>2
    <2>3. CASE r # {}
      <3> DEFINE q == r \ {Pick1(r)}
      <3>1. Pick1(r) \in r /\ q \in SUBSET T /\ q # T /\ q \subseteq r /\ IsFiniteSet(q)
        BY <1>1, <1>3, <1>5, <2>3
      <3>2. f[r] = u[Pick1(r)] + G(q)[q]
        BY <2>3
      <3>3. G(r)[r] = u[Pick1(r)] + G(r)[q]
        <4> HIDE DEF G
        <4> QED
          BY <2>1, <2>3 DEF AddsUp
      <3>4. AddsUp(G(q), q, u)
        BY <1>4, <3>1
      <3>5. G(q)[q] = G(r)[q]
        <4> HIDE DEF G, q
        <4> QED
          BY <2>1, <3>1, <3>4, AddsUpAgree
      <3> QED
        BY <3>2, <3>3, <3>5
    <2> QED
      BY <2>2, <2>3
  <1>7. AddsUp(f, T, u)
    <2>1. ASSUME NEW s \in SUBSET T, s # {}
          PROVE  G(s \ {Pick1(s)})[s \ {Pick1(s)}] = f[s \ {Pick1(s)}]
      BY <1>5, <1>6, <2>1
    <2> HIDE DEF G
    <2>2. f = [s \in SUBSET T |-> IF s = {} THEN 0 ELSE u[Pick1(s)] + f[s \ {Pick1(s)}]]
      BY <2>1
    <2> HIDE DEF f
    <2> QED
      BY <2>2 DEF AddsUp
  <1> QED
    BY <1>2, <1>7

\* The sum that TokensOf takes, of any numbers.
Total(u, S) == (CHOOSE f : AddsUp(f, S, u))[S]

LEMMA TokensOfIsTotal == ASSUME NEW S PROVE TokensOf(S) = Total(usage, S)
  BY Zenon DEF TokensOf, MapThenSumSet, MapThenFoldSet, Total, AddsUp, Pick1

\* The total is what the recursion says, and depends on the terms of its set alone.
LEMMA TotalDefinition ==
    ASSUME NEW S, IsFiniteSet(S), NEW u
    PROVE  /\ S = {} => Total(u, S) = 0
           /\ S # {} => Pick1(S) \in S /\ Total(u, S) = u[Pick1(S)] + Total(u, S \ {Pick1(S)})
  <1> DEFINE f == CHOOSE g : AddsUp(g, S, u)
             R == S \ {Pick1(S)}
             h == CHOOSE g : AddsUp(g, R, u)
  <1>1. AddsUp(f, S, u)
    BY AddsUpDefined
  <1>2. IsFiniteSet(R) /\ R \subseteq S
    BY FS_Subset
  <1>3. AddsUp(h, R, u)
    <2> HIDE DEF R
    <2> QED
      BY <1>2, AddsUpDefined
  <1>4. Total(u, S) = f[S] /\ Total(u, R) = h[R]
    BY DEF Total
  <1> HIDE DEF f, h
  <1>5. f[R] = h[R]
    <2> HIDE DEF R
    <2> QED
      BY <1>1, <1>2, <1>3, AddsUpAgree
  <1>6. f[S] = IF S = {} THEN 0 ELSE u[Pick1(S)] + f[R]
    BY <1>1 DEF AddsUp
  <1>7. S # {} => Pick1(S) \in S
    BY DEF Pick1
  <1> QED
    BY <1>4, <1>5, <1>6, <1>7

LEMMA TotalSame ==
    ASSUME NEW S, IsFiniteSet(S), NEW u, NEW v, \A x \in S : u[x] = v[x]
    PROVE  Total(u, S) = Total(v, S)
  <1>1. PICK f : AddsUp(f, S, u) /\ Total(u, S) = f[S]
    BY AddsUpDefined DEF Total
  <1>2. PICK g : AddsUp(g, S, v) /\ Total(v, S) = g[S]
    BY AddsUpDefined DEF Total
  <1> QED
    BY <1>1, <1>2, AddsUpAgree

\* The total does not depend on the order in which the elements are taken: one more
\* element adds its own term.
LEMMA TotalAdds ==
    ASSUME NEW C, IsFiniteSet(C), NEW u \in [C -> Nat], NEW S \in SUBSET C, NEW c \in C \ S
    PROVE  Total(u, S) \in Nat /\ Total(u, S \cup {c}) = Total(u, S) + u[c]
  <1> DEFINE Bad == {T \in SUBSET C :
               ~(Total(u, T) \in Nat /\ \A d \in C \ T : Total(u, T \cup {d}) = Total(u, T) + u[d])}
  <1> SUFFICES ASSUME Bad # {} PROVE FALSE
    OBVIOUS
  <1>1. \A r \in SUBSET C : IsFiniteSet(r)
    BY FS_Subset
  <1>2. PICK T \in Bad : \A r \in Bad : r \subseteq T => r = T
    <2>1. \A r \in Bad : IsFiniteSet(r)
      BY <1>1
    <2> HIDE DEF Bad
    <2> QED
      BY <2>1, SmallestSet
  <1>3. T \in SUBSET C /\ \A x \in C : u[x] \in Nat
    OBVIOUS
  <1>4. ASSUME NEW r \in SUBSET T, r # T
        PROVE  Total(u, r) \in Nat /\ \A d \in C \ r : Total(u, r \cup {d}) = Total(u, r) + u[d]
    <2>1. r \notin Bad /\ r \in SUBSET C
      BY <1>2, <1>3, <1>4
    <2> QED
      BY <2>1
  <1>5. ASSUME NEW x \in T
        PROVE  /\ Total(u, T \ {x}) \in Nat
               /\ \A d \in C \ (T \ {x}) : Total(u, (T \ {x}) \cup {d}) = Total(u, T \ {x}) + u[d]
    <2>1. T \ {x} \in SUBSET T /\ T \ {x} # T
      OBVIOUS
    <2> QED
      BY <1>4, <2>1
  <1>6. ASSUME NEW x \in T PROVE Total(u, T) = Total(u, T \ {x}) + u[x]
    <2>1. (T \ {x}) \cup {x} = T /\ x \in C \ (T \ {x})
      BY <1>3
    <2> QED
      BY <1>5, <2>1
  <1>7. Total(u, T) \in Nat
    <2>1. CASE T = {}
      BY <1>1, <1>3, <2>1, TotalDefinition
    <2>2. CASE T # {}
      <3>1. PICK x : x \in T
        BY <2>2
      <3>2. u[x] \in Nat
        BY <1>3, <3>1
      <3>3. Total(u, T \ {x}) \in Nat /\ Total(u, T) = Total(u, T \ {x}) + u[x]
        BY <1>5, <1>6, <3>1
      <3> QED
        BY <3>2, <3>3
    <2> QED
      BY <2>1, <2>2
  <1>8. ASSUME NEW d \in C \ T PROVE Total(u, T \cup {d}) = Total(u, T) + u[d]
    <2> DEFINE U == T \cup {d}
               y == Pick1(U)
    <2>1. U \in SUBSET C /\ U # {}
      BY <1>3
    <2>2. y \in U /\ Total(u, U) = u[y] + Total(u, U \ {y})
      BY <1>1, <2>1, TotalDefinition
    <2> HIDE DEF y
    <2>3. CASE y = d
      <3>1. U \ {y} = T
        BY <2>3
      <3> QED
        BY <1>3, <1>7, <2>2, <2>3, <3>1
    <2>4. CASE y # d
      <3>1. y \in T
        BY <2>2, <2>4
      <3>2. U \ {y} = (T \ {y}) \cup {d} /\ d \in C \ (T \ {y})
        BY <2>4
      <3>3. /\ Total(u, U \ {y}) = Total(u, T \ {y}) + u[d] /\ Total(u, T \ {y}) \in Nat
        BY <1>5, <3>1, <3>2
      <3>4. Total(u, T) = Total(u, T \ {y}) + u[y]
        BY <1>6, <3>1
      <3>5. u[y] \in Nat /\ u[d] \in Nat
        BY <1>3, <3>1
      <3> HIDE DEF U
      <3>6. Total(u, U) = Total(u, T) + u[d]
        BY <2>2, <3>3, <3>4, <3>5
      <3> QED
        BY <3>6 DEF U
    <2> QED
      BY <2>3, <2>4
  <1> QED
    BY <1>2, <1>7, <1>8

-----------------------------------------------------------------------------
(* What the counters stand for while no call fails *)

\* The reservation of k that the handler h is about to pay back.
Owes(h, k) == Pc(h) = "settle" /\ k \in handler[h].owed
\* The reservations that a finisher may pay back as well as the create.
Shared == {"active", "tokens"}

\* Whoever owes a reservation that finishers may pay back is alone with it.
ShareInv ==
    /\ \A h \in Handlers : \A k \in Shared : Owes(h, k) =>
         marker[RunOf(h)] = {} /\ (handler[RunOf(h)].committed \/ h = RunOf(h))
    /\ \A g, h \in Handlers : \A k \in Shared :
         RunOf(g) = RunOf(h) /\ Owes(g, k) /\ Owes(h, k) => g = h

\* Where a handler releases the run that it has finished, and where it finishes it.
Releasing == {"usage", "marker", "delete"}
Finishing == {"before", "update"} \cup Releasing

\* A create without failures: what it has reserved, handed over and committed where it is,
\* and what has become of its run.
CreatesInv == \A c \in Creates :
    /\ handler[c].wanted = "failed"
    /\ Pc(c) \in {"idle", "check", "active"} => handler[c].reserved = {}
    /\ Pc(c) \in {"hour", "tokens"} => "tokens" \notin handler[c].reserved
    /\ Pc(c) \in {"rollback", "settle", "done"} => status[c] \in {"none"} \cup Finished
    /\ Pc(c) \in Finishing => handler[c].then = "rollback"
    /\ handler[c].committed => status[c] # "none"
    /\ handler[c].handed => Pc(c) \notin Early \cup {"dispatch"}
    /\ Pc(c) = "settle" /\ status[c] = "none" => handler[c].used = 0
    /\ status[c] = "failed" => Pc(c) \notin Early \cup Handed
    /\ status[c] = "succeeded" => handler[c].handed
    /\ CountsTokens =>
         /\ Pc(c) \in {"add", "commit"} \cup Handed => "tokens" \in handler[c].reserved
         /\ Pc(c) \in Handed => handler[c].committed
         /\ handler[c].committed => "tokens" \in handler[c].reserved

\* A finisher without failures: it completes a run that was handed over, and pays back only
\* what belonged to a finished run.
FinishersInv == \A f \in Finishers :
    /\ handler[f].then = "done"
    /\ handler[f].wanted = "failed" <=> Pc(f) = "idle"
    /\ handler[f].wanted = "succeeded" => handler[RunOf(f)].handed
    /\ Pc(f) = "saveUsage" => handler[f].wanted = "succeeded"
    /\ Pc(f) = "settle" => status[RunOf(f)] \in Finished

\* Who finished a run still has to release it, as long as its marker is there.
ReleaseInv ==
    /\ \A h \in Handlers : Pc(h) = "update" /\ handler[h].before => status[RunOf(h)] \in Finished
    /\ \A c \in Creates : status[c] = "succeeded" =>
         /\ \E f \in Finishers :
              /\ RunOf(f) = c /\ handler[f].wanted = "succeeded"
              /\ Pc(f) \notin {"idle", "saveUsage", "before", "update"}
         /\ marker[c] # {} => \E f \in Finishers : RunOf(f) = c /\ Pc(f) \in Releasing

LogicInv == ShareInv /\ CreatesInv /\ FinishersInv /\ ReleaseInv

\* The assumption under which the tokens are exact, as it reads at every step: see Plain.
TameRuns == \A c \in Creates : status[c] # "none" =>
    Pc(c) \in {"commit"} \cup Handed /\ status[c] # "canceled"

OneComplete == \A f, g \in Finishers :
    /\ handler[f].wanted = "succeeded" /\ handler[g].wanted = "succeeded"
    /\ RunOf(f) = RunOf(g)
    => f = g

Tame == TameRuns /\ OneComplete

\* Whoever has read the usage of a run has the usage that its row has.
UsedInv == \A h \in Handlers :
    Pc(h) \in {"marker", "delete", "settle"} /\ status[RunOf(h)] # "none" =>
        handler[h].used = usage[RunOf(h)]

\* The runs that have settled their tokens.
Paid == Created \ Holding("tokens")

\* The counters stand for what is held and, of the tokens, for what was used.
ExactInv ==
    /\ counter["active"] = Cardinality(Holding("active"))
    /\ CountsTokens /\ Tame =>
         /\ UsedInv
         /\ counter["tokens"] = TokenReservation * Cardinality(Holding("tokens")) + TokensOf(Paid)

TidyInv == LogicInv /\ ExactInv

-----------------------------------------------------------------------------
\* A handler h goes on to q, and nothing else changes.
Quiet(h, q) ==
    /\ Only(h) /\ handler'[h].pc = q /\ UNCHANGED <<status, marker>>
    /\ handler'[h].reserved = handler[h].reserved /\ handler'[h].committed = handler[h].committed
    /\ handler'[h].run = handler[h].run \/ (h \in Finishers /\ Pc(h) = "idle")
    /\ handler[h].handed => handler'[h].handed
    /\ q \notin {"idle", "settle"} /\ Pc(h) # "done"
    /\ Pc(h) = "settle" => handler[h].owed = {}
    /\ q = "update" /\ handler'[h].before => status[handler'[h].run] \in Finished
    /\ q = "marker" => handler'[h].used = usage[handler'[h].run]
    /\ q = "delete" => Pc(h) = "marker" /\ handler'[h].used = handler[h].used

QuietCreate(h, q) == h \in Creates =>
    /\ handler'[h].wanted = "failed"
    /\ q \in {"check", "active"} => handler[h].reserved = {}
    /\ q \in {"hour", "tokens"} => "tokens" \notin handler[h].reserved
    /\ q \in {"rollback", "done"} => status[h] \in {"none"} \cup Finished
    /\ handler'[h].handed => q \notin Early \cup {"dispatch"}
    /\ q \in Early \cup Handed => Pc(h) \in Early \cup Handed
    /\ q \in {"commit"} \cup Handed => Pc(h) \in {"commit"} \cup Handed
    /\ q \in Finishing => handler'[h].then = "rollback"
    /\ CountsTokens => /\ q \in {"add", "commit"} \cup Handed => "tokens" \in handler[h].reserved
                       /\ q \in Handed => handler[h].committed
    /\ \/ handler[h].committed \/ handler[h].reserved = {}
       \/ Pc(h) \in {"settle", "done"} <=> q = "done"

QuietFinisher(h, q) == h \in Finishers =>
    /\ handler'[h].then = "done" /\ handler'[h].wanted # "failed"
    /\ handler'[h].wanted = handler[h].wanted \/ Pc(h) = "idle"
    /\ handler'[h].wanted = "succeeded" => handler[handler'[h].run].handed
    /\ q = "saveUsage" => handler'[h].wanted = "succeeded"
    /\ q \in {"saveUsage", "before", "update"} => Pc(h) \in {"idle", "saveUsage", "before", "update"}
    /\ Pc(h) \in Releasing /\ marker[RunOf(h)] # {} => q \in Releasing

\* A quiet step keeps the invariant: it moves one handler, and neither reserves nor pays.
LEMMA QuietLogic ==
    ASSUME IInv, IInv', LogicInv, NEW h \in Handlers, NEW q, Quiet(h, q), QuietCreate(h, q),
           QuietFinisher(h, q)
    PROVE  LogicInv'
  <1>1. \A g \in Handlers : g # h => handler'[g] = handler[g]
    BY DEF Quiet, Only
  <1>2. Creates \subseteq Handlers /\ Finishers \subseteq Handlers /\ Creates \cap Finishers = {}
    BY RequestsAssumption DEF Handlers
  <1>3. CreatesInv'
    BY <1>1, <1>2 DEF CreatesInv, LogicInv, Quiet, QuietCreate, Pc
  <1>4. \A c \in Creates : handler[c].handed => handler'[c].handed
    BY <1>1, <1>2 DEF Quiet
  <1>5. \A f \in Finishers : Pc(f) # "idle" => RunOf(f) \in Creates
    BY <1>2 DEF IInv, OwnerInv, RunInv
  <1>6. FinishersInv'
    <2>1. ASSUME NEW f \in Finishers, f # h
          PROVE  /\ handler'[f] = handler[f]
                 /\ handler[f].wanted = "succeeded" => handler'[RunOf(f)].handed
      BY <1>1, <1>2, <1>4, <1>5, <2>1 DEF LogicInv, FinishersInv
    <2>2. h \in Finishers /\ handler'[h].wanted = "succeeded" => handler'[handler'[h].run].handed
      <3>1. h \in Finishers => handler'[h].run \in Creates
        BY <1>2 DEF IInv, OwnerInv, RunInv, Quiet, RunOf, Pc
      <3> QED
        BY <1>4, <3>1 DEF QuietFinisher
    <2> QED
      BY <2>1, <2>2 DEF FinishersInv, LogicInv, Quiet, QuietFinisher, Pc, RunOf
  <1>7. ShareInv'
    <2>1. \A g \in Handlers, k \in Shared : Owes(g, k)' =>
            Owes(g, k) /\ g # h /\ RunOf(g) \in Handlers /\ handler'[g].run = RunOf(g)
      BY <1>1, <1>2 DEF Owes, Quiet, Pc, RunOf, IInv, OwnerInv, RunInv
    <2>2. \A g \in Handlers : handler'[g].committed = handler[g].committed
      BY <1>1 DEF Quiet
    <2> QED
      BY <2>1, <2>2 DEF ShareInv, LogicInv, Quiet, RunOf
  <1>8. ReleaseInv'
    <2>1. \A g \in Handlers : handler'[g].pc = "update" /\ handler'[g].before => status'[handler'[g].run] \in Finished
      BY <1>1, <1>2 DEF ReleaseInv, LogicInv, Quiet, Pc, RunOf, QuietFinisher
    <2>2. ASSUME NEW c \in Creates, status'[c] = "succeeded"
          PROVE  /\ \E f \in Finishers :
                      /\ handler'[f].run = c /\ handler'[f].wanted = "succeeded"
                      /\ handler'[f].pc \notin {"idle", "saveUsage", "before", "update"}
                 /\ marker'[c] # {} => \E f \in Finishers : handler'[f].run = c /\ handler'[f].pc \in Releasing
      <3>1. status[c] = "succeeded" /\ marker' = marker
        BY <2>2 DEF Quiet
      <3>2. PICK f \in Finishers :
              /\ RunOf(f) = c /\ handler[f].wanted = "succeeded"
              /\ Pc(f) \notin {"idle", "saveUsage", "before", "update"}
        BY <3>1 DEF LogicInv, ReleaseInv
      <3>3. /\ handler'[f].run = c /\ handler'[f].wanted = "succeeded"
            /\ handler'[f].pc \notin {"idle", "saveUsage", "before", "update"}
        BY <1>1, <1>2, <3>2 DEF Quiet, QuietFinisher, Pc, RunOf
      <3>4. ASSUME marker[c] # {}
            PROVE  \E e \in Finishers : handler'[e].run = c /\ handler'[e].pc \in Releasing
        <4>1. PICK e \in Finishers : RunOf(e) = c /\ Pc(e) \in Releasing
          BY <3>1, <3>4 DEF LogicInv, ReleaseInv
        <4>2. handler'[e].run = c /\ handler'[e].pc \in Releasing
          BY <1>1, <1>2, <3>4, <4>1 DEF Quiet, QuietFinisher, Pc, RunOf, Releasing
        <4> QED
          BY <4>2
      <3> QED
        BY <3>1, <3>3, <3>4
    <2> QED
      BY <2>1, <2>2 DEF ReleaseInv, Pc, RunOf
  <1> QED
    BY <1>3, <1>6, <1>7, <1>8 DEF LogicInv

\* There are finitely many runs to count.
LEMMA RowsFinite == /\ \A k : IsFiniteSet(Holding(k)) /\ Holding(k) \subseteq Creates
                    /\ IsFiniteSet(Paid) /\ Paid \subseteq Creates
  <1>1. /\ \A k : Holding(k) \subseteq Creates
        /\ Paid \subseteq Creates
    BY DEF Holding, Paid, Created
  <1> QED
    BY <1>1, RequestsAssumption, FS_Subset

\* A step that counts nothing and pays nothing back.
LEMMA ExactKept ==
    ASSUME ExactInv, UNCHANGED counter,
           Holding("active")' = Holding("active"),
           CountsTokens /\ Tame' =>
             /\ Tame /\ UsedInv' /\ Holding("tokens")' = Holding("tokens")
             /\ Paid' = Paid /\ \A c \in Paid : usage'[c] = usage[c]
    PROVE  ExactInv'
  <1>1. counter'["active"] = Cardinality(Holding("active")')
    BY DEF ExactInv
  <1>2. ASSUME CountsTokens, Tame'
        PROVE  counter'["tokens"] = TokenReservation * Cardinality(Holding("tokens")') + TokensOf(Paid)'
    <2>1. TokensOf(Paid) = Total(usage, Paid)
      BY TokensOfIsTotal
    <2>2. TokensOf(Paid)' = Total(usage', Paid')
      BY Zenon DEF TokensOf, MapThenSumSet, MapThenFoldSet, Total, AddsUp, Pick1
    <2>3. Total(usage', Paid) = Total(usage, Paid)
      BY <1>2, RowsFinite, TotalSame
    <2>4. counter'["tokens"] = TokenReservation * Cardinality(Holding("tokens")) + TokensOf(Paid)
      BY <1>2 DEF ExactInv
    <2>5. Holding("tokens")' = Holding("tokens") /\ Paid' = Paid
      BY <1>2
    <2>6. TokensOf(Paid)' = TokensOf(Paid)
      BY <2>1, <2>2, <2>3, <2>5
    <2>7. Cardinality(Holding("tokens")') = Cardinality(Holding("tokens"))
      BY <2>5
    <2> HIDE DEF Paid
    <2> QED
      BY <2>4, <2>6, <2>7
  <1>3. CountsTokens /\ Tame' => UsedInv'
    OBVIOUS
  <1> QED
    BY <1>1, <1>2, <1>3 DEF ExactInv

LEMMA QuietHolding ==
    ASSUME IInv, NEW h \in Handlers, NEW q, Quiet(h, q), QuietCreate(h, q), NEW k
    PROVE  Holding(k)' = Holding(k)
  <1>1. /\ \A g \in Handlers : g # h => handler'[g] = handler[g]
        /\ marker' = marker /\ Creates \subseteq Handlers
    BY DEF Quiet, Only, Handlers
  <1>2. \A g \in Handlers : Owes(g, k)' <=> Owes(g, k) /\ g # h
    BY <1>1 DEF Owes, Quiet, Pc
  <1>3. ~Owes(h, k)
    BY DEF Owes, Quiet
  <1>4. \A g \in Handlers : Owes(g, k) => handler'[g].run = handler[g].run
    BY <1>1, <1>3
  <1>5. \A c \in Creates :
          k \in handler'[c].reserved /\ ~handler'[c].committed /\ handler'[c].pc \notin {"settle", "done"}
          <=> k \in handler[c].reserved /\ ~handler[c].committed /\ handler[c].pc \notin {"settle", "done"}
    BY <1>1 DEF Quiet, QuietCreate, Pc
  <1>6. \A c \in Creates : (\E g \in Handlers : handler'[g].run = c /\ Owes(g, k)')
          <=> (\E g \in Handlers : handler[g].run = c /\ Owes(g, k))
    BY <1>2, <1>3, <1>4
  <1>7. \A c \in Creates : c \in Holding(k)' <=> c \in Holding(k)
    BY <1>1, <1>5, <1>6 DEF Holding, Owes, At, Pc
  <1>8. Holding(k) \subseteq Creates /\ Holding(k)' \subseteq Creates
    BY DEF Holding
  <1> QED
    BY <1>7, <1>8

LEMMA QuietTame ==
    ASSUME IInv, LogicInv, NEW h \in Handlers, NEW q, Quiet(h, q), QuietCreate(h, q),
           QuietFinisher(h, q), Tame'
    PROVE  Tame
  <1>1. \A g \in Handlers : g # h => handler'[g] = handler[g]
    BY DEF Quiet, Only
  <1>2. Creates \subseteq Handlers /\ Finishers \subseteq Handlers
    BY DEF Handlers
  <1>3. TameRuns
    <2>1. \A c \in Creates : status[c] # "none" => handler'[c].pc \in {"commit"} \cup Handed /\ status[c] # "canceled"
      BY DEF Tame, TameRuns, Pc, Quiet
    <2> QED
      BY <1>1, <1>2, <2>1 DEF TameRuns, Quiet, QuietCreate, Pc
  <1>4. OneComplete
    <2>1. \A f \in Finishers : handler[f].wanted = "succeeded" =>
            handler'[f].wanted = "succeeded" /\ handler'[f].run = RunOf(f)
      BY <1>1, <1>2 DEF Quiet, QuietFinisher, RunOf, Pc, LogicInv, FinishersInv
    <2> QED
      BY <2>1 DEF Tame, OneComplete, RunOf
  <1> QED
    BY <1>3, <1>4 DEF Tame

LEMMA QuietGood ==
    ASSUME IInv, IInv', TidyInv, NEW h \in Handlers, NEW q, Quiet(h, q), QuietCreate(h, q),
           QuietFinisher(h, q), UNCHANGED <<usage, counter>>
    PROVE  TidyInv'
  <1>1. LogicInv'
    BY QuietLogic DEF TidyInv
  <1>2. /\ \A g \in Handlers : g # h => handler'[g] = handler[g]
        /\ UNCHANGED <<status, usage, counter, marker>>
    BY DEF Quiet, Only
  <1>3. \A k : Holding(k)' = Holding(k)
    BY QuietHolding
  <1>4. Tame' => Tame
    BY QuietTame DEF TidyInv
  <1>5. Paid' = Paid
    BY <1>2, <1>3 DEF Paid, Created
  <1>6. ASSUME UsedInv PROVE UsedInv'
    <2>1. ASSUME NEW g \in Handlers, handler'[g].pc \in {"marker", "delete", "settle"},
                 status'[handler'[g].run] # "none"
          PROVE  handler'[g].used = usage'[handler'[g].run]
      <3>1. CASE g # h
        BY <1>2, <1>6, <2>1, <3>1 DEF UsedInv, Pc, RunOf
      <3>2. CASE g = h
        <4>1. CASE q = "marker"
          BY <1>2, <3>2, <4>1 DEF Quiet
        <4>2. CASE q = "delete"
          <5>1. handler'[h].run = RunOf(h) /\ handler'[h].used = handler[h].used /\ Pc(h) = "marker"
            BY <4>2 DEF Quiet, RunOf
          <5> QED
            BY <1>2, <1>6, <2>1, <3>2, <5>1 DEF UsedInv
        <4> QED
          BY <2>1, <3>2, <4>1, <4>2 DEF Quiet
      <3> QED
        BY <3>1, <3>2
    <2> QED
      BY <2>1 DEF UsedInv, Pc, RunOf
  <1>7. ExactInv'
    <2>1. CountsTokens /\ Tame' => Tame /\ UsedInv'
      BY <1>4, <1>6 DEF TidyInv, ExactInv
    <2> QED
      BY <1>2, <1>3, <1>5, <2>1, ExactKept DEF TidyInv
  <1> QED
    BY <1>1, <1>7 DEF TidyInv

\* What a step leaves as it is in the handler that takes it.
SameRun(h) ==
    /\ handler'[h].run = handler[h].run /\ handler'[h].wanted = handler[h].wanted
    /\ handler'[h].then = handler[h].then /\ handler'[h].reserved = handler[h].reserved
    /\ handler'[h].committed = handler[h].committed /\ handler'[h].handed = handler[h].handed

SameDebt(h) == handler'[h].owed = handler[h].owed /\ handler'[h].used = handler[h].used

LEMMA GotoKeeps ==
    ASSUME TypeOK, NEW h \in Handlers, NEW pc \in PCs, Goto(h, pc)
    PROVE  Only(h) /\ handler'[h].pc = pc /\ SameRun(h) /\ SameDebt(h)
  <1> DEFINE t == [handler[h] EXCEPT !.pc = pc]
  <1>1. handler \in [Handlers -> Handler] /\ handler[h] \in Handler
    BY DEF TypeOK
  <1>2. /\ t \in Handler /\ t.pc = pc /\ t.run = handler[h].run /\ t.reserved = handler[h].reserved
        /\ t.committed = handler[h].committed /\ t.owed = handler[h].owed /\ t.then = handler[h].then
        /\ t.wanted = handler[h].wanted /\ t.handed = handler[h].handed /\ t.used = handler[h].used
    BY <1>1 DEF Handler
  <1>3. handler' = [handler EXCEPT ![h] = t]
    BY DEF Goto
  <1> HIDE DEF t
  <1> QED
    BY <1>1, <1>2, <1>3 DEF Only, SameRun, SameDebt

\* A step that leaves no fault behind took none.
LEMMA NoFault == ASSUME TypeOK, faults = 0, faults' = 0, NEW kind PROVE ~Fault(kind)
  BY DEF Fault

\* The parts of the two invariants.
LEMMA Tidied == ASSUME IInv, TidyInv
                PROVE  /\ TypeOK /\ RunInv /\ MarkerInv
                       /\ CreatesInv /\ FinishersInv /\ ReleaseInv /\ ShareInv /\ LogicInv
                       /\ Creates \subseteq Handlers /\ Finishers \subseteq Handlers
                       /\ Creates \cap Finishers = {} /\ Handlers = Creates \cup Finishers
  BY RequestsAssumption DEF IInv, OwnerInv, TidyInv, LogicInv, Handlers

\* Each action keeps the invariant, if it does not fail.
LEMMA ReceiveTidy ==
    ASSUME IInv, IInv', TidyInv, faults = 0, faults' = 0, NEW c \in Creates, Receive(c)
    PROVE  TidyInv'
  <1>1. /\ TypeOK /\ CreatesInv /\ c \in Handlers /\ c \notin Finishers
    BY Tidied
  <1>2. Only(c) /\ handler'[c].pc = "check" /\ SameRun(c) /\ SameDebt(c)
    BY <1>1, GotoKeeps DEF Receive, PCs
  <1>3. Pc(c) = "idle" /\ UNCHANGED <<status, usage, counter, marker>>
    BY DEF Receive, At, Pc
  <1>4. Quiet(c, "check")
    BY <1>2, <1>3 DEF Quiet, SameRun
  <1>5. QuietCreate(c, "check") /\ QuietFinisher(c, "check")
    BY <1>1, <1>2, <1>3 DEF QuietCreate, QuietFinisher, CreatesInv, SameRun, Early, Handed, Finishing, Releasing
  <1> QED
    BY <1>1, <1>2, <1>3, <1>4, <1>5, QuietGood

LEMMA CheckTidy ==
    ASSUME IInv, IInv', TidyInv, faults = 0, faults' = 0, NEW c \in Creates, Check(c)
    PROVE  TidyInv'
  <1>1. /\ TypeOK /\ CreatesInv /\ RunInv /\ c \in Handlers /\ c \notin Finishers
    BY Tidied
  <1>2. PICK q \in {"active", "done"} : Goto(c, q)
    BY DEF Check
  <1>3. Only(c) /\ handler'[c].pc = q /\ SameRun(c) /\ SameDebt(c)
    BY <1>1, <1>2, GotoKeeps DEF PCs, Keys
  <1>4. Pc(c) = "check" /\ UNCHANGED <<status, usage, counter, marker>>
    BY DEF Check, At, Pc
  <1>5. Quiet(c, q)
    BY <1>3, <1>4 DEF Quiet, SameRun
  <1>6. status[c] = "none" /\ handler[c].reserved = {}
    BY <1>1, <1>4 DEF RunInv, CreatesInv, Early
  <1>7. QuietCreate(c, q) /\ QuietFinisher(c, q)
    BY <1>1, <1>3, <1>4, <1>6 DEF QuietCreate, QuietFinisher, CreatesInv, SameRun, Early, Handed, Finishing, Releasing
  <1> QED
    BY <1>1, <1>4, <1>5, <1>7, QuietGood

LEMMA HandOverTidy ==
    ASSUME IInv, IInv', TidyInv, faults = 0, faults' = 0, NEW c \in Creates, HandOver(c)
    PROVE  TidyInv'
  <1> DEFINE t == [handler[c] EXCEPT !.pc = "dispatching", !.handed = TRUE]
  <1>1. /\ TypeOK /\ CreatesInv /\ c \in Handlers /\ c \notin Finishers /\ handler[c] \in Handler
    BY Tidied DEF TypeOK
  <1>2. /\ t \in Handler /\ t.pc = "dispatching" /\ t.run = handler[c].run
        /\ t.reserved = handler[c].reserved /\ t.committed = handler[c].committed
        /\ t.wanted = handler[c].wanted /\ t.handed /\ t.then = handler[c].then
    BY <1>1 DEF Handler, PCs
  <1>3. handler' = [handler EXCEPT ![c] = t]
    BY <1>1 DEF HandOver, TypeOK
  <1>4. Only(c) /\ handler'[c] = t
    <2> HIDE DEF t
    <2> QED
      BY <1>1, <1>2, <1>3, Becomes
  <1>5. Pc(c) = "dispatch" /\ UNCHANGED <<status, usage, counter, marker>>
    BY DEF HandOver, At, Pc
  <1> HIDE DEF t
  <1>6. Quiet(c, "dispatching")
    BY <1>2, <1>4, <1>5 DEF Quiet
  <1>7. QuietCreate(c, "dispatching") /\ QuietFinisher(c, "dispatching")
    BY <1>1, <1>2, <1>4, <1>5 DEF QuietCreate, QuietFinisher, CreatesInv, Early, Handed, Finishing, Releasing
  <1> QED
    BY <1>1, <1>5, <1>6, <1>7, QuietGood

LEMMA FailRunKeeps ==
    ASSUME TypeOK, NEW c \in Handlers, handler' = [handler EXCEPT ![c] = FailRun(@)]
    PROVE  /\ Only(c) /\ handler'[c].pc = "before" /\ handler'[c].wanted = "failed"
           /\ handler'[c].then = "rollback" /\ handler'[c].run = handler[c].run
           /\ handler'[c].reserved = handler[c].reserved
           /\ handler'[c].committed = handler[c].committed /\ handler'[c].handed = handler[c].handed
  <1> DEFINE t == FailRun(handler[c])
  <1>1. handler[c] \in Handler
    BY DEF TypeOK
  <1>2. /\ t \in Handler /\ t.pc = "before" /\ t.wanted = "failed" /\ t.then = "rollback"
        /\ t.run = handler[c].run /\ t.reserved = handler[c].reserved
        /\ t.committed = handler[c].committed /\ t.handed = handler[c].handed
    BY <1>1 DEF FailRun, Handler, PCs, Finished
  <1>3. handler' = [handler EXCEPT ![c] = t]
    OBVIOUS
  <1> HIDE DEF t
  <1> QED
    BY <1>2, <1>3, Becomes

LEMMA DispatchReturnsTidy ==
    ASSUME IInv, IInv', TidyInv, faults = 0, faults' = 0, NEW c \in Creates, DispatchReturns(c)
    PROVE  TidyInv'
  <1>1. /\ TypeOK /\ CreatesInv /\ c \in Handlers /\ c \notin Finishers
    BY Tidied
  <1>2. Pc(c) \in {"dispatch", "dispatching"} /\ UNCHANGED <<status, usage, counter, marker>>
    BY DEF DispatchReturns, Pc
  <1>3. PICK q \in {"accepted", "before"} :
          /\ Only(c) /\ handler'[c].pc = q /\ handler'[c].wanted = "failed"
          /\ handler'[c].run = handler[c].run /\ handler'[c].reserved = handler[c].reserved
          /\ handler'[c].committed = handler[c].committed /\ handler'[c].handed = handler[c].handed
          /\ q = "before" => handler'[c].then = "rollback"
    <2>1. CASE Goto(c, "accepted")
      <3>1. Only(c) /\ handler'[c].pc = "accepted" /\ SameRun(c)
        BY <1>1, <2>1, GotoKeeps DEF PCs
      <3> QED
        BY <1>1, <3>1 DEF SameRun, CreatesInv
    <2>2. CASE handler' = [handler EXCEPT ![c] = FailRun(@)]
      BY <1>1, <2>2, FailRunKeeps
    <2> QED
      BY <2>1, <2>2 DEF DispatchReturns
  <1>4. Quiet(c, q)
    BY <1>2, <1>3 DEF Quiet
  <1>5. QuietCreate(c, q) /\ QuietFinisher(c, q)
    BY <1>1, <1>2, <1>3 DEF QuietCreate, QuietFinisher, CreatesInv, Early, Handed, Finishing, Releasing
  <1> QED
    BY <1>1, <1>2, <1>3, <1>4, <1>5, QuietGood

LEMMA GetBeforeTidy ==
    ASSUME IInv, IInv', TidyInv, faults = 0, faults' = 0, NEW h \in Handlers, GetBefore(h)
    PROVE  TidyInv'
  <1> DEFINE b == status[handler[h].run] \in Finished
             t == [handler[h] EXCEPT !.pc = "update", !.before = b]
  <1>1. /\ TypeOK /\ CreatesInv /\ FinishersInv /\ handler[h] \in Handler /\ ~Fault("store")
        /\ Creates \cap Finishers = {}
    BY Tidied, NoFault DEF TypeOK
  <1>2. /\ t \in Handler /\ t.pc = "update" /\ t.run = handler[h].run /\ t.before = b
        /\ t.reserved = handler[h].reserved /\ t.committed = handler[h].committed
        /\ t.wanted = handler[h].wanted /\ t.handed = handler[h].handed /\ t.then = handler[h].then
    <2>1. b \in BOOLEAN
      OBVIOUS
    <2> HIDE DEF b
    <2> QED
      BY <1>1, <2>1 DEF Handler, PCs
  <1>3. handler' = [handler EXCEPT ![h] = t]
    BY <1>1 DEF GetBefore, TypeOK
  <1>4. Only(h) /\ handler'[h] = t
    <2> HIDE DEF t
    <2> QED
      BY <1>1, <1>2, <1>3, Becomes
  <1>5. Pc(h) = "before" /\ UNCHANGED <<status, usage, counter, marker>>
    BY DEF GetBefore, At, Pc
  <1> HIDE DEF t
  <1>6. Quiet(h, "update")
    BY <1>2, <1>4, <1>5 DEF Quiet
  <1>7. QuietCreate(h, "update") /\ QuietFinisher(h, "update")
    BY <1>1, <1>2, <1>4, <1>5
    DEF QuietCreate, QuietFinisher, CreatesInv, FinishersInv, Early, Handed, Finishing, Releasing, RunOf
  <1> QED
    BY <1>5, <1>6, <1>7, QuietGood

LEMMA ReadUsageTidy ==
    ASSUME IInv, IInv', TidyInv, faults = 0, faults' = 0, NEW h \in Handlers, ReadUsage(h)
    PROVE  TidyInv'
  <1> DEFINE n == usage[handler[h].run]
             t == [handler[h] EXCEPT !.pc = "marker", !.used = n]
  <1>1. /\ TypeOK /\ CreatesInv /\ FinishersInv /\ handler[h] \in Handler /\ ~Fault("store")
        /\ Creates \cap Finishers = {}
    BY Tidied, NoFault DEF TypeOK
  <1>2. Pc(h) = "usage" /\ UNCHANGED <<status, usage, counter, marker>>
    BY DEF ReadUsage, At, Pc
  <1>3. n \in Nat
    BY <1>1, <1>2 DEF IInv, OwnerInv, RunInv, RunOf, TypeOK
  <1>4. /\ t \in Handler /\ t.pc = "marker" /\ t.run = handler[h].run /\ t.used = n
        /\ t.reserved = handler[h].reserved /\ t.committed = handler[h].committed
        /\ t.wanted = handler[h].wanted /\ t.handed = handler[h].handed /\ t.then = handler[h].then
    <2> HIDE DEF n
    <2> QED
      BY <1>1, <1>3 DEF Handler, PCs
  <1>5. handler' = [handler EXCEPT ![h] = t]
    BY <1>1 DEF ReadUsage, TypeOK
  <1>6. Only(h) /\ handler'[h] = t
    <2> HIDE DEF t
    <2> QED
      BY <1>1, <1>4, <1>5, Becomes
  <1> HIDE DEF t
  <1>7. Quiet(h, "marker")
    BY <1>2, <1>4, <1>6 DEF Quiet
  <1>8. QuietCreate(h, "marker") /\ QuietFinisher(h, "marker")
    BY <1>1, <1>2, <1>4, <1>6
    DEF QuietCreate, QuietFinisher, CreatesInv, FinishersInv, Early, Handed, Finishing, Releasing, RunOf
  <1> QED
    BY <1>2, <1>7, <1>8, QuietGood

LEMMA GetMarkerTidy ==
    ASSUME IInv, IInv', TidyInv, faults = 0, faults' = 0, NEW h \in Handlers, GetMarker(h)
    PROVE  TidyInv'
  <1> DEFINE kept == marker[handler[h].run]
             q == IF kept = {} THEN handler[h].then ELSE "delete"
             t == [handler[h] EXCEPT !.pc = q, !.owed = kept]
  <1>1. /\ TypeOK /\ CreatesInv /\ FinishersInv /\ handler[h] \in Handler /\ ~Fault("redis")
        /\ Creates \cap Finishers = {}
    BY Tidied, NoFault DEF TypeOK
  <1>2. Pc(h) = "marker" /\ UNCHANGED <<status, usage, counter, marker>>
    BY DEF GetMarker, At, Pc
  <1>3. kept \in SUBSET Keys /\ status[RunOf(h)] \in Finished /\ RunOf(h) \in Creates
    BY <1>1, <1>2 DEF IInv, OwnerInv, RunInv, RunOf, TypeOK
  <1>4. q \in {"rollback", "done", "delete"} /\ (q = "rollback" \/ q = "done" => q = handler[h].then)
    BY <1>1 DEF Handler
  <1>5. /\ t \in Handler /\ t.pc = q /\ t.run = handler[h].run /\ t.used = handler[h].used
        /\ t.reserved = handler[h].reserved /\ t.committed = handler[h].committed
        /\ t.wanted = handler[h].wanted /\ t.handed = handler[h].handed /\ t.then = handler[h].then
    <2> HIDE DEF kept, q
    <2> QED
      BY <1>1, <1>3, <1>4 DEF Handler, PCs
  <1>6. handler' = [handler EXCEPT ![h] = t]
    BY <1>1 DEF GetMarker, TypeOK
  <1>7. Only(h) /\ handler'[h] = t
    <2> HIDE DEF t
    <2> QED
      BY <1>1, <1>5, <1>6, Becomes
  <1>8. marker[RunOf(h)] # {} => q = "delete"
    BY DEF RunOf
  <1> HIDE DEF t, q
  <1>9. Quiet(h, q)
    BY <1>2, <1>4, <1>5, <1>7 DEF Quiet
  <1>10. QuietCreate(h, q)
    <2> SUFFICES ASSUME h \in Creates PROVE QuietCreate(h, q)
      BY DEF QuietCreate
    <2>1. RunOf(h) = h /\ handler[h].then = "rollback" /\ handler[h].wanted = "failed"
      BY <1>1, <1>2 DEF CreatesInv, IInv, OwnerInv, RunInv, Finishing, Releasing
    <2> QED
      BY <1>2, <1>3, <1>4, <1>5, <1>7, <2>1 DEF QuietCreate, Early, Handed, Finishing, Releasing
  <1>11. QuietFinisher(h, q)
    BY <1>1, <1>2, <1>4, <1>5, <1>7, <1>8 DEF QuietFinisher, FinishersInv, RunOf, Releasing
  <1> QED
    BY <1>2, <1>9, <1>10, <1>11, QuietGood

\* A handler that has nothing to release goes on to where it was to go then.
LEMMA LeavesTidy ==
    ASSUME IInv, IInv', TidyInv, NEW h \in Handlers, Goto(h, handler[h].then),
           UNCHANGED <<status, usage, counter, marker>>,
           \/ Pc(h) = "settle" /\ handler[h].owed = {}
           \/ Pc(h) = "delete" /\ marker[RunOf(h)] = {}
    PROVE  TidyInv'
  <1> DEFINE q == handler[h].then
  <1>1. /\ TypeOK /\ CreatesInv /\ FinishersInv /\ RunInv /\ MarkerInv /\ handler[h] \in Handler
        /\ Creates \cap Finishers = {}
    BY Tidied DEF TypeOK
  <1>2. q \in {"rollback", "done"}
    BY <1>1 DEF Handler
  <1>3. Only(h) /\ handler'[h].pc = q /\ SameRun(h) /\ SameDebt(h)
    BY <1>1, <1>2, GotoKeeps DEF PCs
  <1>4. Quiet(h, q)
    BY <1>2, <1>3 DEF Quiet, SameRun
  <1>5. QuietCreate(h, q)
    <2> SUFFICES ASSUME h \in Creates PROVE QuietCreate(h, q)
      BY DEF QuietCreate
    <2>1. status[h] \in {"none"} \cup Finished
      BY <1>1 DEF CreatesInv, RunInv
    <2>2. handler[h].wanted = "failed"
      BY <1>1 DEF CreatesInv
    <2>3. handler[h].committed \/ (Pc(h) = "settle" /\ q = "done")
      <3>1. CASE Pc(h) = "settle"
        BY <1>1, <1>2, <3>1 DEF MarkerInv
      <3>2. CASE Pc(h) = "delete"
        <4>1. q = "rollback"
          BY <1>1, <3>2 DEF CreatesInv, Finishing, Releasing
        <4> QED
          BY <1>1, <3>2, <4>1 DEF MarkerInv
      <3> QED
        BY <3>1, <3>2
    <2> QED
      BY <1>2, <1>3, <2>1, <2>2, <2>3 DEF QuietCreate, SameRun, Early, Handed, Finishing, Releasing
  <1>6. QuietFinisher(h, q)
    BY <1>1, <1>2, <1>3 DEF QuietFinisher, FinishersInv, SameRun, RunOf, Releasing, Pc
  <1> QED
    BY <1>4, <1>5, <1>6, QuietGood

LEMMA FinishTidy ==
    ASSUME IInv, IInv', TidyInv, faults = 0, faults' = 0, NEW f \in Finishers, Finish(f)
    PROVE  TidyInv'
  <1>1. /\ TypeOK /\ FinishersInv /\ f \in Handlers /\ f \notin Creates /\ handler[f] \in Handler
    BY Tidied DEF TypeOK
  <1>2. Pc(f) = "idle" /\ UNCHANGED <<status, usage, counter, marker>>
    BY DEF Finish, At, Pc
  <1>3. PICK run \in Creates, q \in {"saveUsage", "before"}, w \in {"succeeded", "canceled"}, n \in Nat :
          /\ handler' = [handler EXCEPT ![f] = [handler[f] EXCEPT !.pc = q, !.run = run,
                                                                  !.wanted = w, !.used = n]]
          /\ w = "succeeded" => handler[run].handed
          /\ q = "saveUsage" => w = "succeeded"
    <2>1. PICK run \in Creates :
            \/ /\ handler[run].handed
               /\ \E n \in TokenUsages :
                    handler' = [handler EXCEPT ![f] = [handler[f] EXCEPT !.pc = "saveUsage", !.run = run,
                                                          !.wanted = "succeeded", !.used = n]]
            \/ handler' = [handler EXCEPT ![f] = [handler[f] EXCEPT !.pc = "before", !.run = run,
                                                          !.wanted = "canceled", !.used = 0]]
      BY <1>1 DEF Finish, TypeOK
    <2>2. TokenUsages \subseteq Nat /\ 0 \in Nat
      BY LimitsAssumption
    <2> QED
      BY <2>1, <2>2
  <1> DEFINE t == [handler[f] EXCEPT !.pc = q, !.run = run, !.wanted = w, !.used = n]
  <1>4. /\ t \in Handler /\ t.pc = q /\ t.run = run /\ t.wanted = w
        /\ t.reserved = handler[f].reserved /\ t.committed = handler[f].committed
        /\ t.handed = handler[f].handed /\ t.then = handler[f].then
    BY <1>1 DEF Handler, PCs, Finished, Handlers
  <1>5. handler' = [handler EXCEPT ![f] = t]
    BY <1>3
  <1>6. Only(f) /\ handler'[f] = t
    <2> HIDE DEF t
    <2> QED
      BY <1>1, <1>4, <1>5, Becomes
  <1> HIDE DEF t
  <1>7. Quiet(f, q)
    BY <1>1, <1>2, <1>4, <1>6 DEF Quiet
  <1>8. QuietCreate(f, q) /\ QuietFinisher(f, q)
    BY <1>1, <1>2, <1>3, <1>4, <1>6 DEF QuietCreate, QuietFinisher, FinishersInv, Releasing
  <1> QED
    BY <1>1, <1>2, <1>7, <1>8, QuietGood

\* The usage of a run is only saved while its reservation is held.
LEMMA SaveRunUsageTidy ==
    ASSUME IInv, IInv', TidyInv, faults = 0, faults' = 0, NEW f \in Finishers, SaveRunUsage(f)
    PROVE  TidyInv'
  <1> DEFINE run == RunOf(f)
  <1>1. /\ TypeOK /\ CreatesInv /\ FinishersInv /\ ReleaseInv /\ LogicInv /\ RunInv /\ MarkerInv
        /\ f \in Handlers /\ f \notin Creates
        /\ Finishers \subseteq Handlers /\ Creates \subseteq Handlers
    BY Tidied
  <1>2. Only(f) /\ handler'[f].pc = "before" /\ SameRun(f) /\ SameDebt(f)
    BY <1>1, GotoKeeps DEF SaveRunUsage, PCs
  <1>3. Pc(f) = "saveUsage" /\ UNCHANGED <<status, counter, marker>>
    BY DEF SaveRunUsage, At, Pc
  <1>4. Quiet(f, "before")
    BY <1>2, <1>3 DEF Quiet, SameRun
  <1>5. QuietCreate(f, "before") /\ QuietFinisher(f, "before")
    BY <1>1, <1>2, <1>3 DEF QuietCreate, QuietFinisher, FinishersInv, SameRun, RunOf, Releasing
  <1>6. LogicInv'
    BY <1>1, <1>4, <1>5, QuietLogic
  <1>7. \A k : Holding(k)' = Holding(k)
    BY <1>1, <1>4, <1>5, QuietHolding
  <1>8. Paid' = Paid
    BY <1>3, <1>7 DEF Paid, Created
  <1>9. /\ run \in Creates /\ status[run] # "none" /\ handler[f].wanted = "succeeded"
        /\ \A c \in Creates : c # run => usage'[c] = usage[c]
    BY <1>1, <1>3 DEF RunInv, SaveRunUsage, RunOf, TypeOK, FinishersInv
  <1>10. ASSUME CountsTokens, Tame'
         PROVE  /\ Tame /\ UsedInv' /\ \A c \in Paid : usage'[c] = usage[c]
    <2>1. Tame
      BY <1>1, <1>4, <1>5, <1>10, QuietTame
    <2>2. Pc(run) \in {"commit"} \cup Handed /\ status[run] \notin {"canceled", "failed"}
      BY <1>1, <1>9, <2>1 DEF Tame, TameRuns, CreatesInv, Early
    <2>3. status[run] # "succeeded"
      <3> SUFFICES ASSUME status[run] = "succeeded" PROVE FALSE
        OBVIOUS
      <3>1. PICK g \in Finishers :
              /\ RunOf(g) = run /\ handler[g].wanted = "succeeded"
              /\ Pc(g) \notin {"idle", "saveUsage", "before", "update"}
        BY <1>1, <1>9 DEF ReleaseInv
      <3>2. g = f
        BY <1>9, <2>1, <3>1 DEF Tame, OneComplete
      <3> QED
        BY <1>3, <3>1, <3>2
    <2>4. status[run] \notin Finished
      BY <2>2, <2>3 DEF Finished
    <2>5. run \in Holding("tokens")
      <3>1. CASE handler[run].committed
        <4>1. marker[run] # {}
          BY <1>1, <1>9, <2>2, <2>4, <3>1 DEF MarkerInv, Handed
        <4>2. "tokens" \in handler[run].reserved
          BY <1>1, <1>9, <1>10, <3>1 DEF CreatesInv
        <4>3. "tokens" \in marker[run]
          BY <1>1, <1>9, <4>1, <4>2 DEF MarkerInv
        <4> QED
          BY <1>9, <4>3 DEF Holding
      <3>2. CASE ~handler[run].committed
        <4>1. Pc(run) = "commit" /\ "tokens" \in handler[run].reserved
          BY <1>1, <1>9, <1>10, <2>2, <3>2 DEF CreatesInv
        <4> QED
          BY <1>9, <3>2, <4>1 DEF Holding, Pc
      <3> QED
        BY <3>1, <3>2
    <2>6. \A c \in Paid : usage'[c] = usage[c]
      BY <1>9, <2>5 DEF Paid, Created
    <2>7. UsedInv'
      <3> SUFFICES ASSUME NEW g \in Handlers, handler'[g].pc \in {"marker", "delete", "settle"},
                          status'[handler'[g].run] # "none"
                   PROVE  handler'[g].used = usage'[handler'[g].run]
        BY DEF UsedInv, Pc, RunOf
      <3>1. g # f /\ handler'[g] = handler[g]
        BY <1>2 DEF Only
      <3>2. RunOf(g) \in Creates /\ Pc(g) \in {"marker", "delete", "settle"}
        BY <1>1, <3>1 DEF RunInv, Pc
      <3>3. RunOf(g) # run
        <4>1. CASE Pc(g) \in {"marker", "delete"}
          BY <1>1, <2>4, <4>1 DEF RunInv
        <4>2. CASE Pc(g) = "settle" /\ g \in Finishers
          BY <1>1, <2>4, <4>2 DEF FinishersInv
        <4>3. CASE Pc(g) = "settle" /\ g \in Creates
          BY <1>1, <2>2, <4>3 DEF RunInv, Handed
        <4> QED
          BY <3>2, <4>1, <4>2, <4>3 DEF Handlers
      <3>4. handler[g].used = usage[RunOf(g)]
        BY <1>3, <1>10, <2>1, <3>1, <3>2 DEF TidyInv, ExactInv, UsedInv, RunOf
      <3> QED
        BY <1>9, <3>1, <3>2, <3>3, <3>4 DEF RunOf
    <2> QED
      BY <2>1, <2>6, <2>7
  <1>11. ExactInv'
    BY <1>3, <1>7, <1>8, <1>10, ExactKept DEF TidyInv
  <1> QED
    BY <1>6, <1>11 DEF TidyInv

LEMMA AddUserMessageTidy ==
    ASSUME IInv, IInv', TidyInv, faults = 0, faults' = 0, NEW c \in Creates, AddUserMessage(c)
    PROVE  TidyInv'
  <1>1. /\ TypeOK /\ CreatesInv /\ FinishersInv /\ ReleaseInv /\ ShareInv /\ RunInv /\ MarkerInv
        /\ c \in Handlers /\ c \notin Finishers /\ ~Fault("store")
        /\ Finishers \subseteq Handlers /\ Creates \subseteq Handlers
        /\ Handlers = Creates \cup Finishers
    BY Tidied, NoFault
  <1>2. /\ Only(c) /\ handler'[c].pc = "commit" /\ SameRun(c) /\ SameDebt(c)
        /\ status' = [status EXCEPT ![c] = "queued"]
    BY <1>1, GotoKeeps DEF AddUserMessage, PCs
  <1>3. Pc(c) = "add" /\ UNCHANGED <<usage, counter, marker>>
    BY DEF AddUserMessage, At, Pc
  <1>4. \A g \in Handlers : /\ g # c => handler'[g] = handler[g]
                            /\ handler'[g].run = RunOf(g) /\ handler'[g].wanted = handler[g].wanted
                            /\ handler'[g].handed = handler[g].handed
                            /\ handler'[g].committed = handler[g].committed
                            /\ handler'[g].reserved = handler[g].reserved
    BY <1>2 DEF Only, SameRun, RunOf
  <1>5. /\ status[c] = "none" /\ ~handler[c].committed /\ ~handler[c].handed
        /\ status'[c] = "queued" /\ \A d \in Creates : d # c => status'[d] = status[d]
        /\ \A d \in Creates : status[d] \in Finished => d # c /\ status'[d] = status[d]
    BY <1>1, <1>2, <1>3 DEF TypeOK, RunInv, CreatesInv, Early, Finished
  <1>6. CreatesInv'
    BY <1>1, <1>2, <1>3, <1>4, <1>5 DEF CreatesInv, Pc, SameRun, SameDebt, Early, Handed, Finishing, Releasing
  <1>7. \A g \in Handlers : g # c /\ Pc(g) # "idle" => RunOf(g) \in Creates
    BY <1>1 DEF RunInv
  <1>8. FinishersInv'
    <2>1. ASSUME NEW f \in Finishers
          PROVE  /\ handler'[f] = handler[f]
                 /\ handler[f].wanted = "succeeded" => handler'[RunOf(f)].handed
                 /\ Pc(f) = "settle" => status'[RunOf(f)] \in Finished
      <3>1. handler'[f] = handler[f] /\ f \in Handlers /\ f # c
        BY <1>1, <1>4
      <3>2. Pc(f) # "idle" => RunOf(f) \in Creates
        BY <1>7, <3>1
      <3>3. handler[f].wanted = "succeeded" => Pc(f) # "idle"
        BY <1>1 DEF FinishersInv
      <3> QED
        BY <1>1, <1>4, <1>5, <3>1, <3>2, <3>3 DEF FinishersInv
    <2> QED
      BY <1>1, <2>1 DEF FinishersInv, Pc, RunOf
  <1>9. ShareInv'
    <2>1. \A g \in Handlers, k \in Shared : Owes(g, k)' => Owes(g, k) /\ RunOf(g) \in Handlers
      BY <1>1, <1>2, <1>4 DEF Owes, Pc, RunInv
    <2> QED
      BY <1>1, <1>3, <1>4, <2>1 DEF ShareInv, RunOf
  <1>10. ReleaseInv'
    <2>1. ASSUME NEW g \in Handlers, handler'[g].pc = "update", handler'[g].before
          PROVE  status'[handler'[g].run] \in Finished
      <3>1. g # c /\ handler'[g] = handler[g]
        BY <1>2, <1>4, <2>1
      <3>2. RunOf(g) \in Creates /\ status[RunOf(g)] \in Finished
        BY <1>1, <2>1, <3>1 DEF ReleaseInv, RunInv, Pc
      <3> QED
        BY <1>5, <3>1, <3>2 DEF RunOf
    <2>2. \A d \in Creates : status'[d] = "succeeded" => status[d] = "succeeded"
      BY <1>5
    <2>3. \A f \in Finishers : handler'[f] = handler[f]
      BY <1>1, <1>4
    <2>4. \A d \in Creates : status'[d] = "succeeded" =>
            /\ \E f \in Finishers :
                 /\ handler'[f].run = d /\ handler'[f].wanted = "succeeded"
                 /\ handler'[f].pc \notin {"idle", "saveUsage", "before", "update"}
            /\ marker'[d] # {} => \E f \in Finishers : handler'[f].run = d /\ handler'[f].pc \in Releasing
      BY <1>1, <1>3, <2>2, <2>3 DEF ReleaseInv, Pc, RunOf
    <2> QED
      BY <2>1, <2>4 DEF ReleaseInv, Pc, RunOf
  <1>11. \A k : Holding(k)' = Holding(k)
    <2> TAKE k
    <2>1. \A d \in Creates : (\E g \in Handlers : handler'[g].run = d /\ Owes(g, k)')
            <=> (\E g \in Handlers : handler[g].run = d /\ Owes(g, k))
      <3>1. \A g \in Handlers : Owes(g, k)' <=> Owes(g, k)
        BY <1>2, <1>3, <1>4 DEF Owes, Pc
      <3> QED
        BY <1>4, <3>1 DEF RunOf
    <2>2. \A d \in Creates :
            k \in handler'[d].reserved /\ ~handler'[d].committed /\ handler'[d].pc \notin {"settle", "done"}
            <=> k \in handler[d].reserved /\ ~handler[d].committed /\ handler[d].pc \notin {"settle", "done"}
      BY <1>1, <1>2, <1>3, <1>4 DEF Pc
    <2>3. \A d \in Creates : d \in Holding(k)' <=> d \in Holding(k)
      BY <1>3, <2>1, <2>2 DEF Holding, Owes, At, Pc
    <2>4. Holding(k) \subseteq Creates /\ Holding(k)' \subseteq Creates
      BY DEF Holding
    <2> QED
      BY <2>3, <2>4
  <1>12. ASSUME CountsTokens, Tame' PROVE Tame /\ UsedInv' /\ Paid' = Paid
    <2>1. Tame
      <3>1. TameRuns
        <4>1. \A d \in Creates : status'[d] # "none" =>
                handler'[d].pc \in {"commit"} \cup Handed /\ status'[d] # "canceled"
          BY <1>12 DEF Tame, TameRuns, Pc
        <4> QED
          BY <1>1, <1>4, <1>5, <4>1 DEF TameRuns, Pc
      <3>2. OneComplete
        <4>1. \A f \in Finishers : handler'[f] = handler[f]
          BY <1>1, <1>4
        <4> QED
          BY <1>12, <4>1 DEF Tame, OneComplete, RunOf
      <3> QED
        BY <3>1, <3>2 DEF Tame
    <2>2. c \in Holding("tokens")
      BY <1>1, <1>3, <1>5, <1>12 DEF Holding, CreatesInv, Pc
    <2>3. Paid' = Paid
      <3>1. Created' = Created \cup {c}
        BY <1>5 DEF Created
      <3> QED
        BY <1>11, <2>2, <3>1 DEF Paid
    <2>4. UsedInv'
      <3> SUFFICES ASSUME NEW g \in Handlers, handler'[g].pc \in {"marker", "delete", "settle"},
                          status'[handler'[g].run] # "none"
                   PROVE  handler'[g].used = usage'[handler'[g].run]
        BY DEF UsedInv, Pc, RunOf
      <3>1. g # c /\ handler'[g] = handler[g]
        BY <1>2, <1>4
      <3>2. RunOf(g) \in Creates /\ Pc(g) \in {"marker", "delete", "settle"}
        BY <1>1, <3>1 DEF RunInv, Pc
      <3>3. RunOf(g) # c
        <4>1. CASE g \in Creates
          BY <1>1, <3>1, <4>1 DEF RunInv
        <4>2. CASE g \in Finishers
          BY <1>1, <1>5, <3>2, <4>2 DEF RunInv, FinishersInv, Finished
        <4> QED
          BY <1>1, <4>1, <4>2
      <3>4. status[RunOf(g)] # "none"
        BY <1>5, <3>1, <3>2, <3>3 DEF RunOf
      <3> QED
        BY <1>3, <1>12, <2>1, <3>1, <3>2, <3>4 DEF TidyInv, ExactInv, UsedInv, RunOf
    <2> QED
      BY <2>1, <2>3, <2>4
  <1>13. ExactInv'
    BY <1>3, <1>11, <1>12, ExactKept DEF TidyInv
  <1> QED
    BY <1>6, <1>8, <1>9, <1>10, <1>13 DEF TidyInv, LogicInv

\* An update of the status finishes a run for the one who then releases it.
LEMMA UpdateTidy ==
    ASSUME IInv, IInv', TidyInv, faults = 0, faults' = 0, NEW h \in Handlers, Update(h)
    PROVE  TidyInv'
  <1> DEFINE run == RunOf(h)
             q == IF handler[h].before THEN handler[h].then ELSE "usage"
  <1>1. /\ TypeOK /\ CreatesInv /\ FinishersInv /\ ReleaseInv /\ ShareInv /\ RunInv /\ MarkerInv
        /\ ~Fault("store") /\ handler[h] \in Handler
        /\ Finishers \subseteq Handlers /\ Creates \subseteq Handlers
        /\ Creates \cap Finishers = {} /\ Handlers = Creates \cup Finishers
    BY Tidied, NoFault DEF TypeOK
  <1>2. /\ Pc(h) = "update" /\ UNCHANGED <<usage, counter, marker>> /\ Goto(h, q)
        /\ status' = [status EXCEPT ![run] = IF @ \in Finished THEN @ ELSE handler[h].wanted]
    BY <1>1 DEF Update, At, Pc, RunOf
  <1>3. q \in {"usage", "rollback", "done"} /\ (h \in Creates => q \in {"usage", "rollback"})
    BY <1>1, <1>2 DEF Handler, CreatesInv, Finishing
  <1>4. Only(h) /\ handler'[h].pc = q /\ SameRun(h) /\ SameDebt(h)
    <2> HIDE DEF q
    <2> QED
      BY <1>1, <1>2, <1>3, GotoKeeps DEF PCs
  <1>5. \A g \in Handlers : /\ g # h => handler'[g] = handler[g]
                            /\ handler'[g].run = RunOf(g) /\ handler'[g].wanted = handler[g].wanted
                            /\ handler'[g].handed = handler[g].handed
                            /\ handler'[g].committed = handler[g].committed
                            /\ handler'[g].reserved = handler[g].reserved
                            /\ handler'[g].then = handler[g].then
    BY <1>4 DEF Only, SameRun, RunOf
  <1>6. /\ run \in Creates /\ status[run] # "none" /\ handler[h].wanted \in Finished
        /\ h \in Creates => run = h
    BY <1>1, <1>2 DEF RunInv, Handler
  <1>7. /\ status'[run] = IF status[run] \in Finished THEN status[run] ELSE handler[h].wanted
        /\ status'[run] \in Finished
        /\ \A d \in Creates : d # run => status'[d] = status[d]
        /\ \A d \in Creates : status[d] \in Finished => status'[d] = status[d]
        /\ \A d \in Creates : status'[d] = "none" <=> status[d] = "none"
    BY <1>1, <1>2, <1>6 DEF TypeOK, Finished
  <1>8. handler[h].before => status[run] \in Finished
    BY <1>1, <1>2 DEF ReleaseInv
  <1>9. status[run] \notin Finished => q = "usage"
    BY <1>8
  <1> HIDE DEF q, run
  <1>10. CreatesInv'
    <2> SUFFICES ASSUME NEW d \in Creates
                 PROVE  /\ handler'[d].wanted = "failed"
                        /\ handler'[d].pc \in {"idle", "check", "active"} => handler'[d].reserved = {}
                        /\ handler'[d].pc \in {"hour", "tokens"} => "tokens" \notin handler'[d].reserved
                        /\ handler'[d].pc \in {"rollback", "settle", "done"} => status'[d] \in {"none"} \cup Finished
                        /\ handler'[d].pc \in Finishing => handler'[d].then = "rollback"
                        /\ handler'[d].committed => status'[d] # "none"
                        /\ handler'[d].handed => handler'[d].pc \notin Early \cup {"dispatch"}
                        /\ handler'[d].pc = "settle" /\ status'[d] = "none" => handler'[d].used = 0
                        /\ status'[d] = "failed" => handler'[d].pc \notin Early \cup Handed
                        /\ status'[d] = "succeeded" => handler'[d].handed
                        /\ CountsTokens =>
                             /\ handler'[d].pc \in {"add", "commit"} \cup Handed => "tokens" \in handler'[d].reserved
                             /\ handler'[d].pc \in Handed => handler'[d].committed
                             /\ handler'[d].committed => "tokens" \in handler'[d].reserved
      BY DEF CreatesInv, Pc
    <2>1. d = h \/ (d # h /\ handler'[d] = handler[d])
      BY <1>1, <1>5
    <2>2. status'[d] = status[d] \/ (d = run /\ status[d] \notin Finished /\ status'[d] = handler[h].wanted)
      BY <1>7
    <2>3. status'[d] = "failed" => handler'[d].pc \notin Early \cup Handed
      <3>1. CASE status[d] = "failed"
        BY <1>1, <1>3, <1>4, <2>1, <3>1 DEF CreatesInv, Early, Handed, Pc
      <3>2. CASE d = run /\ handler[h].wanted = "failed"
        <4>1. h \in Creates
          BY <1>1, <1>2, <3>2 DEF FinishersInv
        <4> QED
          BY <1>3, <1>4, <1>6, <3>2, <4>1 DEF Early, Handed
      <3> QED
        BY <2>2, <3>1, <3>2
    <2>4. status'[d] = "succeeded" => handler'[d].handed
      <3>1. CASE status[d] = "succeeded"
        BY <1>1, <1>5, <3>1 DEF CreatesInv
      <3>2. CASE d = run /\ handler[h].wanted = "succeeded"
        <4>1. h \in Finishers
          BY <1>1, <3>2 DEF CreatesInv
        <4> QED
          BY <1>1, <1>5, <3>2, <4>1 DEF FinishersInv, run
      <3> QED
        BY <2>2, <3>1, <3>2
    <2>5. handler'[d].pc \in {"rollback", "settle", "done"} => status'[d] \in {"none"} \cup Finished
      BY <1>1, <1>4, <1>6, <1>7, <2>1 DEF CreatesInv, Pc
    <2>6. handler[d].wanted = "failed"
      BY <1>1 DEF CreatesInv
    <2>7. CASE d = h
      BY <1>1, <1>2, <1>3, <1>4, <1>5, <1>7, <2>3, <2>4, <2>5, <2>6, <2>7
      DEF CreatesInv, Pc, Early, Handed, Finishing, Releasing
    <2>8. CASE d # h
      BY <1>1, <1>5, <1>7, <2>3, <2>4, <2>5, <2>6, <2>8 DEF CreatesInv, Pc
    <2> QED
      BY <2>7, <2>8
  <1>11. FinishersInv'
    <2>1. ASSUME NEW f \in Finishers
          PROVE  /\ handler'[f].then = "done"
                 /\ handler'[f].wanted = "failed" <=> handler'[f].pc = "idle"
                 /\ handler'[f].wanted = "succeeded" => handler'[RunOf(f)].handed
                 /\ handler'[f].pc = "saveUsage" => handler'[f].wanted = "succeeded"
                 /\ handler'[f].pc = "settle" => status'[RunOf(f)] \in Finished
      <3>1. f \in Handlers
        BY <1>1
      <3>2. Pc(f) # "idle" => RunOf(f) \in Creates
        BY <1>1, <3>1 DEF RunInv
      <3>3. handler[f].wanted = "succeeded" => handler'[RunOf(f)].handed
        <4>1. handler[f].wanted = "succeeded" => Pc(f) # "idle" /\ handler[RunOf(f)].handed
          BY <1>1 DEF FinishersInv
        <4> QED
          BY <1>1, <1>5, <3>2, <4>1
      <3>4. Pc(f) = "settle" => status'[RunOf(f)] \in Finished
        BY <1>1, <1>7, <3>2 DEF FinishersInv
      <3>5. CASE f = h
        BY <1>1, <1>2, <1>3, <1>4, <1>5, <3>1, <3>3, <3>5 DEF FinishersInv
      <3>6. CASE f # h
        BY <1>1, <1>5, <3>1, <3>3, <3>4, <3>6 DEF FinishersInv, Pc
      <3> QED
        BY <3>5, <3>6
    <2> QED
      BY <1>1, <1>5, <2>1 DEF FinishersInv, Pc, RunOf
  <1>12. ShareInv'
    <2>1. \A g \in Handlers, k \in Shared : Owes(g, k)' => Owes(g, k) /\ RunOf(g) \in Handlers
      BY <1>1, <1>3, <1>4, <1>5 DEF Owes, Pc, RunInv
    <2>2. marker' = marker
      BY <1>2
    <2>3. \A g \in Handlers, k \in Shared : Owes(g, k)' =>
            marker'[handler'[g].run] = {}
            /\ (handler'[handler'[g].run].committed \/ g = handler'[g].run)
      BY <1>1, <1>5, <2>1, <2>2 DEF ShareInv
    <2>4. \A f, g \in Handlers, k \in Shared :
            handler'[f].run = handler'[g].run /\ Owes(f, k)' /\ Owes(g, k)' => f = g
      BY <1>1, <1>5, <2>1 DEF ShareInv
    <2> QED
      BY <2>3, <2>4 DEF ShareInv, RunOf
  <1>13. ReleaseInv'
    <2>1. ASSUME NEW g \in Handlers, handler'[g].pc = "update", handler'[g].before
          PROVE  status'[handler'[g].run] \in Finished
      <3>1. g # h /\ handler'[g] = handler[g]
        BY <1>3, <1>4, <1>5, <2>1
      <3>2. RunOf(g) \in Creates /\ status[RunOf(g)] \in Finished
        BY <1>1, <2>1, <3>1 DEF ReleaseInv, RunInv, Pc
      <3> QED
        BY <1>7, <3>1, <3>2 DEF RunOf
    <2>2. ASSUME NEW d \in Creates, status'[d] = "succeeded"
          PROVE  /\ \E f \in Finishers :
                      /\ handler'[f].run = d /\ handler'[f].wanted = "succeeded"
                      /\ handler'[f].pc \notin {"idle", "saveUsage", "before", "update"}
                 /\ marker'[d] # {} => \E f \in Finishers : handler'[f].run = d /\ handler'[f].pc \in Releasing
      <3>1. CASE status[d] = "succeeded"
        <4>1. PICK f \in Finishers :
                /\ RunOf(f) = d /\ handler[f].wanted = "succeeded"
                /\ Pc(f) \notin {"idle", "saveUsage", "before", "update"}
          BY <1>1, <3>1 DEF ReleaseInv
        <4>2. f \in Handlers /\ handler'[f] = handler[f]
          BY <1>1, <1>2, <1>5, <4>1
        <4>3. ASSUME marker[d] # {}
              PROVE  \E e \in Finishers : handler'[e].run = d /\ handler'[e].pc \in Releasing
          <5>1. PICK e \in Finishers : RunOf(e) = d /\ Pc(e) \in Releasing
            BY <1>1, <3>1, <4>3 DEF ReleaseInv
          <5>2. handler'[e] = handler[e]
            BY <1>1, <1>2, <1>5, <5>1 DEF Releasing
          <5> QED
            BY <5>1, <5>2 DEF RunOf, Pc
        <4> QED
          BY <1>2, <4>1, <4>2, <4>3 DEF RunOf, Pc
      <3>2. CASE status[d] # "succeeded"
        <4>1. d = run /\ handler[h].wanted = "succeeded" /\ q = "usage"
          BY <1>7, <1>9, <2>2, <3>2
        <4>2. h \in Finishers
          BY <1>1, <4>1 DEF CreatesInv
        <4>3. handler'[h].run = d /\ handler'[h].wanted = "succeeded" /\ handler'[h].pc = "usage"
          BY <1>4, <1>5, <4>1 DEF run
        <4> QED
          BY <4>2, <4>3 DEF Releasing
      <3> QED
        BY <3>1, <3>2
    <2> QED
      BY <2>1, <2>2 DEF ReleaseInv, Pc, RunOf
  <1>14. \A k : Holding(k)' = Holding(k)
    <2> TAKE k
    <2>1. \A d \in Creates : (\E g \in Handlers : handler'[g].run = d /\ Owes(g, k)')
            <=> (\E g \in Handlers : handler[g].run = d /\ Owes(g, k))
      <3>1. \A g \in Handlers : Owes(g, k)' <=> Owes(g, k)
        BY <1>2, <1>3, <1>4, <1>5 DEF Owes, Pc
      <3> QED
        BY <1>5, <3>1 DEF RunOf
    <2>2. \A d \in Creates :
            k \in handler'[d].reserved /\ ~handler'[d].committed /\ handler'[d].pc \notin {"settle", "done"}
            <=> k \in handler[d].reserved /\ ~handler[d].committed /\ handler[d].pc \notin {"settle", "done"}
      BY <1>1, <1>2, <1>3, <1>4, <1>5 DEF Pc
    <2>3. \A d \in Creates : d \in Holding(k)' <=> d \in Holding(k)
      BY <1>2, <2>1, <2>2 DEF Holding, Owes, At, Pc
    <2>4. Holding(k) \subseteq Creates /\ Holding(k)' \subseteq Creates
      BY DEF Holding
    <2> QED
      BY <2>3, <2>4
  <1>15. ASSUME CountsTokens, Tame' PROVE Tame /\ UsedInv' /\ Paid' = Paid
    <2>1. Tame
      <3>1. TameRuns
        <4>1. \A d \in Creates : status'[d] # "none" =>
                handler'[d].pc \in {"commit"} \cup Handed /\ status'[d] # "canceled"
          BY <1>15 DEF Tame, TameRuns, Pc
        <4>2. ASSUME NEW d \in Creates, status[d] # "none"
              PROVE  Pc(d) \in {"commit"} \cup Handed /\ status[d] # "canceled"
          <5>1. handler'[d].pc \in {"commit"} \cup Handed /\ status'[d] # "canceled"
            BY <1>7, <4>1, <4>2
          <5>2. d # h
            BY <1>3, <1>4, <5>1 DEF Handed
          <5>3. status[d] # "canceled"
            BY <1>7, <5>1 DEF Finished
          <5> QED
            BY <1>1, <1>5, <5>1, <5>2, <5>3 DEF Pc
        <4> QED
          BY <4>2 DEF TameRuns
      <3>2. OneComplete
        <4>1. \A f \in Finishers : handler'[f].wanted = handler[f].wanted /\ handler'[f].run = RunOf(f)
          BY <1>1, <1>5
        <4> QED
          BY <1>15, <4>1 DEF Tame, OneComplete, RunOf
      <3> QED
        BY <3>1, <3>2 DEF Tame
    <2>2. Created' = Created
      BY <1>7 DEF Created
    <2>3. Paid' = Paid
      BY <1>14, <2>2 DEF Paid
    <2>4. UsedInv'
      <3> SUFFICES ASSUME NEW g \in Handlers, handler'[g].pc \in {"marker", "delete", "settle"},
                          status'[handler'[g].run] # "none"
                   PROVE  handler'[g].used = usage'[handler'[g].run]
        BY DEF UsedInv, Pc, RunOf
      <3>1. g # h /\ handler'[g] = handler[g]
        BY <1>3, <1>4, <1>5
      <3>2. RunOf(g) \in Creates /\ Pc(g) \in {"marker", "delete", "settle"}
        BY <1>1, <3>1 DEF RunInv, Pc
      <3>3. status[RunOf(g)] # "none"
        BY <1>7, <3>1, <3>2 DEF RunOf
      <3> QED
        BY <1>2, <1>15, <2>1, <3>1, <3>2, <3>3 DEF TidyInv, ExactInv, UsedInv, RunOf
    <2> QED
      BY <2>1, <2>3, <2>4
  <1>16. ExactInv'
    BY <1>2, <1>14, <1>15, ExactKept DEF TidyInv
  <1> QED
    BY <1>10, <1>11, <1>12, <1>13, <1>16 DEF TidyInv, LogicInv

\* A step that moves a reservation from one holder to another.
LEMMA ExactHeld ==
    ASSUME ExactInv, UNCHANGED <<status, usage, counter>>,
           \A k \in Shared : Holding(k)' = Holding(k),
           CountsTokens /\ Tame' => Tame /\ UsedInv'
    PROVE  ExactInv'
  <1>1. Created' = Created
    BY DEF Created
  <1>2. Holding("active")' = Holding("active") /\ Holding("tokens")' = Holding("tokens")
    BY DEF Shared
  <1>3. Paid' = Paid
    BY <1>1, <1>2 DEF Paid
  <1> QED
    BY <1>2, <1>3, ExactKept

\* The commit moves what a create has reserved into the marker.
LEMMA CommitTidy ==
    ASSUME IInv, IInv', TidyInv, faults = 0, faults' = 0, NEW c \in Creates, Commit(c)
    PROVE  TidyInv'
  <1> DEFINE kept == KeptByMarker(handler[c].reserved)
             t == [handler[c] EXCEPT !.pc = "dispatch", !.committed = TRUE]
  <1>1. /\ TypeOK /\ CreatesInv /\ FinishersInv /\ ReleaseInv /\ ShareInv /\ LogicInv /\ RunInv /\ MarkerInv
        /\ c \in Handlers /\ c \notin Finishers /\ ~Fault("reply") /\ ~Fault("redis")
        /\ Finishers \subseteq Handlers /\ Creates \subseteq Handlers
        /\ Handlers = Creates \cup Finishers /\ handler[c] \in Handler
    BY Tidied, NoFault DEF TypeOK
  <1>2. Pc(c) = "commit" /\ UNCHANGED <<status, usage, counter>>
    BY DEF Commit, At, Pc
  <1>3. /\ ~handler[c].committed /\ ~handler[c].handed /\ status[c] # "none" /\ status[c] # "succeeded"
        /\ status[c] # "failed" /\ RunOf(c) = c
    BY <1>1, <1>2 DEF MarkerInv, CreatesInv, RunInv, Early
  <1>4. CASE kept = {} /\ Goto(c, "dispatch") /\ marker' = marker
    <2>1. Only(c) /\ handler'[c].pc = "dispatch" /\ SameRun(c) /\ SameDebt(c)
      BY <1>1, <1>4, GotoKeeps DEF PCs
    <2>2. ~CountsTokens
      BY <1>1, <1>2, <1>4 DEF CreatesInv, KeptByMarker
    <2>3. Quiet(c, "dispatch")
      BY <1>2, <1>4, <2>1 DEF Quiet, SameRun
    <2>4. QuietCreate(c, "dispatch") /\ QuietFinisher(c, "dispatch")
      BY <1>1, <1>2, <1>3, <2>1, <2>2
      DEF QuietCreate, QuietFinisher, CreatesInv, SameRun, Early, Handed, Finishing, Releasing
    <2> QED
      BY <1>1, <1>2, <2>3, <2>4, QuietGood
  <1>5. CASE /\ kept # {} /\ marker' = [marker EXCEPT ![c] = kept]
             /\ handler' = [handler EXCEPT ![c].pc = "dispatch", ![c].committed = TRUE]
    <2>1. /\ t \in Handler /\ t.pc = "dispatch" /\ t.committed /\ t.run = handler[c].run
          /\ t.wanted = handler[c].wanted /\ t.then = handler[c].then
          /\ t.reserved = handler[c].reserved /\ t.handed = handler[c].handed
      BY <1>1 DEF Handler, PCs
    <2>2. handler' = [handler EXCEPT ![c] = t]
      BY <1>1, <1>5 DEF TypeOK
    <2>3. Only(c) /\ handler'[c] = t
      <3> HIDE DEF t
      <3> QED
        BY <1>1, <2>1, <2>2, Becomes
    <2> HIDE DEF t
    <2>4. \A g \in Handlers : /\ g # c => handler'[g] = handler[g]
                              /\ handler'[g].run = RunOf(g) /\ handler'[g].wanted = handler[g].wanted
                              /\ handler'[g].handed = handler[g].handed
                              /\ handler'[g].reserved = handler[g].reserved
      BY <2>1, <2>3 DEF Only, RunOf
    <2>5. /\ handler'[c].pc = "dispatch" /\ handler'[c].committed /\ handler'[c].then = handler[c].then
          /\ marker'[c] = handler[c].reserved \ {"hour"}
          /\ \A d \in Creates : d # c => marker'[d] = marker[d]
      BY <1>1, <1>5, <2>1, <2>3 DEF TypeOK, KeptByMarker
    <2>6. marker[c] = {}
      BY <1>1, <1>3 DEF MarkerInv
    <2>7. CreatesInv'
      BY <1>1, <1>2, <1>3, <2>4, <2>5 DEF CreatesInv, Pc, Early, Handed, Finishing, Releasing
    <2>8. \A g \in Handlers : g # c /\ Pc(g) # "idle" => RunOf(g) \in Creates
      BY <1>1 DEF RunInv
    <2>9. FinishersInv'
      <3>1. ASSUME NEW f \in Finishers
            PROVE  handler'[f] = handler[f] /\ (handler[f].wanted = "succeeded" => handler'[RunOf(f)].handed)
        BY <1>1, <2>4, <2>8 DEF FinishersInv
      <3> QED
        BY <1>1, <1>2, <3>1 DEF FinishersInv, Pc, RunOf
    <2>10. \A g \in Handlers, k \in Shared : Owes(g, k) => g # c /\ RunOf(g) \in Creates \ {c}
      BY <1>1, <1>2, <1>3, <2>8 DEF Owes, ShareInv
    <2>11. \A g \in Handlers, k \in Shared : Owes(g, k)' <=> Owes(g, k)
      BY <1>2, <2>4, <2>5 DEF Owes, Pc
    <2>12. ShareInv'
      <3>1. \A g \in Handlers, k \in Shared : Owes(g, k)' =>
              marker'[handler'[g].run] = {}
              /\ (handler'[handler'[g].run].committed \/ g = handler'[g].run)
        <4> SUFFICES ASSUME NEW g \in Handlers, NEW k \in Shared, Owes(g, k)
                     PROVE  marker'[RunOf(g)] = {} /\ (handler'[RunOf(g)].committed \/ g = RunOf(g))
          BY <2>4, <2>11
        <4>1. RunOf(g) \in Creates \ {c} /\ RunOf(g) \in Handlers
          BY <1>1, <2>10
        <4>2. marker'[RunOf(g)] = marker[RunOf(g)] /\ handler'[RunOf(g)] = handler[RunOf(g)]
          BY <2>4, <2>5, <4>1
        <4> QED
          BY <1>1, <4>2 DEF ShareInv
      <3>2. \A f, g \in Handlers, k \in Shared :
              handler'[f].run = handler'[g].run /\ Owes(f, k)' /\ Owes(g, k)' => f = g
        BY <1>1, <2>4, <2>11 DEF ShareInv
      <3> QED
        BY <3>1, <3>2 DEF ShareInv, RunOf
    <2>13. ReleaseInv'
      <3>1. \A g \in Handlers : handler'[g].pc = "update" /\ handler'[g].before => status'[handler'[g].run] \in Finished
        BY <1>1, <1>2, <2>4, <2>5 DEF ReleaseInv, Pc, RunOf
      <3>2. \A f \in Finishers : handler'[f] = handler[f]
        BY <1>1, <2>4
      <3>3. ASSUME NEW d \in Creates, status'[d] = "succeeded"
            PROVE  /\ \E f \in Finishers :
                        /\ handler'[f].run = d /\ handler'[f].wanted = "succeeded"
                        /\ handler'[f].pc \notin {"idle", "saveUsage", "before", "update"}
                   /\ marker'[d] # {} => \E f \in Finishers : handler'[f].run = d /\ handler'[f].pc \in Releasing
        <4>1. status[d] = "succeeded" /\ marker'[d] = marker[d]
          BY <1>2, <1>3, <2>5, <3>3
        <4> QED
          BY <1>1, <3>2, <4>1 DEF ReleaseInv, Pc, RunOf
      <3> QED
        BY <3>1, <3>3 DEF ReleaseInv, Pc, RunOf
    <2>14. ASSUME NEW k \in Shared PROVE Holding(k)' = Holding(k)
      <3>1. ASSUME NEW d \in Creates PROVE d \in Holding(k)' <=> d \in Holding(k)
        <4>1. (\E g \in Handlers : handler'[g].run = d /\ Owes(g, k)')
                <=> (\E g \in Handlers : handler[g].run = d /\ Owes(g, k))
          BY <2>4, <2>11 DEF RunOf
        <4>2. CASE d # c
          <5>1. handler'[d] = handler[d] /\ marker'[d] = marker[d]
            BY <1>1, <2>4, <2>5, <4>2
          <5> QED
            BY <4>1, <5>1 DEF Holding, Owes, At, Pc
        <4>3. CASE d = c
          <5>1. d \in Holding(k) <=> k \in handler[c].reserved
            BY <1>2, <1>3, <2>6, <2>10, <4>3 DEF Holding, Owes, At, Pc, RunOf
          <5>2. ~\E g \in Handlers : handler'[g].run = d /\ Owes(g, k)'
            BY <2>10, <4>1, <4>3 DEF RunOf
          <5>3. d \in Holding(k)' <=> k \in marker'[c]
            BY <2>5, <4>3, <5>2 DEF Holding, Owes, At, Pc
          <5>4. k # "hour"
            BY DEF Shared
          <5> QED
            BY <2>5, <5>1, <5>3, <5>4
        <4> QED
          BY <4>2, <4>3
      <3>2. Holding(k) \subseteq Creates /\ Holding(k)' \subseteq Creates
        BY DEF Holding
      <3> QED
        BY <3>1, <3>2
    <2>15. ASSUME Tame' PROVE Tame
      <3>1. TameRuns
        <4>1. \A d \in Creates : status[d] # "none" => handler'[d].pc \in {"commit"} \cup Handed /\ status[d] # "canceled"
          BY <1>2, <2>15 DEF Tame, TameRuns, Pc
        <4> QED
          BY <1>1, <1>2, <2>4, <4>1 DEF TameRuns, Pc
      <3>2. OneComplete
        BY <1>1, <2>4, <2>15 DEF Tame, OneComplete, RunOf
      <3> QED
        BY <3>1, <3>2 DEF Tame
    <2>16. ASSUME UsedInv PROVE UsedInv'
      <3>1. \A g \in Handlers : handler'[g].pc \in {"marker", "delete", "settle"} => handler'[g] = handler[g]
        BY <2>4, <2>5
      <3> QED
        BY <1>2, <2>16, <3>1 DEF UsedInv, Pc, RunOf
    <2>17. ExactInv'
      BY <1>2, <2>14, <2>15, <2>16, ExactHeld DEF TidyInv, ExactInv
    <2> QED
      BY <2>7, <2>9, <2>12, <2>13, <2>17 DEF TidyInv, LogicInv
  <1> QED
    BY <1>1, <1>4, <1>5 DEF Commit, Redis

\* A handler removes what is left of the marker of its run, and owes what it stood for.
LEMMA TakesOverTidy ==
    ASSUME IInv, IInv', TidyInv, NEW h \in Handlers, NEW run \in Creates, run = RunOf(h),
           Pc(h) \in {"rollback", "delete"}, h \in Creates => run = h,
           UNCHANGED <<status, usage, counter>>,
           marker'[run] = {}, \A d \in Creates : d # run => marker'[d] = marker[d],
           Only(h), handler'[h].pc = "settle", handler'[h].run = run,
           handler'[h].wanted = handler[h].wanted, handler'[h].reserved = handler[h].reserved,
           handler'[h].committed = handler[h].committed, handler'[h].handed = handler[h].handed,
           h \in Finishers => handler'[h].then = "done",
           status[run] \in {"none"} \cup Finished,
           h \in Finishers => status[run] \in Finished,
           status[run] = "none" => handler'[h].used = 0,
           Pc(h) = "rollback" => h \in Creates,
           Pc(h) = "delete" => handler'[h].used = handler[h].used,
           \A k \in Shared : k \in handler'[h].owed <=>
             (k \in marker[run] \/ (h = run /\ k \in handler[h].reserved /\ ~handler[h].committed)),
           Pc(h) = "delete" => handler[run].committed
    PROVE  TidyInv'
  <1>1. /\ TypeOK /\ CreatesInv /\ FinishersInv /\ ReleaseInv /\ ShareInv /\ LogicInv /\ RunInv /\ MarkerInv
        /\ Finishers \subseteq Handlers /\ Creates \subseteq Handlers
        /\ Handlers = Creates \cup Finishers /\ Creates \cap Finishers = {}
    BY Tidied
  <1>2. \A g \in Handlers : /\ g # h => handler'[g] = handler[g]
                            /\ handler'[g].run = RunOf(g) /\ handler'[g].wanted = handler[g].wanted
                            /\ handler'[g].handed = handler[g].handed
                            /\ handler'[g].committed = handler[g].committed
                            /\ handler'[g].reserved = handler[g].reserved
    BY DEF Only, RunOf
  <1>3. CreatesInv'
    BY <1>1, <1>2 DEF CreatesInv, Pc, Early, Handed, Finishing, Releasing
  <1>4. \A g \in Handlers : Pc(g) # "idle" => RunOf(g) \in Creates
    BY <1>1 DEF RunInv
  <1>5. FinishersInv'
    <2>1. ASSUME NEW f \in Finishers
          PROVE  handler[f].wanted = "succeeded" => handler'[RunOf(f)].handed
      BY <1>1, <1>2, <1>4 DEF FinishersInv
    <2>2. \A f \in Finishers : f # h => handler'[f] = handler[f]
      BY <1>1, <1>2
    <2>3. h \in Finishers => handler[h].wanted # "failed"
      BY <1>1 DEF FinishersInv
    <2> QED
      BY <1>1, <1>2, <2>1, <2>2, <2>3 DEF FinishersInv, Pc, RunOf
  <1>6. \A k \in Shared : k \in marker[run] => ~\E g \in Handlers : RunOf(g) = run /\ Owes(g, k)
    BY <1>1 DEF ShareInv
  <1>7. \A k \in Shared : Owes(h, k)' =>
          /\ handler[run].committed \/ h = run
          /\ ~\E g \in Handlers : g # h /\ RunOf(g) = run /\ Owes(g, k)
    <2> SUFFICES ASSUME NEW k \in Shared, k \in handler'[h].owed
                 PROVE  /\ handler[run].committed \/ h = run
                        /\ ~\E g \in Handlers : g # h /\ RunOf(g) = run /\ Owes(g, k)
      BY DEF Owes
    <2>1. CASE k \in marker[run]
      BY <1>1, <1>6, <2>1 DEF MarkerInv
    <2>2. CASE h = run /\ ~handler[h].committed
      BY <1>1, <2>2 DEF ShareInv
    <2> QED
      BY <2>1, <2>2
  <1>8. \A g \in Handlers, k \in Shared : g # h => (Owes(g, k)' <=> Owes(g, k))
    BY <1>2 DEF Owes, Pc
  <1>9. ShareInv'
    <2>1. \A g \in Handlers, k \in Shared : Owes(g, k)' =>
            marker'[handler'[g].run] = {}
            /\ (handler'[handler'[g].run].committed \/ g = handler'[g].run)
      <3> SUFFICES ASSUME NEW g \in Handlers, NEW k \in Shared, Owes(g, k)'
                   PROVE  marker'[RunOf(g)] = {} /\ (handler'[RunOf(g)].committed \/ g = RunOf(g))
        BY <1>2
      <3>1. CASE g = h
        BY <1>1, <1>2, <1>7, <3>1
      <3>2. CASE g # h
        <4>1. Owes(g, k) /\ RunOf(g) \in Creates
          BY <1>4, <1>8, <3>2 DEF Owes
        <4>2. marker[RunOf(g)] = {} /\ (handler[RunOf(g)].committed \/ g = RunOf(g))
          BY <1>1, <4>1 DEF ShareInv
        <4> QED
          BY <1>1, <1>2, <4>1, <4>2
      <3> QED
        BY <3>1, <3>2
    <2>2. \A f, g \in Handlers, k \in Shared : RunOf(f) = RunOf(g) /\ Owes(f, k)' /\ Owes(g, k)' => f = g
      <3> SUFFICES ASSUME NEW f \in Handlers, NEW g \in Handlers, NEW k \in Shared,
                          RunOf(f) = RunOf(g), Owes(f, k)', Owes(g, k)', f # g
                   PROVE  FALSE
        OBVIOUS
      <3>1. CASE f # h /\ g # h
        BY <1>1, <1>8, <3>1 DEF ShareInv
      <3>2. CASE f = h
        BY <1>7, <1>8, <3>2
      <3>3. CASE g = h
        BY <1>7, <1>8, <3>3
      <3> QED
        BY <3>1, <3>2, <3>3
    <2>3. \A f, g \in Handlers, k \in Shared :
            handler'[f].run = handler'[g].run /\ Owes(f, k)' /\ Owes(g, k)' => f = g
      BY <1>2, <2>2
    <2> QED
      BY <2>1, <2>3 DEF ShareInv, RunOf
  <1>10. ReleaseInv'
    <2>1. \A g \in Handlers : handler'[g].pc = "update" /\ handler'[g].before => status'[handler'[g].run] \in Finished
      BY <1>1, <1>2 DEF ReleaseInv, Pc, RunOf
    <2>2. ASSUME NEW d \in Creates, status'[d] = "succeeded"
          PROVE  /\ \E f \in Finishers :
                      /\ handler'[f].run = d /\ handler'[f].wanted = "succeeded"
                      /\ handler'[f].pc \notin {"idle", "saveUsage", "before", "update"}
                 /\ marker'[d] # {} => \E f \in Finishers : handler'[f].run = d /\ handler'[f].pc \in Releasing
      <3>1. PICK f \in Finishers :
              /\ RunOf(f) = d /\ handler[f].wanted = "succeeded"
              /\ Pc(f) \notin {"idle", "saveUsage", "before", "update"}
        BY <1>1, <2>2 DEF ReleaseInv
      <3>2. /\ handler'[f].run = d /\ handler'[f].wanted = "succeeded"
            /\ handler'[f].pc \notin {"idle", "saveUsage", "before", "update"}
        BY <1>1, <1>2, <3>1 DEF Pc
      <3>3. ASSUME marker'[d] # {}
            PROVE  \E e \in Finishers : handler'[e].run = d /\ handler'[e].pc \in Releasing
        <4>1. d # run /\ marker[d] # {}
          BY <3>3
        <4>2. PICK e \in Finishers : RunOf(e) = d /\ Pc(e) \in Releasing
          BY <1>1, <2>2, <4>1 DEF ReleaseInv
        <4>3. e # h /\ e \in Handlers
          BY <1>1, <4>1, <4>2
        <4> QED
          BY <1>2, <4>2, <4>3 DEF Pc
      <3> QED
        BY <3>2, <3>3
    <2> QED
      BY <2>1, <2>2 DEF ReleaseInv, Pc, RunOf
  <1>11. ASSUME NEW k \in Shared PROVE Holding(k)' = Holding(k)
    <2>1. ASSUME NEW d \in Creates PROVE d \in Holding(k)' <=> d \in Holding(k)
      <3>1. CASE d # run
        <4>1. (\E g \in Handlers : handler'[g].run = d /\ Owes(g, k)')
                <=> (\E g \in Handlers : handler[g].run = d /\ Owes(g, k))
          BY <1>2, <1>8, <3>1 DEF RunOf
        <4>2. marker'[d] = marker[d] /\ handler'[d] = handler[d]
          BY <1>1, <1>2, <3>1
        <4> QED
          BY <4>1, <4>2 DEF Holding, Owes, At, Pc
      <3>2. CASE d = run
        <4>1. CASE k \in handler'[h].owed
          <5>1. d \in Holding(k)'
            BY <3>2, <4>1 DEF Holding, At
          <5>2. d \in Holding(k)
            BY <3>2, <4>1 DEF Holding, At, Pc
          <5> QED
            BY <5>1, <5>2
        <4>2. CASE k \notin handler'[h].owed
          <5>1. k \notin marker[run] /\ k \notin marker'[run] /\ ~Owes(h, k) /\ ~Owes(h, k)'
            BY <4>2 DEF Owes
          <5>2. (\E g \in Handlers : handler'[g].run = run /\ Owes(g, k)')
                  <=> (\E g \in Handlers : handler[g].run = run /\ Owes(g, k))
            BY <1>2, <1>8, <5>1 DEF RunOf
          <5>3. k \in handler'[run].reserved /\ ~handler'[run].committed /\ handler'[run].pc \notin {"settle", "done"}
                <=> k \in handler[run].reserved /\ ~handler[run].committed /\ handler[run].pc \notin {"settle", "done"}
            <6>1. CASE h = run
              BY <1>2, <4>2, <6>1
            <6>2. CASE h # run
              BY <1>1, <1>2, <6>2
            <6> QED
              BY <6>1, <6>2
          <5> QED
            BY <3>2, <5>1, <5>2, <5>3 DEF Holding, Owes, At, Pc
        <4> QED
          BY <4>1, <4>2
      <3> QED
        BY <3>1, <3>2
    <2>2. Holding(k) \subseteq Creates /\ Holding(k)' \subseteq Creates
      BY DEF Holding
    <2> QED
      BY <2>1, <2>2
  <1>12. ASSUME Tame' PROVE Tame /\ (h \in Creates => status[h] = "none")
    <2>1. \A d \in Creates : status[d] # "none" => handler'[d].pc \in {"commit"} \cup Handed /\ status[d] # "canceled"
      BY <1>12 DEF Tame, TameRuns, Pc
    <2>2. h \in Creates => status[h] = "none"
      BY <2>1 DEF Handed
    <2>3. TameRuns
      BY <1>1, <1>2, <2>1, <2>2 DEF TameRuns, Pc
    <2>4. OneComplete
      BY <1>1, <1>2, <1>12 DEF Tame, OneComplete, RunOf
    <2> QED
      BY <2>2, <2>3, <2>4 DEF Tame
  <1>13. ASSUME Tame', UsedInv PROVE UsedInv'
    <2> SUFFICES ASSUME NEW g \in Handlers, handler'[g].pc \in {"marker", "delete", "settle"},
                        status'[handler'[g].run] # "none"
                 PROVE  handler'[g].used = usage'[handler'[g].run]
      BY DEF UsedInv, Pc, RunOf
    <2>1. CASE g = h
      <3>1. h \notin Creates /\ Pc(h) = "delete"
        BY <1>12, <1>13, <2>1
      <3> QED
        BY <1>2, <1>13, <2>1, <3>1 DEF UsedInv
    <2>2. CASE g # h
      BY <1>2, <1>13, <2>2 DEF UsedInv, Pc, RunOf
    <2> QED
      BY <2>1, <2>2
  <1>14. ExactInv'
    BY <1>11, <1>12, <1>13, ExactHeld DEF TidyInv, ExactInv
  <1> QED
    BY <1>3, <1>5, <1>9, <1>10, <1>14 DEF TidyInv, LogicInv

LEMMA RollbackTidy ==
    ASSUME IInv, IInv', TidyInv, faults = 0, faults' = 0, NEW c \in Creates, Rollback(c)
    PROVE  TidyInv'
  <1> DEFINE removed == ~handler[c].committed \/ marker[c] # {}
             owed == OwedByRollback(handler[c].reserved, removed)
             t == [handler[c] EXCEPT !.pc = "settle", !.owed = owed, !.used = 0, !.then = "done"]
  <1>1. /\ TypeOK /\ CreatesInv /\ RunInv /\ MarkerInv
        /\ c \in Handlers /\ c \notin Finishers /\ ~Fault("reply") /\ ~Fault("redis")
        /\ handler[c] \in Handler
    BY Tidied, NoFault DEF TypeOK
  <1>2. Pc(c) = "rollback" /\ UNCHANGED <<status, usage, counter>> /\ RunOf(c) = c
    BY <1>1 DEF Rollback, At, Pc, RunInv
  <1>3. ~handler[c].committed => marker[c] = {}
    BY <1>1 DEF MarkerInv
  <1>4. handler' = [handler EXCEPT ![c] = t]
    <2>1. CASE ~handler[c].committed
      BY <1>1, <2>1 DEF Rollback
    <2>2. CASE handler[c].committed
      BY <1>1, <2>2 DEF Rollback, Redis
    <2> QED
      BY <2>1, <2>2
  <1>5. /\ marker'[c] = {} /\ \A d \in Creates : d # c => marker'[d] = marker[d]
    BY <1>1, <1>3 DEF Rollback, Redis, TypeOK
  <1>6. owed \in SUBSET Keys
    BY <1>1 DEF OwedByRollback, Handler
  <1>7. /\ t \in Handler /\ t.pc = "settle" /\ t.run = handler[c].run /\ t.used = 0
        /\ t.wanted = handler[c].wanted /\ t.reserved = handler[c].reserved
        /\ t.committed = handler[c].committed /\ t.handed = handler[c].handed /\ t.owed = owed
    <2> HIDE DEF owed
    <2> QED
      BY <1>1, <1>6 DEF Handler, PCs
  <1>8. Only(c) /\ handler'[c] = t
    <2> HIDE DEF t
    <2> QED
      BY <1>1, <1>4, <1>7, Becomes
  <1>9. \A k \in Shared : k \in owed <=>
          (k \in marker[c] \/ (k \in handler[c].reserved /\ ~handler[c].committed))
    <2>1. CASE ~handler[c].committed
      BY <1>3, <2>1 DEF OwedByRollback
    <2>2. CASE handler[c].committed /\ marker[c] # {}
      <3>1. marker[c] = handler[c].reserved \ {"hour"}
        BY <1>1, <2>2 DEF MarkerInv
      <3> QED
        BY <2>2, <3>1 DEF OwedByRollback, Shared
    <2>3. CASE handler[c].committed /\ marker[c] = {}
      BY <2>3 DEF OwedByRollback, Shared
    <2> QED
      BY <2>1, <2>2, <2>3
  <1>10. status[c] \in {"none"} \cup Finished
    BY <1>1, <1>2 DEF CreatesInv
  <1> HIDE DEF t, owed
  <1> QED
    BY <1>1, <1>2, <1>5, <1>7, <1>8, <1>9, <1>10, TakesOverTidy DEF RunOf

LEMMA DeleteMarkerTidy ==
    ASSUME IInv, IInv', TidyInv, faults = 0, faults' = 0, NEW h \in Handlers, DeleteMarker(h)
    PROVE  TidyInv'
  <1> DEFINE run == RunOf(h)
  <1>1. /\ TypeOK /\ CreatesInv /\ FinishersInv /\ RunInv /\ MarkerInv
        /\ ~Fault("reply") /\ ~Fault("redis") /\ handler[h] \in Handler
        /\ Handlers = Creates \cup Finishers /\ Creates \cap Finishers = {}
    BY Tidied, NoFault DEF TypeOK
  <1>2. Pc(h) = "delete" /\ UNCHANGED <<status, usage, counter>>
    BY DEF DeleteMarker, At, Pc
  <1>3. /\ run \in Creates /\ status[run] \in Finished /\ (h \in Creates => run = h)
        /\ handler[run].committed /\ marker[run] \in {{}, handler[h].owed}
    BY <1>1, <1>2 DEF RunInv, IInv, OwnerInv, OwedInv
  <1>4. /\ marker' = [marker EXCEPT ![run] = {}]
        /\ Goto(h, IF marker[run] = {} THEN handler[h].then ELSE "settle")
    BY <1>1 DEF DeleteMarker, Redis, RunOf
  <1>5. marker'[run] = {} /\ \A d \in Creates : d # run => marker'[d] = marker[d]
    BY <1>1, <1>3, <1>4 DEF TypeOK
  <1>6. CASE marker[run] = {}
    <2>1. marker' = marker
      BY <1>1, <1>3, <1>4, <1>6 DEF TypeOK
    <2> QED
      BY <1>2, <1>4, <1>6, <2>1, LeavesTidy
  <1>7. CASE marker[run] # {}
    <2>1. Only(h) /\ handler'[h].pc = "settle" /\ SameRun(h) /\ SameDebt(h)
      BY <1>1, <1>4, <1>7, GotoKeeps DEF PCs
    <2>2. h \in Finishers => handler'[h].then = "done"
      BY <1>1, <2>1 DEF FinishersInv, SameRun
    <2>3. \A k : k \in handler'[h].owed <=> k \in marker[run]
      BY <1>3, <1>7, <2>1 DEF SameDebt
    <2>4. h = run => handler[h].committed
      BY <1>3
    <2> HIDE DEF run
    <2>5. run = RunOf(h)
      BY DEF run
    <2>6. status[run] # "none" /\ status[run] \in {"none"} \cup Finished
      BY <1>3 DEF Finished
    <2> QED
      BY <1>2, <1>3, <1>5, <2>1, <2>2, <2>3, <2>4, <2>5, <2>6, TakesOverTidy DEF SameRun, SameDebt, RunOf
  <1> QED
    BY <1>6, <1>7

\* A payment takes a run out of what is held of the counter, and leaves the tokens used.
LEMMA SettleTidy ==
    ASSUME IInv, IInv', TidyInv, faults = 0, faults' = 0, NEW h \in Handlers, Settle(h)
    PROVE  TidyInv'
  <1> DEFINE k == FirstKey(handler[h].owed)
             run == RunOf(h)
             t == [handler[h] EXCEPT !.owed = handler[h].owed \ {k}]
  <1>1. /\ TypeOK /\ CreatesInv /\ FinishersInv /\ ReleaseInv /\ ShareInv /\ LogicInv /\ RunInv /\ MarkerInv
        /\ ~Fault("reply") /\ ~Fault("redis") /\ handler[h] \in Handler
        /\ Finishers \subseteq Handlers /\ Creates \subseteq Handlers
        /\ Handlers = Creates \cup Finishers /\ Creates \cap Finishers = {}
    BY Tidied, NoFault DEF TypeOK
  <1>2. Pc(h) = "settle" /\ UNCHANGED <<status, usage, marker>>
    BY DEF Settle, At, Pc
  <1>3. CASE handler[h].owed = {} /\ Goto(h, handler[h].then) /\ counter' = counter
    BY <1>2, <1>3, LeavesTidy
  <1>4. CASE /\ handler[h].owed # {} /\ handler' = [handler EXCEPT ![h].owed = @ \ {k}]
             /\ Add(k, Amount(h, k))
    <2>1. k \in handler[h].owed /\ k \in Keys
      BY <1>1, <1>4, FirstKeyOwed DEF Handler
    <2>2. /\ t \in Handler /\ t.pc = handler[h].pc /\ t.run = handler[h].run /\ t.wanted = handler[h].wanted
          /\ t.committed = handler[h].committed /\ t.reserved = handler[h].reserved
          /\ t.handed = handler[h].handed /\ t.used = handler[h].used /\ t.before = handler[h].before
          /\ t.owed = handler[h].owed \ {k} /\ t.then = handler[h].then
      BY <1>1 DEF Handler
    <2>3. handler' = [handler EXCEPT ![h] = t]
      BY <1>1, <1>4
    <2> HIDE DEF t
    <2>4. Only(h) /\ handler'[h] = t
      BY <1>1, <2>2, <2>3, Becomes
    <2>5. /\ \A g \in Handlers : /\ handler'[g].run = RunOf(g) /\ handler'[g].wanted = handler[g].wanted
                                 /\ handler'[g].pc = Pc(g) /\ handler'[g].handed = handler[g].handed
                                 /\ handler'[g].committed = handler[g].committed
                                 /\ handler'[g].reserved = handler[g].reserved
                                 /\ handler'[g].then = handler[g].then /\ handler'[g].used = handler[g].used
                                 /\ handler'[g].before = handler[g].before
                                 /\ g # h => handler'[g] = handler[g]
          /\ handler'[h].owed = handler[h].owed \ {k}
      BY <2>2, <2>4 DEF Only, Pc, RunOf
    <2>6. \A j \in Keys : counter'[j] = IF j = k THEN counter[j] + Amount(h, k) ELSE counter[j]
      BY <1>1, <1>4, <2>1 DEF Add, TypeOK
    <2> HIDE DEF k
    <2>7. run \in Creates /\ (h \in Creates => run = h)
      BY <1>1, <1>2 DEF RunInv
    <2> HIDE DEF run
    <2>8. CreatesInv'
      BY <1>1, <1>2, <2>5 DEF CreatesInv, Pc
    <2>9. FinishersInv'
      <3>1. ASSUME NEW f \in Finishers
            PROVE  handler[f].wanted = "succeeded" => handler'[RunOf(f)].handed
        <4>1. handler[f].wanted = "succeeded" => handler[RunOf(f)].handed /\ Pc(f) # "idle"
          BY <1>1 DEF FinishersInv
        <4>2. Pc(f) # "idle" => RunOf(f) \in Handlers
          BY <1>1 DEF RunInv
        <4> QED
          BY <2>5, <4>1, <4>2
      <3> QED
        BY <1>1, <1>2, <2>5, <3>1 DEF FinishersInv, Pc, RunOf
    <2>10. \A g \in Handlers, j \in Shared : Owes(g, j)' <=> Owes(g, j) /\ (g # h \/ j # k)
      BY <2>1, <2>5 DEF Owes, Pc
    <2>11. ShareInv'
      <3>1. \A g \in Handlers, j \in Shared : Owes(g, j) => RunOf(g) \in Handlers
        BY <1>1 DEF Owes, RunInv
      <3>2. \A g \in Handlers, j \in Shared : Owes(g, j)' =>
              marker'[handler'[g].run] = {}
              /\ (handler'[handler'[g].run].committed \/ g = handler'[g].run)
        BY <1>1, <1>2, <2>5, <2>10, <3>1 DEF ShareInv
      <3>3. \A f, g \in Handlers, j \in Shared :
              handler'[f].run = handler'[g].run /\ Owes(f, j)' /\ Owes(g, j)' => f = g
        BY <1>1, <2>5, <2>10 DEF ShareInv
      <3> QED
        BY <3>2, <3>3 DEF ShareInv, RunOf
    <2>12. ReleaseInv'
      <3>1. \A g \in Handlers : handler'[g].pc = "update" /\ handler'[g].before => status'[handler'[g].run] \in Finished
        BY <1>1, <1>2, <2>5 DEF ReleaseInv
      <3>2. \A f \in Finishers : /\ handler'[f].run = RunOf(f) /\ handler'[f].wanted = handler[f].wanted
                                 /\ handler'[f].pc = Pc(f)
        BY <1>1, <2>5
      <3>3. \A d \in Creates : status'[d] = "succeeded" =>
              /\ \E f \in Finishers :
                   /\ handler'[f].run = d /\ handler'[f].wanted = "succeeded"
                   /\ handler'[f].pc \notin {"idle", "saveUsage", "before", "update"}
              /\ marker'[d] # {} => \E f \in Finishers : handler'[f].run = d /\ handler'[f].pc \in Releasing
        BY <1>1, <1>2, <3>2 DEF ReleaseInv
      <3> QED
        BY <3>1, <3>3 DEF ReleaseInv, Pc, RunOf
    <2>13. ASSUME NEW j \in Shared
           PROVE  /\ j # k => Holding(j)' = Holding(j)
                  /\ j = k => run \in Holding(j) /\ Holding(j)' = Holding(j) \ {run}
      <3>1. ASSUME NEW d \in Creates
            PROVE  d \in Holding(j)' <=> d \in Holding(j) /\ (j # k \/ d # run)
        <4>1. CASE j # k \/ d # run
          <5>1. (\E g \in Handlers : handler'[g].run = d /\ Owes(g, j)')
                  <=> (\E g \in Handlers : handler[g].run = d /\ Owes(g, j))
            BY <2>5, <2>10, <4>1 DEF RunOf, run
          <5>2. handler'[d].reserved = handler[d].reserved /\ handler'[d].committed = handler[d].committed
                /\ handler'[d].pc = handler[d].pc
            BY <1>1, <2>5 DEF Pc
          <5> QED
            BY <1>2, <4>1, <5>1, <5>2 DEF Holding, Owes, At, Pc
        <4>2. CASE j = k /\ d = run
          <5>1. Owes(h, j)
            BY <1>2, <2>1, <4>2 DEF Owes
          <5>2. marker[run] = {} /\ (handler[run].committed \/ h = run)
            BY <1>1, <5>1 DEF ShareInv, run
          <5>3. ~\E g \in Handlers : handler'[g].run = d /\ Owes(g, j)'
            <6> SUFFICES ASSUME NEW g \in Handlers, RunOf(g) = run, Owes(g, j)' PROVE FALSE
              BY <2>5, <4>2
            <6>1. Owes(g, j) /\ g # h
              BY <2>10, <4>2
            <6> QED
              BY <1>1, <5>1, <6>1 DEF ShareInv, run
          <5>4. handler'[d].committed \/ handler'[d].pc = "settle"
            BY <1>1, <1>2, <2>5, <2>7, <4>2, <5>2
          <5> QED
            BY <1>2, <4>2, <5>2, <5>3, <5>4 DEF Holding, Owes, At, Pc
        <4> QED
          BY <4>1, <4>2
      <3>2. Holding(j) \subseteq Creates /\ Holding(j)' \subseteq Creates
        BY DEF Holding
      <3>3. j = k => run \in Holding(j)
        BY <1>2, <2>1, <2>7 DEF Holding, At, Pc, run, RunOf
      <3> QED
        BY <2>7, <3>1, <3>2, <3>3
    <2>14. ASSUME Tame' PROVE Tame
      <3>1. TameRuns
        BY <1>1, <1>2, <2>5, <2>14 DEF Tame, TameRuns, Pc
      <3>2. OneComplete
        BY <1>1, <2>5, <2>14 DEF Tame, OneComplete, RunOf
      <3> QED
        BY <3>1, <3>2 DEF Tame
    <2>15. ASSUME UsedInv PROVE UsedInv'
      BY <1>2, <2>5, <2>15 DEF UsedInv, Pc, RunOf
    <2>16. counter'["active"] = Cardinality(Holding("active")')
      <3>1. counter["active"] = Cardinality(Holding("active")) /\ counter["active"] \in Int
        BY <1>1 DEF TidyInv, ExactInv, TypeOK, Keys
      <3>2. "active" \in Keys /\ "active" \in Shared
        BY DEF Keys, Shared
      <3>3. CASE k # "active"
        BY <2>6, <2>13, <3>1, <3>2, <3>3
      <3>4. CASE k = "active"
        <4>1. counter'["active"] = counter["active"] - 1
          BY <2>6, <3>1, <3>2, <3>4 DEF Amount
        <4>2. Cardinality(Holding("active") \ {run}) = Cardinality(Holding("active")) - 1
          BY <2>13, <3>2, <3>4, RowsFinite, FS_RemoveElement
        <4> QED
          BY <2>13, <3>1, <3>2, <3>4, <4>1, <4>2
      <3> QED
        BY <3>3, <3>4
    <2>17. ASSUME CountsTokens, Tame, UsedInv
           PROVE  counter'["tokens"] = TokenReservation * Cardinality(Holding("tokens")') + TokensOf(Paid)'
      <3> DEFINE n == Cardinality(Holding("tokens"))
                 m == Total(usage, Paid)
      <3>1. TokensOf(Paid) = m /\ TokensOf(Paid)' = Total(usage', Paid')
        <4>1. TokensOf(Paid)' = Total(usage', Paid')
          BY Zenon DEF TokensOf, MapThenSumSet, MapThenFoldSet, Total, AddsUp, Pick1
        <4> QED
          BY <4>1, TokensOfIsTotal
      <3>2. counter["tokens"] = TokenReservation * n + m /\ counter["tokens"] \in Int
        BY <1>1, <2>17, <3>1 DEF TidyInv, ExactInv, TypeOK, Keys
      <3>3. "tokens" \in Keys /\ "tokens" \in Shared
        BY DEF Keys, Shared
      <3>4. n \in Nat /\ TokenReservation \in Nat
        BY RowsFinite, FS_CardinalityType, LimitsAssumption
      <3>5. CASE k # "tokens"
        <4>1. Holding("tokens")' = Holding("tokens")
          BY <2>13, <3>3, <3>5
        <4>2. Paid' = Paid
          BY <1>2, <4>1 DEF Paid, Created
        <4>3. Total(usage', Paid') = m
          BY <1>2, <4>2
        <4>4. counter'["tokens"] = counter["tokens"]
          BY <2>6, <3>3, <3>5
        <4> QED
          BY <3>1, <3>2, <4>1, <4>3, <4>4
      <3>6. CASE k = "tokens"
        <4>1. run \in Holding("tokens") /\ Holding("tokens")' = Holding("tokens") \ {run}
          BY <2>13, <3>3, <3>6
        <4>2. Cardinality(Holding("tokens")') = n - 1
          BY <4>1, RowsFinite, FS_RemoveElement
        <4>3. handler[h].used \in Nat
          BY <1>1 DEF Handler
        <4>4. counter'["tokens"] = counter["tokens"] + (handler[h].used - TokenReservation)
          BY <2>6, <3>3, <3>6 DEF Amount
        <4>5. Total(usage', Paid') = m + handler[h].used /\ m \in Nat
          <5>1. usage \in [Creates -> Nat] /\ Paid \in SUBSET Creates /\ IsFiniteSet(Creates) /\ run \notin Paid
            BY <1>1, <4>1, RowsFinite, RequestsAssumption DEF TypeOK, Paid
          <5>2. run \in Creates \ Paid
            BY <2>7, <5>1
          <5>3. m \in Nat /\ Total(usage, Paid \cup {run}) = m + usage[run]
            <6> DEFINE P == Paid
                       u == usage
            <6>1. /\ u \in [Creates -> Nat] /\ P \in SUBSET Creates /\ IsFiniteSet(Creates)
                  /\ run \in Creates \ P
              BY <5>1, <5>2
            <6>2. Total(u, P) \in Nat /\ Total(u, P \cup {run}) = Total(u, P) + u[run]
              <7> HIDE DEF P, u, m, n
              <7> QED
                BY <6>1, TotalAdds
            <6> QED
              BY <6>2
          <5>4. CASE status[run] = "none"
            <6>1. h \in Creates
              BY <1>1, <1>2, <5>4 DEF FinishersInv, run, Finished
            <6>2. handler[h].used = 0
              BY <1>1, <1>2, <2>7, <5>4, <6>1 DEF CreatesInv
            <6>3. Paid' = Paid
              BY <1>2, <4>1, <5>4 DEF Paid, Created
            <6>4. Total(usage', Paid') = m
              BY <1>2, <6>3
            <6> HIDE DEF m
            <6> QED
              BY <5>3, <6>2, <6>4
          <5>5. CASE status[run] # "none"
            <6>1. handler[h].used = usage[run]
              BY <1>2, <2>17, <5>5 DEF UsedInv, run
            <6>2. Paid' = Paid \cup {run}
              BY <1>2, <2>7, <4>1, <5>5 DEF Paid, Created
            <6>3. Total(usage', Paid') = Total(usage, Paid \cup {run})
              BY <1>2, <6>2
            <6> HIDE DEF m
            <6> QED
              BY <5>3, <6>1, <6>3
          <5> QED
            BY <5>4, <5>5
        <4>6. TokenReservation * (n - 1) = TokenReservation * n - TokenReservation
          BY <3>4
        <4> HIDE DEF n, m
        <4> QED
          BY <3>1, <3>2, <3>4, <4>2, <4>3, <4>4, <4>5, <4>6
      <3> QED
        BY <3>5, <3>6
    <2>18. ExactInv'
      BY <2>14, <2>15, <2>16, <2>17 DEF TidyInv, ExactInv
    <2> QED
      BY <2>8, <2>9, <2>11, <2>12, <2>18 DEF TidyInv, LogicInv
  <1> QED
    BY <1>1, <1>3, <1>4 DEF Settle, Redis

\* A create at a counter has reserved nothing of it before.
LEMMA ReserveTidy ==
    ASSUME IInv, IInv', TidyInv, faults = 0, faults' = 0, NEW c \in Creates, Reserve(c)
    PROVE  TidyInv'
  <1>1. /\ TypeOK /\ CreatesInv /\ FinishersInv /\ ReleaseInv /\ ShareInv /\ LogicInv /\ RunInv /\ MarkerInv
        /\ ~Fault("reply") /\ ~Fault("redis") /\ handler[c] \in Handler /\ c \in Handlers /\ c \notin Finishers
        /\ Finishers \subseteq Handlers /\ Creates \subseteq Handlers
        /\ Handlers = Creates \cup Finishers /\ Creates \cap Finishers = {}
    BY Tidied, NoFault DEF TypeOK
  <1>2. PICK k \in Keys, q \in {"hour", "tokens", "add", "rollback"} :
          /\ Pc(c) = k /\ (q = AfterKey(k) \/ q = "rollback")
          /\ \/ Goto(c, q) /\ q = AfterKey(k) /\ counter' = counter /\ (Limit(k) = 0 \/ Cost(k) = 0)
             \/ /\ Add(k, Cost(k))
                /\ handler' = [handler EXCEPT ![c] = [[handler[c] EXCEPT !.reserved = @ \cup {k}]
                                                        EXCEPT !.pc = q]]
    <2>1. PICK k \in Keys :
            /\ Pc(c) = k
            /\ \/ Goto(c, AfterKey(k)) /\ counter' = counter /\ (Limit(k) = 0 \/ Cost(k) = 0)
               \/ /\ Add(k, Cost(k))
                  /\ handler' = [handler EXCEPT ![c] = [[handler[c] EXCEPT !.reserved = @ \cup {k}]
                                    EXCEPT !.pc = IF Within(k, counter[k] + Cost(k))
                                                  THEN AfterKey(k) ELSE "rollback"]]
      BY <1>1 DEF Reserve, Redis, At, Pc
    <2>2. AfterKey(k) \in {"hour", "tokens", "add", "rollback"}
      BY DEF AfterKey, Keys
    <2>3. CASE Within(k, counter[k] + Cost(k))
      BY <2>1, <2>2, <2>3
    <2>4. CASE ~Within(k, counter[k] + Cost(k))
      BY <2>1, <2>2, <2>4
    <2> QED
      BY <2>3, <2>4
  <1>3. UNCHANGED <<status, usage, marker>>
    BY DEF Reserve
  <1>4. AfterKey(k) \in {"hour", "tokens", "add"} /\ (AfterKey(k) = "add" <=> k = "tokens")
        /\ (AfterKey(k) = "hour" <=> k = "active") /\ k \in {"active", "hour", "tokens"}
    BY DEF AfterKey, Keys
  <1>5. /\ status[c] = "none" /\ ~handler[c].committed /\ ~handler[c].handed /\ marker[c] = {} /\ RunOf(c) = c
        /\ k \in Shared => k \notin handler[c].reserved
        /\ k = "active" => handler[c].reserved = {}
        /\ k \in {"active", "hour"} => "tokens" \notin handler[c].reserved
    BY <1>1, <1>2, <1>4 DEF RunInv, MarkerInv, CreatesInv, Early, Shared
  <1>6. CASE Goto(c, q) /\ q = AfterKey(k) /\ counter' = counter /\ (Limit(k) = 0 \/ Cost(k) = 0)
    <2>1. Only(c) /\ handler'[c].pc = q /\ SameRun(c) /\ SameDebt(c)
      BY <1>1, <1>4, <1>6, GotoKeeps DEF PCs, Keys
    <2>2. Quiet(c, q)
      BY <1>2, <1>3, <1>4, <1>6, <2>1 DEF Quiet, SameRun
    <2>3. CountsTokens => q # "add"
      BY <1>4, <1>6, LimitsAssumption DEF CountsTokens, Limit, Cost
    <2>4. QuietCreate(c, q) /\ QuietFinisher(c, q)
      BY <1>1, <1>2, <1>4, <1>5, <1>6, <2>1, <2>3
      DEF QuietCreate, QuietFinisher, CreatesInv, SameRun, Early, Handed, Finishing, Releasing
    <2> QED
      BY <1>1, <1>3, <1>6, <2>2, <2>4, QuietGood
  <1>7. CASE /\ Add(k, Cost(k))
             /\ handler' = [handler EXCEPT ![c] = [[handler[c] EXCEPT !.reserved = @ \cup {k}]
                                                     EXCEPT !.pc = q]]
    <2> DEFINE t == [[handler[c] EXCEPT !.reserved = @ \cup {k}] EXCEPT !.pc = q]
    <2>1. /\ t \in Handler /\ t.pc = q /\ t.run = handler[c].run /\ t.wanted = handler[c].wanted
          /\ t.committed = handler[c].committed /\ t.reserved = handler[c].reserved \cup {k}
          /\ t.handed = handler[c].handed /\ t.used = handler[c].used /\ t.before = handler[c].before
          /\ t.owed = handler[c].owed /\ t.then = handler[c].then
      BY <1>1, <1>4 DEF Handler, PCs, Keys
    <2>2. handler' = [handler EXCEPT ![c] = t]
      BY <1>7
    <2> HIDE DEF t
    <2>3. Only(c) /\ handler'[c] = t
      BY <1>1, <2>1, <2>2, Becomes
    <2>4. /\ \A g \in Handlers : /\ handler'[g].run = RunOf(g) /\ handler'[g].wanted = handler[g].wanted
                                 /\ handler'[g].handed = handler[g].handed
                                 /\ handler'[g].committed = handler[g].committed
                                 /\ g # c => handler'[g] = handler[g]
          /\ handler'[c].pc = q /\ handler'[c].reserved = handler[c].reserved \cup {k}
      BY <2>1, <2>3 DEF Only, RunOf
    <2>5. \A j \in Keys : counter'[j] = IF j = k THEN counter[j] + Cost(k) ELSE counter[j]
      BY <1>1, <1>7 DEF Add, TypeOK
    <2>6. q \in {"hour", "tokens", "add", "rollback"} /\ (q = "add" => k = "tokens")
          /\ (q \in {"hour", "tokens"} => k \in {"active", "hour"})
      BY <1>2, <1>4
    <2>7. CreatesInv'
      BY <1>1, <1>3, <1>5, <2>1, <2>3, <2>4, <2>6 DEF CreatesInv, Pc, Early, Handed, Finishing, Releasing
    <2>8. \A f \in Finishers : handler'[f] = handler[f]
      BY <1>1, <2>4
    <2>9. FinishersInv'
      <3>1. ASSUME NEW f \in Finishers
            PROVE  handler[f].wanted = "succeeded" => handler'[RunOf(f)].handed
        <4>1. handler[f].wanted = "succeeded" => handler[RunOf(f)].handed /\ Pc(f) # "idle"
          BY <1>1 DEF FinishersInv
        <4>2. Pc(f) # "idle" => RunOf(f) \in Handlers
          BY <1>1 DEF RunInv
        <4> QED
          BY <2>4, <4>1, <4>2
      <3> QED
        BY <1>1, <1>3, <2>8, <3>1 DEF FinishersInv, Pc, RunOf
    <2>10. \A g \in Handlers, j \in Shared : Owes(g, j)' <=> Owes(g, j)
      BY <1>2, <1>4, <2>4, <2>6 DEF Owes, Pc
    <2>11. ShareInv'
      <3>1. \A g \in Handlers, j \in Shared : Owes(g, j) => RunOf(g) \in Handlers
        BY <1>1 DEF Owes, RunInv
      <3>2. \A g \in Handlers, j \in Shared : Owes(g, j)' =>
              marker'[handler'[g].run] = {}
              /\ (handler'[handler'[g].run].committed \/ g = handler'[g].run)
        BY <1>1, <1>3, <2>4, <2>10, <3>1 DEF ShareInv
      <3>3. \A f, g \in Handlers, j \in Shared :
              handler'[f].run = handler'[g].run /\ Owes(f, j)' /\ Owes(g, j)' => f = g
        BY <1>1, <2>4, <2>10 DEF ShareInv
      <3> QED
        BY <3>2, <3>3 DEF ShareInv, RunOf
    <2>12. ReleaseInv'
      <3>1. \A g \in Handlers : handler'[g].pc = "update" /\ handler'[g].before => status'[handler'[g].run] \in Finished
        BY <1>1, <1>3, <2>4, <2>6 DEF ReleaseInv, Pc, RunOf
      <3>2. \A d \in Creates : status'[d] = "succeeded" =>
              /\ \E f \in Finishers :
                   /\ handler'[f].run = d /\ handler'[f].wanted = "succeeded"
                   /\ handler'[f].pc \notin {"idle", "saveUsage", "before", "update"}
              /\ marker'[d] # {} => \E f \in Finishers : handler'[f].run = d /\ handler'[f].pc \in Releasing
        BY <1>1, <1>3, <2>8 DEF ReleaseInv, Pc, RunOf
      <3> QED
        BY <3>1, <3>2 DEF ReleaseInv, Pc, RunOf
    <2>13. \A g \in Handlers, j \in Shared : Owes(g, j) => RunOf(g) # c
      BY <1>1, <1>2, <1>4, <1>5 DEF Owes, ShareInv
    <2>14. ASSUME NEW j \in Shared
           PROVE  /\ j # k => Holding(j)' = Holding(j)
                  /\ j = k => c \notin Holding(j) /\ Holding(j)' = Holding(j) \cup {c}
      <3>1. ASSUME NEW d \in Creates
            PROVE  d \in Holding(j)' <=> d \in Holding(j) \/ (j = k /\ d = c)
        <4>1. (\E g \in Handlers : handler'[g].run = d /\ Owes(g, j)')
                <=> (\E g \in Handlers : handler[g].run = d /\ Owes(g, j))
          BY <2>4, <2>10 DEF RunOf
        <4>2. CASE d # c
          BY <1>1, <1>3, <2>4, <4>1, <4>2 DEF Holding, Owes, At, Pc
        <4>3. CASE d = c
          <5>1. d \in Holding(j)' <=> \/ j \in marker[c]
                                      \/ \E g \in Handlers : handler[g].run = d /\ Owes(g, j)
                                      \/ j \in handler[c].reserved \cup {k}
            BY <1>1, <1>3, <1>5, <2>4, <2>6, <4>1, <4>3 DEF Holding, Owes, At, Pc
          <5>2. d \in Holding(j) <=> \/ j \in marker[c]
                                     \/ \E g \in Handlers : handler[g].run = d /\ Owes(g, j)
                                     \/ j \in handler[c].reserved
            BY <1>2, <1>4, <1>5, <4>3 DEF Holding, Owes, At, Pc
          <5> QED
            BY <4>3, <5>1, <5>2
        <4> QED
          BY <4>2, <4>3
      <3>2. Holding(j) \subseteq Creates /\ Holding(j)' \subseteq Creates
        BY DEF Holding
      <3>3. j = k => c \notin Holding(j)
        <4> SUFFICES ASSUME j = k PROVE c \notin Holding(j)
          OBVIOUS
        <4>1. ~\E g \in Handlers : handler[g].run = c /\ Owes(g, j)
          BY <2>13 DEF RunOf
        <4>2. j \notin handler[c].reserved /\ j \notin marker[c]
          BY <1>5
        <4> QED
          BY <4>1, <4>2 DEF Holding, Owes, At, Pc
      <3> QED
        BY <3>1, <3>2, <3>3
    <2>15. ASSUME Tame' PROVE Tame
      <3>1. TameRuns
        <4>1. \A d \in Creates : status[d] # "none" => handler'[d].pc \in {"commit"} \cup Handed /\ status[d] # "canceled"
          BY <1>3, <2>15 DEF Tame, TameRuns, Pc
        <4> QED
          BY <1>1, <1>5, <2>4, <4>1 DEF TameRuns, Pc
      <3>2. OneComplete
        BY <2>8, <2>15 DEF Tame, OneComplete, RunOf
      <3> QED
        BY <3>1, <3>2 DEF Tame
    <2>16. ASSUME UsedInv PROVE UsedInv'
      <3>1. \A g \in Handlers : handler'[g].pc \in {"marker", "delete", "settle"} => handler'[g] = handler[g]
        BY <2>4, <2>6
      <3> QED
        BY <1>3, <2>16, <3>1 DEF UsedInv, Pc, RunOf
    <2>17. counter'["active"] = Cardinality(Holding("active")')
      <3>1. counter["active"] = Cardinality(Holding("active")) /\ counter["active"] \in Int
        BY <1>1 DEF TidyInv, ExactInv, TypeOK, Keys
      <3>2. "active" \in Keys /\ "active" \in Shared
        BY DEF Keys, Shared
      <3>3. CASE k # "active"
        BY <2>5, <2>14, <3>1, <3>2, <3>3
      <3>4. CASE k = "active"
        <4>1. counter'["active"] = counter["active"] + 1
          BY <2>5, <3>1, <3>2, <3>4 DEF Cost
        <4>2. Cardinality(Holding("active") \cup {c}) = Cardinality(Holding("active")) + 1
          BY <2>14, <3>2, <3>4, RowsFinite, FS_AddElement
        <4> QED
          BY <2>14, <3>1, <3>2, <3>4, <4>1, <4>2
      <3> QED
        BY <3>3, <3>4
    <2>18. ASSUME CountsTokens, Tame
           PROVE  counter'["tokens"] = TokenReservation * Cardinality(Holding("tokens")') + TokensOf(Paid)'
      <3> DEFINE n == Cardinality(Holding("tokens"))
                 m == TokensOf(Paid)
      <3>1. TokensOf(Paid)' = m
        <4>1. Paid' = Paid
          BY <1>3, <1>5, <2>14 DEF Paid, Created, Shared
        <4>2. TokensOf(Paid)' = Total(usage', Paid')
          BY Zenon DEF TokensOf, MapThenSumSet, MapThenFoldSet, Total, AddsUp, Pick1
        <4>3. TokensOf(Paid) = Total(usage, Paid)
          BY TokensOfIsTotal
        <4> QED
          BY <1>3, <4>1, <4>2, <4>3
      <3>2. counter["tokens"] = TokenReservation * n + m /\ counter["tokens"] \in Int
        BY <1>1, <2>18 DEF TidyInv, ExactInv, TypeOK, Keys
      <3>3. "tokens" \in Keys /\ "tokens" \in Shared
        BY DEF Keys, Shared
      <3>4. n \in Nat /\ TokenReservation \in Nat
        BY RowsFinite, FS_CardinalityType, LimitsAssumption
      <3>5. m \in Nat
        <4> DEFINE P == Paid
                   u == usage
        <4>1. u \in [Creates -> Nat] /\ P \in SUBSET Creates /\ IsFiniteSet(Creates) /\ c \in Creates \ P
          BY <1>1, <1>5, RowsFinite, RequestsAssumption DEF TypeOK, Paid, Created
        <4>2. Total(u, P) \in Nat
          <5> HIDE DEF P, u, m, n
          <5> QED
            BY <4>1, TotalAdds
        <4> QED
          BY <4>2, TokensOfIsTotal
      <3>6. CASE k # "tokens"
        <4>1. Holding("tokens")' = Holding("tokens") /\ counter'["tokens"] = counter["tokens"]
          BY <2>5, <2>14, <3>3, <3>6
        <4> QED
          BY <3>1, <3>2, <4>1
      <3>7. CASE k = "tokens"
        <4>1. c \notin Holding("tokens") /\ Holding("tokens")' = Holding("tokens") \cup {c}
          BY <2>14, <3>3, <3>7
        <4>2. Cardinality(Holding("tokens")') = n + 1
          BY <4>1, RowsFinite, FS_AddElement
        <4>3. counter'["tokens"] = counter["tokens"] + TokenReservation
          BY <2>5, <3>3, <3>7 DEF Cost
        <4>4. TokenReservation * (n + 1) = TokenReservation * n + TokenReservation
          BY <3>4
        <4> HIDE DEF n, m
        <4> QED
          BY <3>1, <3>2, <3>4, <3>5, <4>2, <4>3, <4>4
      <3> QED
        BY <3>6, <3>7
    <2>19. ExactInv'
      BY <2>15, <2>16, <2>17, <2>18 DEF TidyInv, ExactInv
    <2> QED
      BY <2>7, <2>9, <2>11, <2>12, <2>19 DEF TidyInv, LogicInv
  <1> QED
    BY <1>2, <1>6, <1>7

\* Nothing is reserved, and nothing was used.
LEMMA TidyAtFirst == ASSUME Init PROVE TidyInv
  <1>1. /\ Creates \subseteq Handlers /\ Finishers \subseteq Handlers
        /\ \A c \in Creates : status[c] = "none" /\ marker[c] = {}
    BY DEF Init, Handlers
  <1>2. \A h \in Handlers :
          /\ handler[h].pc = "idle" /\ handler[h].run = h /\ handler[h].wanted = "failed"
          /\ handler[h].reserved = {} /\ ~handler[h].committed /\ ~handler[h].handed
          /\ handler[h].then = "done"
    BY DEF Init
  <1>3. ShareInv /\ FinishersInv /\ ReleaseInv
    BY <1>1, <1>2 DEF ShareInv, FinishersInv, ReleaseInv, Owes, Pc, RunOf
  <1>4. CreatesInv
    BY <1>1, <1>2 DEF CreatesInv, Pc, Early, Handed, Finishing, Releasing
  <1>5. \A k \in Keys : Holding(k) = {} /\ counter[k] = 0
    <2>1. \A k \in Keys : counter[k] = 0
      BY DEF Init
    <2>2. \A k : Holding(k) = {}
      BY <1>1, <1>2 DEF Holding, At
    <2> QED
      BY <2>1, <2>2
  <1>6. TokensOf(Paid) = 0
    <2>1. Paid = {}
      BY <1>1 DEF Paid, Created
    <2>2. IsFiniteSet({})
      BY FS_EmptySet
    <2>3. Total(usage, {}) = 0
      BY <2>2, TotalDefinition
    <2> QED
      BY <2>1, <2>3, TokensOfIsTotal
  <1>7. UsedInv
    BY <1>2 DEF UsedInv, Pc
  <1>8. ExactInv
    <2>1. Cardinality({}) = 0
      BY FS_EmptySet
    <2>2. "active" \in Keys /\ "tokens" \in Keys /\ TokenReservation \in Nat
      BY LimitsAssumption DEF Keys
    <2>3. counter["active"] = Cardinality(Holding("active"))
      BY <1>5, <2>1, <2>2
    <2>4. counter["tokens"] = TokenReservation * Cardinality(Holding("tokens")) + TokensOf(Paid)
      BY <1>5, <1>6, <2>1, <2>2
    <2> QED
      BY <1>7, <2>3, <2>4 DEF ExactInv
  <1> QED
    BY <1>3, <1>4, <1>8 DEF TidyInv, LogicInv

LEMMA TidyStutters == ASSUME TidyInv, UNCHANGED vars PROVE TidyInv'
  <1>2. \A k : Holding(k)' = Holding(k)
    BY DEF vars, Holding, At
  <1>1. Paid' = Paid
    BY <1>2 DEF vars, Paid, Created
  <1>3. ExactInv'
    <2>1. Tame' => Tame
      BY DEF vars, Tame, TameRuns, OneComplete, Pc, RunOf
    <2>2. UsedInv => UsedInv'
      BY DEF vars, UsedInv, Pc, RunOf
    <2>3. CountsTokens /\ Tame' => Tame /\ UsedInv'
      BY <2>1, <2>2 DEF TidyInv, ExactInv
    <2> QED
      BY <1>1, <1>2, <2>3, ExactKept DEF TidyInv, vars
  <1>4. ShareInv' /\ CreatesInv' /\ FinishersInv' /\ ReleaseInv'
    BY DEF TidyInv, LogicInv, ShareInv, CreatesInv, FinishersInv, ReleaseInv, vars, Owes, Pc, RunOf
  <1> QED
    BY <1>3, <1>4 DEF TidyInv, LogicInv

\* Together with the invariant of the limits, it is inductive while nothing fails.
LEMMA TidyInductive == ASSUME IInv, TidyInv, faults = 0, faults' = 0, [Next]_vars PROVE IInv' /\ TidyInv'
  <1>1. \A kind : ~Fault(kind)
    BY NoFault DEF IInv, OwnerInv
  <1>2. IInv'
    BY <1>1, Inductive
  <1>3. ASSUME NEW c \in Creates,
               \/ Receive(c) \/ Check(c) \/ Reserve(c) \/ AddUserMessage(c) \/ Commit(c)
               \/ HandOver(c) \/ DispatchReturns(c) \/ Rollback(c)
        PROVE  TidyInv'
    BY <1>2, <1>3, ReceiveTidy, CheckTidy, ReserveTidy, AddUserMessageTidy, CommitTidy, HandOverTidy,
       DispatchReturnsTidy, RollbackTidy
  <1>4. ASSUME NEW f \in Finishers, Finish(f) \/ SaveRunUsage(f) PROVE TidyInv'
    BY <1>2, <1>4, FinishTidy, SaveRunUsageTidy
  <1>5. ASSUME NEW h \in Handlers,
               \/ GetBefore(h) \/ Update(h) \/ ReadUsage(h)
               \/ GetMarker(h) \/ DeleteMarker(h) \/ Settle(h) \/ Crash(h)
        PROVE  TidyInv'
    <2>1. ~Crash(h)
      BY <1>1 DEF Crash
    <2> QED
      BY <1>2, <1>5, <2>1, GetBeforeTidy, UpdateTidy, ReadUsageTidy, GetMarkerTidy, DeleteMarkerTidy,
         SettleTidy
  <1>6. CASE UNCHANGED vars
    BY <1>2, <1>6, TidyStutters
  <1> QED
    BY <1>2, <1>3, <1>4, <1>5, <1>6 DEF Next

\* A step counts at most one fault.
LEMMA FaultsGrow == ASSUME faults \in Nat, [Next]_vars PROVE faults' \in {faults, faults + 1}
  <1>1. ASSUME NEW c \in Creates,
               \/ Receive(c) \/ Check(c) \/ Reserve(c) \/ AddUserMessage(c) \/ Commit(c)
               \/ HandOver(c) \/ DispatchReturns(c) \/ Rollback(c)
        PROVE  faults' \in {faults, faults + 1}
    <2>1. CASE Receive(c) \/ Check(c) \/ AddUserMessage(c) \/ HandOver(c) \/ DispatchReturns(c)
      BY <2>1 DEF Receive, Check, AddUserMessage, HandOver, DispatchReturns, Fault
    <2>2. CASE Reserve(c)
      BY <2>2 DEF Reserve, Redis, Fault
    <2>3. CASE Commit(c)
      BY <2>3 DEF Commit, Redis, Fault
    <2>4. CASE Rollback(c)
      BY <2>4 DEF Rollback, Redis, Fault
    <2> QED
      BY <1>1, <2>1, <2>2, <2>3, <2>4
  <1>2. ASSUME NEW f \in Finishers, Finish(f) \/ SaveRunUsage(f) PROVE faults' = faults
    BY <1>2 DEF Finish, SaveRunUsage
  <1>3. ASSUME NEW h \in Handlers,
               \/ GetBefore(h) \/ Update(h) \/ ReadUsage(h)
               \/ GetMarker(h) \/ DeleteMarker(h) \/ Settle(h) \/ Crash(h)
        PROVE  faults' \in {faults, faults + 1}
    <2>1. CASE GetBefore(h) \/ Update(h) \/ ReadUsage(h) \/ GetMarker(h) \/ Crash(h)
      BY <2>1 DEF GetBefore, Update, ReadUsage, GetMarker, Crash, Fault
    <2>2. CASE DeleteMarker(h)
      BY <2>2 DEF DeleteMarker, Redis, Fault
    <2>3. CASE Settle(h)
      BY <2>3 DEF Settle, Redis, Fault
    <2> QED
      BY <1>3, <2>1, <2>2, <2>3
  <1>4. CASE UNCHANGED vars
    BY <1>4 DEF vars
  <1> QED
    BY <1>1, <1>2, <1>3, <1>4 DEF Next

\* When every request has been answered, what is held of a counter is in the markers.
LEMMA HeldByMarkers ==
    ASSUME IInv, TidyInv, AllAnswered, NEW k \in Shared,
           \A c \in Creates : Pc(c) \in Handed => handler[c].committed,
           \A c \in Creates : handler[c].committed => k \in handler[c].reserved
    PROVE  /\ Holding(k) = {c \in Created : marker[c] # {}}
           /\ \A c \in Active : Pc(c) = "accepted" /\ marker[c] # {}
  <1>1. /\ RunInv /\ MarkerInv /\ CreatesInv /\ TypeOK /\ Creates \subseteq Handlers
        /\ \A h \in Handlers : Pc(h) \in {"idle", "accepted", "done"}
    BY Tidied DEF AllAnswered, Pc
  <1>2. ASSUME NEW c \in Creates
        PROVE  /\ k \in handler[c].reserved => handler[c].committed \/ Pc(c) = "done"
               /\ marker[c] # {} => k \in marker[c] /\ status[c] # "none"
    <2>1. k \in handler[c].reserved => handler[c].committed \/ Pc(c) = "done"
      BY <1>1 DEF CreatesInv, Handed
    <2>2. marker[c] # {} => k \in marker[c] /\ status[c] # "none"
      BY <1>1 DEF MarkerInv, CreatesInv, Shared
    <2> QED
      BY <2>1, <2>2
  <1>3. Holding(k) = {c \in Created : marker[c] # {}}
    <2>1. \A h \in Handlers : handler[h].pc # "settle"
      BY <1>1 DEF Pc
    <2>2. \A c \in Creates : c \in Holding(k) <=> k \in marker[c]
      BY <1>2, <2>1 DEF Holding, At, Pc
    <2>3. Holding(k) \subseteq Creates /\ Created \subseteq Creates
      BY DEF Holding, Created
    <2>4. \A c \in Creates : k \in marker[c] <=> c \in Created /\ marker[c] # {}
      BY <1>2 DEF Created
    <2> QED
      BY <2>2, <2>3, <2>4
  <1>4. ASSUME NEW c \in Active PROVE Pc(c) = "accepted" /\ marker[c] # {}
    <2>1. c \in Creates /\ status[c] # "none" /\ status[c] \notin Finished
      BY DEF Active, Created
    <2>2. Pc(c) \notin {"idle", "done"}
      BY <1>1, <2>1 DEF RunInv, CreatesInv, Early
    <2>3. Pc(c) = "accepted"
      BY <1>1, <2>1, <2>2
    <2> QED
      BY <1>1, <2>1, <2>3 DEF MarkerInv, Handed
  <1> QED
    BY <1>3, <1>4

\* The invariant says what the counters stand for once nothing is on its way.
LEMMA TidySettles == ASSUME IInv, TidyInv, AllAnswered PROVE SettledAtEnd
  <1>1. /\ RunInv /\ MarkerInv /\ CreatesInv /\ ReleaseInv /\ ReservedInv /\ TypeOK
        /\ Creates \subseteq Handlers /\ Finishers \subseteq Handlers
        /\ \A h \in Handlers : Pc(h) \in {"idle", "accepted", "done"}
    BY Tidied DEF AllAnswered, Pc, IInv, OwnerInv
  <1>2. ASSUME MaxConcurrentRuns > 0
        PROVE  counter["active"] = Cardinality({c \in Created : c \in Active \/ marker[c] # {}})
    <2>1. /\ Holding("active") = {c \in Created : marker[c] # {}}
          /\ \A c \in Active : Pc(c) = "accepted" /\ marker[c] # {}
      <3>1. /\ \A c \in Creates : Pc(c) \in Handed => handler[c].committed
            /\ \A c \in Creates : handler[c].committed => "active" \in handler[c].reserved
            /\ "active" \in Shared
        BY <1>1, <1>2 DEF ReservedInv, Shared
      <3> QED
        BY <3>1, HeldByMarkers
    <2>2. Holding("active") = {c \in Created : c \in Active \/ marker[c] # {}}
      BY <2>1
    <2> QED
      BY <2>2 DEF TidyInv, ExactInv
  <1>3. ASSUME CountsTokens, Plain
        PROVE  counter["tokens"] = TokenReservation * Cardinality(Active) + TokensOf(Created \ Active)
    <2>1. /\ Holding("tokens") = {c \in Created : marker[c] # {}}
          /\ \A c \in Active : Pc(c) = "accepted" /\ marker[c] # {}
      <3>1. /\ \A c \in Creates : Pc(c) \in Handed => handler[c].committed
            /\ \A c \in Creates : handler[c].committed => "tokens" \in handler[c].reserved
            /\ "tokens" \in Shared
        BY <1>1, <1>3 DEF CreatesInv, Shared
      <3> QED
        BY <3>1, HeldByMarkers
    <2>2. \A c \in Creates : status[c] # "none" => Pc(c) = "accepted" /\ status[c] # "canceled"
      BY <1>3 DEF Plain, Created, At, Pc
    <2>3. Tame
      BY <1>3, <2>2 DEF Plain, Tame, TameRuns, OneComplete, RunOf, Handed
    <2>4. ASSUME NEW c \in Created, marker[c] # {} PROVE c \in Active
      <3>1. c \in Creates /\ status[c] # "none" /\ status[c] # "canceled" /\ Pc(c) = "accepted"
        BY <2>2 DEF Created
      <3>2. status[c] # "failed"
        BY <1>1, <3>1 DEF CreatesInv, Handed
      <3>3. status[c] # "succeeded"
        BY <1>1, <2>4, <3>1 DEF ReleaseInv, Releasing
      <3> QED
        BY <3>1, <3>2, <3>3 DEF Active, Finished
    <2>5. Holding("tokens") = Active
      BY <2>1, <2>4 DEF Active
    <2>6. Paid = Created \ Active
      BY <2>5 DEF Paid
    <2>7. counter["tokens"] = TokenReservation * Cardinality(Holding("tokens")) + TokensOf(Paid)
      BY <1>3, <2>3 DEF TidyInv, ExactInv
    <2> QED
      BY <2>5, <2>6, <2>7
  <1> QED
    BY <1>2, <1>3 DEF SettledAtEnd

\* When all requests have been answered and no call has failed, the counter of concurrent
\* runs stands for the unfinished runs, and those whose marker was written after they had
\* finished; and if every run was accepted, completed once and not canceled, that of the
\* tokens stands for the reservations of the unfinished runs and the usage of the others
\* (ReserveRunWithHint, ReleaseRun).
THEOREM SettledWhenAnswered == Spec => []SettledAtEnd
  <1> DEFINE Calm == faults \in Nat /\ (faults = 0 => IInv /\ TidyInv)
  <1>1. Init => Calm
    BY InitGood, TidyAtFirst DEF Init
  <1>2. Calm /\ [Next]_vars => Calm'
    <2> SUFFICES ASSUME Calm, [Next]_vars PROVE Calm'
      OBVIOUS
    <2>1. faults' \in {faults, faults + 1} /\ faults \in Nat
      BY FaultsGrow
    <2>2. ASSUME faults' = 0 PROVE IInv' /\ TidyInv'
      <3>1. faults = 0
        BY <2>1, <2>2
      <3>2. IInv /\ TidyInv
        BY <3>1
      <3> HIDE DEF Calm
      <3> QED
        BY <2>2, <3>1, <3>2, TidyInductive
    <2> QED
      BY <2>1, <2>2
  <1>3. Calm => SettledAtEnd
    <2> SUFFICES ASSUME Calm, AllAnswered PROVE SettledAtEnd
      BY DEF SettledAtEnd
    <2>1. IInv /\ TidyInv
      BY DEF AllAnswered
    <2> QED
      BY <2>1, TidySettles
  <1> QED
    BY <1>1, <1>2, <1>3, PTL DEF Spec

-----------------------------------------------------------------------------
(* ToolCalls and SkillRequests *)

\* Of the calls in order, those that are two windows apart are a minute apart.
WindowsApart(a, rate) ==
    \A i \in 1..Len(a) : i + 2 * rate <= Len(a) => a[i + 2 * rate] - a[i] >= Minute

\* What the local limiter's window w has not counted was admitted before it began, and all
\* but the last window of that a minute before.
LocalOK(a, w, rate) ==
    /\ w.count <= rate /\ w.start <= now /\ (w.count = 0 => Len(a) = 0)
    /\ \A i \in 1..Len(a) :
         /\ a[i] <= now
         /\ i <= Len(a) - w.count => a[i] <= w.start
         /\ i <= Len(a) - w.count - rate => a[i] + Minute <= w.start

\* The calls that a minute of Redis has let in, of those it has counted.
LetIn(w, rate) == IF w.count < rate THEN w.count ELSE rate

\* What this minute of Redis has not let in was admitted in minutes before it, and all but
\* the last window of that before the last minute.
RedisOK(a, w, rate) ==
    /\ w.start <= now \div Minute
    /\ \A i \in 1..Len(a) :
         /\ a[i] \div Minute <= w.start
         /\ i <= Len(a) - LetIn(w, rate) => a[i] \div Minute < w.start
         /\ i <= Len(a) - LetIn(w, rate) - rate => a[i] \div Minute + 1 < w.start

RateOK(s) ==
    /\ WindowsApart(admitted[s], RateLimit[s])
    /\ limiter = "local" => LocalOK(admitted[s], window[s], RateLimit[s])
    /\ limiter = "redis" => RedisOK(admitted[s], window[s], RateLimit[s])

RateInv == \A s \in Skills : RateLimit[s] > 0 => RateOK(s)

TickSeq == Seq(0..MaxTicks)
Windows == [start : 0..MaxTicks, count : Nat]

-----------------------------------------------------------------------------
\* Ticks of minutes that are not next to each other are a minute apart.
LEMMA MinutesApart ==
    ASSUME NEW x \in 0..MaxTicks, NEW y \in 0..MaxTicks
    PROVE  /\ x \div Minute \in 0..MaxTicks
           /\ x <= y => x \div Minute <= y \div Minute
           /\ x \div Minute + 1 < y \div Minute => y - x >= Minute
  <1>1. Minute \in Nat \ {0} /\ x \in Nat /\ y \in Nat /\ MaxTicks \in Nat /\ x <= MaxTicks
    BY RequestBounds
  <1>2. x \div Minute \in Nat /\ x \div Minute <= x
    BY <1>1
  <1>3. x <= y => x \div Minute <= y \div Minute
    BY <1>1
  <1>4. x \div Minute + 1 < y \div Minute => y - x >= Minute
    BY <1>1
  <1> QED
    BY <1>1, <1>2, <1>3, <1>4

\* One more tick.
LEMMA OneMore ==
    ASSUME NEW a \in TickSeq, NEW t \in 0..MaxTicks, NEW b, b = Append(a, t)
    PROVE  /\ b \in TickSeq /\ Len(a) \in Nat /\ Len(b) = Len(a) + 1 /\ b[Len(a) + 1] = t
           /\ \A i \in 1..Len(a) : b[i] = a[i] /\ a[i] \in 0..MaxTicks
  BY RequestBounds DEF TickSeq

\* A call may follow that is a minute after the one two windows before it.
LEMMA ApartExtends ==
    ASSUME NEW a \in TickSeq, NEW rate \in Nat, rate > 0, WindowsApart(a, rate),
           NEW t \in 0..MaxTicks,
           \A i \in 1..Len(a) : i + 2 * rate = Len(a) + 1 => t - a[i] >= Minute,
           NEW b, b = Append(a, t)
    PROVE  WindowsApart(b, rate)
  <1> DEFINE n == Len(a)
  <1>1. /\ n \in Nat /\ Len(b) = n + 1 /\ b[n + 1] = t
        /\ \A i \in 1..n : b[i] = a[i] /\ a[i] \in Int
    BY OneMore
  <1>2. /\ \A i \in 1..n : i + 2 * rate <= n => a[i + 2 * rate] - a[i] >= Minute
        /\ \A i \in 1..n : i + 2 * rate = n + 1 => t - a[i] >= Minute
    BY DEF WindowsApart
  <1> HIDE DEF n
  <1> SUFFICES ASSUME NEW i \in 1..(n + 1), i + 2 * rate <= n + 1
               PROVE  b[i + 2 * rate] - b[i] >= Minute
    BY <1>1 DEF WindowsApart
  <1>3. i \in 1..n /\ b[i] = a[i]
    BY <1>1
  <1>4. CASE i + 2 * rate = n + 1
    <2>1. b[i + 2 * rate] = t
      BY <1>1, <1>4, Zenon
    <2> QED
      BY <1>2, <1>3, <1>4, <2>1
  <1>5. CASE i + 2 * rate # n + 1
    <2>1. i + 2 * rate \in 1..n /\ i + 2 * rate <= n
      BY <1>1, <1>3, <1>5
    <2>2. b[i + 2 * rate] = a[i + 2 * rate]
      BY <1>1, <2>1
    <2> QED
      BY <1>2, <1>3, <2>1, <2>2
  <1> QED
    BY <1>4, <1>5

LEMMA LocalAdmits ==
    ASSUME NEW a \in TickSeq, NEW rate \in Nat, rate > 0, now \in 0..MaxTicks, now' = now,
           NEW w \in Windows, NEW v \in Windows, LocalOK(a, w, rate), WindowsApart(a, rate),
           \/ WindowOver(w) /\ v.start = now /\ v.count = 1
           \/ ~WindowOver(w) /\ w.count < rate /\ v.start = w.start /\ v.count = w.count + 1,
           NEW b, b = Append(a, now)
    PROVE  WindowsApart(b, rate) /\ LocalOK(b, v, rate)'
  <1> DEFINE n == Len(a)
  <1>1. /\ n \in Nat /\ Len(b) \in Nat /\ Len(b) = n + 1 /\ b[n + 1] = now
        /\ \A i \in 1..n : b[i] = a[i] /\ a[i] \in Int
    BY OneMore
  <1>2. /\ w.count \in Nat /\ w.start \in Int /\ v.count \in Nat /\ v.start \in Int
        /\ Minute \in Nat \ {0} /\ now \in Int /\ rate \in Int
    BY RequestBounds DEF Windows
  <1>3. /\ w.count <= rate /\ w.start <= now /\ (w.count = 0 => n = 0)
        /\ \A i \in 1..n :
             /\ a[i] <= now
             /\ i <= n - w.count => a[i] <= w.start
             /\ i <= n - w.count - rate => a[i] + Minute <= w.start
    BY DEF LocalOK
  <1> HIDE DEF n
  <1> DEFINE l == Len(b)
  <1>0. n \in Int /\ l = n + 1
    BY <1>1
  <1> HIDE DEF l
  <1>4. /\ v.count > 0 /\ v.count <= rate /\ v.start <= now
    BY <1>2, <1>3
  <1>5. ASSUME NEW i \in 1..n
        PROVE  /\ b[i] <= now
               /\ i <= n + 1 - v.count => b[i] <= v.start
               /\ i <= n + 1 - v.count - rate => b[i] + Minute <= v.start
               /\ i + 2 * rate = n + 1 => now - a[i] >= Minute
    <2>1. i \in Int /\ 1 <= i /\ i <= n /\ b[i] = a[i] /\ a[i] \in Int
      BY <1>1
    <2>2. /\ a[i] <= now
          /\ i <= n - w.count => a[i] <= w.start
          /\ i <= n - w.count - rate => a[i] + Minute <= w.start
      BY <1>3
    <2>3. CASE WindowOver(w) /\ v.start = now /\ v.count = 1
      <3>1. now - w.start >= Minute
        BY <1>1, <1>3, <2>1, <2>3 DEF WindowOver
      <3> QED
        BY <1>1, <1>2, <1>3, <2>1, <2>2, <2>3, <3>1
    <2>4. CASE w.count < rate /\ v.start = w.start /\ v.count = w.count + 1
      <3>1. n + 1 - v.count = n - w.count /\ n + 1 - v.count - rate = n - w.count - rate
        BY <1>0, <1>2, <2>4 DEF Windows
      <3>2. i + 2 * rate = n + 1 => i <= n - w.count - rate
        BY <1>1, <1>2, <2>1, <2>4
      <3>3. i + 2 * rate = n + 1 => a[i] + Minute <= now
        BY <1>2, <1>3, <2>1, <2>2, <3>2
      <3> QED
        BY <1>2, <2>1, <2>2, <2>4, <3>1, <3>3
    <2> QED
      BY <2>3, <2>4
  <1>6. WindowsApart(b, rate)
    BY <1>5, ApartExtends DEF n
  <1>7. ASSUME NEW i \in 1..Len(b)
        PROVE  /\ b[i] <= now
               /\ i <= Len(b) - v.count => b[i] <= v.start
               /\ i <= Len(b) - v.count - rate => b[i] + Minute <= v.start
    <2>1. CASE i \in 1..n
      <3>1. l - v.count = n + 1 - v.count /\ l - v.count - rate = n + 1 - v.count - rate
        BY <1>0, <1>2
      <3> QED
        BY <1>5, <2>1, <3>1 DEF l
    <2>2. CASE i = n + 1
      <3>1. b[i] = now
        BY <1>1, <2>2, Zenon
      <3>2. ~(i <= Len(b) - v.count) /\ ~(i <= Len(b) - v.count - rate)
        BY <1>0, <1>2, <1>4, <2>2 DEF l
      <3> QED
        BY <1>2, <3>1, <3>2
    <2> QED
      BY <1>1, <2>1, <2>2
  <1>8. Len(b) \in Nat /\ v.count # 0
    BY <1>1, <1>2, <1>4
  <1>9. LocalOK(b, v, rate)
    BY <1>4, <1>7, <1>8 DEF LocalOK
  <1>10. LocalOK(b, v, rate)'
    BY <1>9 DEF LocalOK
  <1> QED
    BY <1>6, <1>10
\* A minute of Redis counts one more call, and may let it in if it is within the limit.
LEMMA RedisCounts ==
    ASSUME NEW a \in TickSeq, NEW rate \in Nat, rate > 0, now \in 0..MaxTicks, now' = now,
           NEW w \in Windows, NEW v \in Windows, RedisOK(a, w, rate), WindowsApart(a, rate),
           v.start = now \div Minute,
           v.count = IF w.start = now \div Minute THEN w.count + 1 ELSE 1,
           NEW b, b = a \/ (v.count <= rate /\ b = Append(a, now))
    PROVE  WindowsApart(b, rate) /\ RedisOK(b, v, rate)'
  <1> DEFINE n == Len(a)
             m == now \div Minute
             j == LetIn(w, rate)
             k == LetIn(v, rate)
             minute(i) == a[i] \div Minute
  <1>1. /\ n \in Nat /\ m \in Int /\ w.count \in Nat /\ w.start \in Int /\ rate \in Int
        /\ \A i \in 1..n : a[i] \in 0..MaxTicks /\ minute(i) \in Int
    <2>1. \A i \in 1..n : a[i] \in 0..MaxTicks
      BY RequestBounds DEF TickSeq
    <2>2. \A t \in 0..MaxTicks : t \div Minute \in Int
      BY MinutesApart, RequestBounds
    <2>3. m \in Int /\ \A i \in 1..n : minute(i) \in Int
      <3> HIDE DEF n
      <3> QED
        BY <2>1, <2>2
    <2>4. n \in Nat /\ w.count \in Nat /\ w.start \in Int /\ rate \in Int
      BY RequestBounds DEF TickSeq, Windows
    <2> QED
      BY <2>1, <2>3, <2>4
  <1>2. /\ w.start <= m
        /\ \A i \in 1..n :
             /\ minute(i) <= w.start
             /\ i <= n - j => minute(i) < w.start
             /\ i <= n - j - rate => minute(i) + 1 < w.start
    BY DEF RedisOK
  <1>3. /\ j \in Nat /\ k \in Nat /\ k > 0 /\ j <= rate
        /\ w.start = m => k = (IF j < rate THEN j + 1 ELSE rate)
        /\ w.start # m => k = 1
        /\ v.count <= rate => k = v.count /\ (w.start = m => k = j + 1)
    BY <1>1 DEF LetIn
  <1> HIDE DEF n, m, j, k, minute
  <1>4. ASSUME NEW i \in 1..n
        PROVE  /\ minute(i) <= m
               /\ i <= n - k => minute(i) < m
               /\ i <= n - k - rate => minute(i) + 1 < m
               /\ v.count <= rate /\ i <= n + 1 - k => minute(i) < m
               /\ v.count <= rate /\ i <= n + 1 - k - rate => minute(i) + 1 < m
               /\ v.count <= rate /\ i + 2 * rate = n + 1 => minute(i) + 1 < m
    <2>1. i \in Int /\ 1 <= i /\ i <= n /\ minute(i) \in Int
      BY <1>1
    <2>2. /\ minute(i) <= w.start
          /\ i <= n - j => minute(i) < w.start
          /\ i <= n - j - rate => minute(i) + 1 < w.start
      BY <1>2
    <2>3. CASE w.start = m
      BY <1>1, <1>3, <2>1, <2>2, <2>3
    <2>4. CASE w.start # m
      BY <1>1, <1>2, <1>3, <2>1, <2>2, <2>4
    <2> QED
      BY <2>3, <2>4
  <1>5. v.start = m /\ m <= m
    BY <1>1 DEF m
  <1>6. CASE b = a
    <2>1. RedisOK(b, v, rate)
      BY <1>4, <1>5, <1>6 DEF RedisOK, n, m, k, minute
    <2> QED
      BY <1>6, <2>1 DEF RedisOK
  <1>7. CASE v.count <= rate /\ b = Append(a, now)
    <2>1. /\ Len(b) \in Nat /\ Len(b) = n + 1 /\ b[n + 1] = now
          /\ \A i \in 1..n : b[i] = a[i]
      BY <1>7, OneMore DEF n
    <2>2. ASSUME NEW i \in 1..n, i + 2 * rate = n + 1 PROVE now - a[i] >= Minute
      BY <1>1, <1>4, <1>7, <2>2, MinutesApart DEF m, minute
    <2>3. WindowsApart(b, rate)
      BY <1>7, <2>2, ApartExtends DEF n
    <2>4. ASSUME NEW i \in 1..Len(b)
          PROVE  /\ b[i] \div Minute <= m
                 /\ i <= Len(b) - k => b[i] \div Minute < m
                 /\ i <= Len(b) - k - rate => b[i] \div Minute + 1 < m
      <3>1. CASE i \in 1..n
        <4>1. Len(b) - k = n + 1 - k /\ Len(b) - k - rate = n + 1 - k - rate
          BY <1>1, <1>3, <2>1
        <4>2. b[i] \div Minute = minute(i)
          BY <2>1, <3>1 DEF minute
        <4> QED
          BY <1>4, <1>7, <3>1, <4>1, <4>2
      <3>2. CASE i = n + 1
        <4>1. b[i] \div Minute = m
          BY <2>1, <3>2, Zenon DEF m
        <4>2. ~(i <= Len(b) - k) /\ ~(i <= Len(b) - k - rate)
          BY <1>1, <1>3, <2>1, <3>2
        <4> QED
          BY <1>1, <4>1, <4>2
      <3> QED
        BY <1>1, <2>1, <3>1, <3>2
    <2>5. RedisOK(b, v, rate)
      BY <1>5, <2>4 DEF RedisOK, m, k
    <2>6. RedisOK(b, v, rate)'
      BY <2>5 DEF RedisOK
    <2> QED
      BY <2>3, <2>6
  <1> QED
    BY <1>6, <1>7

-----------------------------------------------------------------------------
\* A step that spends from the budget, or does not.
Pays == budget' = budget \/ RequestFault \/ Spend("changes")

LEMMA Budgeted ==
    ASSUME RequestTypeOK, Pays
    PROVE  budget' \in [ticks : 0..(MaxTicks - now), changes : Nat, faults : Nat]
  <1>1. budget \in [ticks : 0..(MaxTicks - now), changes : Nat, faults : Nat]
    BY DEF RequestTypeOK
  <1>2. ASSUME NEW what \in {"changes", "faults"}, Spend(what)
        PROVE  budget' \in [ticks : 0..(MaxTicks - now), changes : Nat, faults : Nat]
    BY <1>1, <1>2 DEF Spend
  <1> QED
    BY <1>1, <1>2 DEF Pays, RequestFault

LEMMA NoRequestType == NoRequest \in Request
  BY SkillsAssumption, RequestBounds DEF NoRequest, Request

LEMMA ProceedTypes ==
    ASSUME RequestTypeOK, NEW c \in Callers,
           NEW pc \in {"start", "limit", "dial", "answer", "pause", "good", "bad"}, Proceed(c, pc)
    PROVE  request' \in [Callers -> Request]
  BY DEF RequestTypeOK, Request, Proceed

LEMMA RetryTypes ==
    ASSUME RequestTypeOK, NEW c \in Callers, RetryOrFail(c)
    PROVE  request' \in [Callers -> Request]
  <1>1. CASE ~(KindOf[SkillOf(c)] = "http" /\ request[c].attempt < MaxAttempts)
    BY <1>1, ProceedTypes DEF RetryOrFail
  <1>2. CASE request[c].attempt < MaxAttempts /\ KindOf[SkillOf(c)] = "http"
    <2> DEFINE r == [request[c] EXCEPT !.pc = "pause", !.attempt = @ + 1]
    <2>1. MaxAttempts \in Nat /\ request[c] \in Request
      BY RequestBounds DEF RequestTypeOK
    <2>2. r \in Request
      <3>1. request[c].attempt \in 1..(MaxAttempts + 1) /\ request[c].skill \in Skills
        BY <2>1 DEF Request
      <3>2. request[c].attempt + 1 \in 1..(MaxAttempts + 1)
        BY <1>2, <2>1, <3>1
      <3> QED
        BY <2>1, <3>1, <3>2 DEF Request
    <2>3. request' = [request EXCEPT ![c] = r]
      BY <1>2 DEF RetryOrFail
    <2> HIDE DEF r
    <2> QED
      BY <2>2, <2>3 DEF RequestTypeOK
  <1> QED
    BY <1>1, <1>2

\* What a limiter may do with a call: nothing, or count it and let it in or not.
LEMMA AllowTypes ==
    ASSUME RequestTypeOK, NEW c \in Callers, SkillRateOff(c) \/ LocalAllow(c) \/ RedisAllow(c)
    PROVE  RequestTypeOK'
  <1> DEFINE s == SkillOf(c)
  <1>1. s \in Skills /\ now \in 0..MaxTicks /\ window[s] \in [start : 0..MaxTicks, count : Nat]
        /\ now \div Minute \in 0..MaxTicks
    BY MinutesApart DEF RequestTypeOK, SkillOf, Request
  <1>2. ASSUME Admit(c) \/ Deny(c)
        PROVE  request' \in [Callers -> Request] /\ admitted' \in [Skills -> Seq(0..MaxTicks)]
    <2>1. request' \in [Callers -> Request]
      BY <1>2, ProceedTypes DEF Admit, Deny
    <2>2. CASE Deny(c)
      BY <2>1, <2>2 DEF Deny, RequestTypeOK
    <2>3. CASE Admit(c)
      <3>1. Append(admitted[s], now) \in Seq(0..MaxTicks)
        BY <1>1 DEF RequestTypeOK
      <3> QED
        BY <2>1, <2>3, <3>1 DEF Admit, RequestTypeOK
    <2> QED
      BY <1>2, <2>2, <2>3
  <1>3. CASE SkillRateOff(c)
    BY <1>2, <1>3 DEF SkillRateOff, RequestTypeOK
  <1>4. CASE LocalAllow(c)
    <2>1. Admit(c) \/ Deny(c)
      BY <1>4 DEF LocalAllow
    <2>2. window' \in [Skills -> [start : 0..MaxTicks, count : Nat]]
      <3>1. CASE window' = [window EXCEPT ![s] = [start |-> now, count |-> 1]]
        BY <1>1, <3>1 DEF RequestTypeOK
      <3>2. CASE window' = [window EXCEPT ![s].count = @ + 1]
        <4> DEFINE v == [window[s] EXCEPT !.count = @ + 1]
        <4>1. v \in [start : 0..MaxTicks, count : Nat] /\ window' = [window EXCEPT ![s] = v]
          BY <1>1, <3>2
        <4> HIDE DEF v
        <4> QED
          BY <4>1 DEF RequestTypeOK
      <3>3. CASE window' = window
        BY <3>3 DEF RequestTypeOK
      <3> QED
        BY <1>4, <3>1, <3>2, <3>3 DEF LocalAllow
    <2> QED
      BY <1>2, <1>4, <2>1, <2>2 DEF LocalAllow, RequestTypeOK
  <1>5. CASE RedisAllow(c)
    <2>1. Admit(c) \/ Deny(c)
      BY <1>5 DEF RedisAllow
    <2>2. RedisCount(s) \in Nat
      BY <1>1 DEF RedisCount
    <2>3. window' \in [Skills -> [start : 0..MaxTicks, count : Nat]]
      <3> DEFINE v == [start |-> now \div Minute, count |-> RedisCount(s)]
      <3>1. v \in [start : 0..MaxTicks, count : Nat]
        BY <1>1, <2>2
      <3>2. window' \in {window, [window EXCEPT ![s] = v]}
        BY <1>5 DEF RedisAllow
      <3> HIDE DEF v
      <3> QED
        BY <3>1, <3>2 DEF RequestTypeOK
    <2>4. Pays /\ UNCHANGED <<limiter, now, resolves, dialed>>
      BY <1>5 DEF RedisAllow, Pays
    <2> QED
      BY <1>2, <2>1, <2>3, <2>4, Budgeted DEF RequestTypeOK
  <1> QED
    BY <1>3, <1>4, <1>5

\* The steps of a request that no limiter takes leave its window as it is.
LEMMA RequestStepTypes ==
    ASSUME RequestTypeOK, NEW c \in Callers, RequestStep(c)
    PROVE  RequestTypeOK'
  <1>1. CASE CheckHost(c)
    <2>1. request' \in [Callers -> Request]
      BY <1>1, ProceedTypes DEF CheckHost
    <2> QED
      BY <1>1, <2>1 DEF CheckHost, requestOthers, RequestTypeOK
  <1>2. CASE SkillRateOff(c) \/ LocalAllow(c) \/ RedisAllow(c)
    BY <1>2, AllowTypes
  <1>3. CASE Dial(c)
    <2>1. request' \in [Callers -> Request]
      BY <1>3, ProceedTypes DEF Dial
    <2>2. Dialable(c) \subseteq Addresses
      BY SkillsAssumption DEF Dialable, RequestTypeOK, SkillOf, Request, Addresses
    <2>3. dialed' \subseteq Addresses
      BY <1>3, <2>2 DEF Dial, RequestTypeOK
    <2> QED
      BY <1>3, <2>1, <2>3 DEF Dial, RequestTypeOK
  <1>4. CASE DialRefused(c) \/ Answered(c) \/ AttemptAgain(c) \/ DeadlinePasses(c)
    <2>1. request' \in [Callers -> Request]
      BY <1>4, ProceedTypes, RetryTypes DEF DialRefused, Answered, AttemptAgain, DeadlinePasses
    <2>2. UNCHANGED requestOthers
      BY <1>4 DEF DialRefused, Answered, AttemptAgain, DeadlinePasses
    <2> QED
      BY <2>1, <2>2 DEF requestOthers, RequestTypeOK
  <1> QED
    BY <1>1, <1>2, <1>3, <1>4 DEF RequestStep

\* What the steps of the callers do to the requests and their limits.
Aside == Pays /\ UNCHANGED <<limiter, now, resolves, window, dialed, admitted>>

\* The steps of c itself.
OwnStep(c) ==
    \/ StartAttempt(c) \/ CallTool(c) \/ EndLoop(c) \/ Abandon(c)
    \/ ReserveCheckAttempt(c) \/ ReserveDecide(c) \/ GetRunUsage(c) \/ ReserveSave(c)
    \/ StartEvent(c) \/ RecordStart(c) \/ Work(c)
    \/ FinishEvent(c) \/ MemoryRecordFinish(c) \/ PostgresFindOpen(c) \/ PostgresRecordFinish(c)
    \/ CompleteCheckAttempt(c) \/ CompleteSaveUsage(c) \/ CompleteFinish(c)

LEMMA StepsAside ==
    ASSUME NEW c \in Callers, OwnStep(c)
    PROVE  Aside
  <1>1. CASE StartAttempt(c) \/ CallTool(c) \/ EndLoop(c)
    BY <1>1 DEF StartAttempt, CallTool, EndLoop, Aside, Pays, requestVars
  <1>2. CASE Abandon(c)
    BY <1>2 DEF Abandon, Aside, Pays
  <1>3. CASE ReserveCheckAttempt(c) \/ ReserveDecide(c) \/ GetRunUsage(c) \/ ReserveSave(c)
    BY <1>3 DEF ReserveCheckAttempt, ReserveDecide, GetRunUsage, ReserveSave, Aside, Pays
  <1>4. CASE StartEvent(c) \/ RecordStart(c) \/ Work(c)
    BY <1>4 DEF StartEvent, RecordStart, Work, Aside, Pays, requestVars, requestOthers
  <1>5. CASE FinishEvent(c)
    BY <1>5 DEF FinishEvent, Aside, Pays
  <1>6. CASE MemoryRecordFinish(c) \/ PostgresFindOpen(c) \/ PostgresRecordFinish(c)
    BY <1>6 DEF MemoryRecordFinish, PostgresFindOpen, PostgresRecordFinish, Aside, Pays, requestVars
  <1>7. CASE CompleteCheckAttempt(c) \/ CompleteSaveUsage(c) \/ CompleteFinish(c)
    BY <1>7 DEF CompleteCheckAttempt, CompleteSaveUsage, CompleteFinish, Aside, Pays, requestVars
  <1> QED
    BY <1>1, <1>2, <1>3, <1>4, <1>5, <1>6, <1>7 DEF OwnStep

LEMMA NextSteps ==
    ASSUME [ToolNext]_toolVars
    PROVE  \/ \E c \in Callers : OwnStep(c)
           \/ \E c \in Callers : RequestOf(c)
           \/ (Tick \/ ResolveDifferently) /\ UNCHANGED ownVars
           \/ UNCHANGED toolVars
  BY DEF ToolNext, Advance, OwnStep

CallerPCs == {"waiting", "ready", "check", "sum", "read", "save", "started", "startRow", "work",
              "finish", "finishRow", "close", "completing", "settle", "finishing", "done"}

LEMMA NewCallerType == NewCaller \in Caller /\ NoUsage \in Usage
  BY SkillsAssumption DEF NewCaller, Caller, Usage, NoUsage

\* A caller that becomes a caller of the same type.
LEMMA BecomesTypes ==
    ASSUME ToolTypeOK, NEW c \in Callers, NEW t \in Caller, caller' = [caller EXCEPT ![c] = t]
    PROVE  caller' \in [Callers -> Caller]
  BY DEF ToolTypeOK

LEMMA ToolGotoTypes ==
    ASSUME ToolTypeOK, NEW c \in Callers, NEW pc \in CallerPCs, ToolGoto(c, pc)
    PROVE  caller' \in [Callers -> Caller]
  <1> DEFINE t == [caller[c] EXCEPT !.pc = pc]
  <1>1. t \in Caller
    BY DEF ToolTypeOK, Caller, CallerPCs
  <1>2. caller' = [caller EXCEPT ![c] = t]
    BY DEF ToolGoto
  <1> HIDE DEF t
  <1> QED
    BY <1>1, <1>2, BecomesTypes

LEMMA NotRunTypes ==
    ASSUME ToolTypeOK, NEW c \in Callers, NotRun(c)
    PROVE  caller' \in [Callers -> Caller]
  <1> DEFINE t == [NewCaller EXCEPT !.pc = "ready", !.own = caller[c].own]
  <1>1. caller[c].own \in Usage
    BY DEF ToolTypeOK, Caller
  <1>2. t \in Caller
    BY <1>1, NewCallerType DEF Caller
  <1>3. caller' = [caller EXCEPT ![c] = t]
    BY DEF NotRun
  <1> HIDE DEF t
  <1> QED
    BY <1>2, <1>3, BecomesTypes

LEMMA ReturnTypes ==
    ASSUME ToolTypeOK, NEW c \in Callers, Return(c)
    PROVE  caller' \in [Callers -> Caller]
  <1>1. PICK halves \in (IF Sandboxed(c) THEN SandboxHalves ELSE {0}) :
          \/ caller' = [caller EXCEPT ![c] = Observe(c, halves)]
          \/ caller' = [caller EXCEPT ![c] = [NewCaller EXCEPT !.pc = "done"]]
    BY DEF Return
  <1>2. halves \in Nat
    BY ToolsAssumption
  <1>3. caller[c].own \in Usage
    BY DEF ToolTypeOK, Caller
  <1> DEFINE u == [calls |-> caller[c].own.calls + 1, halves |-> caller[c].own.halves + halves]
             t == [NewCaller EXCEPT !.pc = "ready", !.own = u]
             d == [NewCaller EXCEPT !.pc = "done"]
  <1>4. u \in Usage
    BY <1>2, <1>3 DEF Usage
  <1>5. t \in Caller /\ d \in Caller
    <2> HIDE DEF u
    <2> QED
      BY <1>4, NewCallerType DEF Caller
  <1>6. caller' = [caller EXCEPT ![c] = t] \/ caller' = [caller EXCEPT ![c] = d]
    BY <1>1 DEF Observe
  <1> HIDE DEF u, t, d
  <1> QED
    BY <1>5, <1>6, BecomesTypes

LEMMA ReserveTypes ==
    ASSUME ToolTypeOK, NEW c \in Callers,
           ReserveCheckAttempt(c) \/ ReserveDecide(c) \/ GetRunUsage(c) \/ ReserveSave(c)
    PROVE  /\ caller' \in [Callers -> Caller]
           /\ runUsage' \in [Runs -> Usage] /\ granted' \in [Runs -> Nat] /\ excused' \in BOOLEAN
  <1>1. runOf[c] \in Runs /\ runUsage[runOf[c]] \in Usage /\ caller[c] \in Caller
    BY DEF ToolTypeOK
  <1>2. CASE ReserveCheckAttempt(c)
    <2>1. caller' \in [Callers -> Caller]
      BY <1>2, ToolGotoTypes, NotRunTypes DEF ReserveCheckAttempt, CallerPCs
    <2> QED
      BY <1>2, <2>1 DEF ReserveCheckAttempt, callerOthers, toolHistory, ToolTypeOK
  <1>3. CASE ReserveDecide(c)
    <2>1. caller' \in [Callers -> Caller]
      BY <1>3, ToolGotoTypes, NotRunTypes DEF ReserveDecide, CallerPCs
    <2> QED
      BY <1>3, <2>1 DEF ReserveDecide, ToolTypeOK
  <1>4. CASE GetRunUsage(c)
    <2> DEFINE t == [caller[c] EXCEPT !.pc = "save", !.read = runUsage[runOf[c]]]
    <2>1. t \in Caller
      BY <1>1 DEF Caller
    <2>2. caller' = [caller EXCEPT ![c] = t] \/ NotRun(c)
      BY <1>4 DEF GetRunUsage
    <2> HIDE DEF t
    <2>3. caller' \in [Callers -> Caller]
      BY <2>1, <2>2, BecomesTypes, NotRunTypes
    <2> QED
      BY <1>4, <2>3 DEF GetRunUsage, callerOthers, toolHistory, ToolTypeOK
  <1>5. CASE ReserveSave(c)
    <2>1. caller' \in [Callers -> Caller]
      BY <1>5, ToolGotoTypes, NotRunTypes DEF ReserveSave, CallerPCs
    <2>2. ReservedUsage(c) \in Usage
      <3>1. caller[c].read \in Usage /\ ReservedSeconds \in Nat
        BY <1>1, ToolsAssumption DEF Caller
      <3> QED
        BY <3>1 DEF ReservedUsage, Usage
    <2> QED
      BY <1>1, <1>5, <2>1, <2>2 DEF ReserveSave, ToolTypeOK, OthersDecided
  <1> QED
    BY <1>2, <1>3, <1>4, <1>5

\* A set of indices has a greatest one.
LEMMA GreatestIndex ==
    ASSUME NEW n \in Nat, NEW T \in SUBSET (1..n), T # {}
    PROVE  Max(T) \in T
  <1> DEFINE Left == {n - i : i \in T}
  <1>1. Left \in SUBSET Nat /\ Left # {}
    <2>1. \A i \in T : n - i \in Nat
      OBVIOUS
    <2> QED
      BY <2>1
  <1>2. PICK l \in Left : \A m \in Left : l <= m
    <2> HIDE DEF Left
    <2> QED
      BY <1>1, SmallestElement
  <1>3. PICK i \in T : l = n - i
    OBVIOUS
  <1>4. \A j \in T : i >= j
    <2> SUFFICES ASSUME NEW j \in T PROVE i >= j
      OBVIOUS
    <2>1. n - i <= n - j
      BY <1>2, <1>3
    <2> QED
      BY <2>1
  <1> QED
    BY <1>3, <1>4 DEF Max

\* Rows are added at the end, and closed where they are.
LEMMA CloseRowTypes ==
    ASSUME ToolTypeOK, NEW c \in Callers, NEW i \in Nat, CloseRow(c, i)
    PROVE  rows' \in Seq(Row)
  <1>1. rows \in Seq(Row) /\ Len(rows) \in Nat /\ rows \in [1..Len(rows) -> Row]
    BY DEF ToolTypeOK
  <1>2. CASE i = 0
    <2>1. [run |-> runOf[c], skill |-> SkillIn(c), open |-> FALSE] \in Row
      BY DEF ToolTypeOK, Caller, SkillIn, Row
    <2> QED
      BY <1>1, <1>2, <2>1 DEF CloseRow, OpenRow
  <1>3. CASE i # 0
    <2> DEFINE n == Len(rows)
    <2>1. rows' \in [1..n -> Row]
      <3>1. rows' = [rows EXCEPT ![i].open = FALSE]
        BY <1>3 DEF CloseRow
      <3> QED
        BY <1>1, <3>1 DEF Row
    <2> QED
      <3> HIDE DEF n
      <3>1. n \in Nat
        BY <1>1 DEF n
      <3> QED
        BY <2>1, <3>1
  <1> QED
    BY <1>2, <1>3

LEMMA LatestIsOpen ==
    ASSUME ToolTypeOK, NEW c \in Callers
    PROVE  /\ LatestOpen(c) \in Nat
           /\ OpenRows(c) = {} => LatestOpen(c) = 0
           /\ OpenRows(c) # {} => LatestOpen(c) \in OpenRows(c) /\ LatestOpen(c) # 0
  <1>1. Len(rows) \in Nat /\ OpenRows(c) \in SUBSET (1..Len(rows))
    BY DEF ToolTypeOK, OpenRows
  <1>2. CASE OpenRows(c) # {}
    <2>1. LatestOpen(c) \in OpenRows(c)
      BY <1>1, <1>2, GreatestIndex DEF LatestOpen
    <2> QED
      BY <1>1, <1>2, <2>1
  <1> QED
    BY <1>2 DEF LatestOpen

LEMMA EventTypes ==
    ASSUME ToolTypeOK, NEW c \in Callers,
           \/ RecordStart(c) \/ FinishEvent(c) \/ Abandon(c)
           \/ MemoryRecordFinish(c) \/ PostgresFindOpen(c) \/ PostgresRecordFinish(c)
    PROVE  /\ caller' \in [Callers -> Caller] /\ rows' \in Seq(Row)
           /\ dangling' \in [Runs \X Skills -> Nat] /\ overlapped' \in BOOLEAN
  <1>1. /\ runOf[c] \in Runs /\ caller[c] \in Caller /\ SkillIn(c) \in Skills
        /\ rows \in Seq(Row) /\ dangling \in [Runs \X Skills -> Nat] /\ overlapped \in BOOLEAN
    BY DEF ToolTypeOK, Caller, SkillIn
  <1>2. \A open \in BOOLEAN : OpenRow(c, open) \in Seq(Row)
    <2>1. \A open \in BOOLEAN : [run |-> runOf[c], skill |-> SkillIn(c), open |-> open] \in Row
      BY <1>1 DEF Row
    <2> QED
      BY <1>1, <2>1 DEF OpenRow
  <1>3. ASSUME EndUnrecorded(c) PROVE dangling' \in [Runs \X Skills -> Nat]
    BY <1>1, <1>3 DEF EndUnrecorded
  <1>4. caller[c].target \in Nat
    BY <1>1 DEF Caller
  <1>5. LatestOpen(c) \in Nat
    BY LatestIsOpen
  <1>6. CASE RecordStart(c)
    <2> DEFINE t == [caller[c] EXCEPT !.pc = "work", !.hasRow = TRUE]
    <2>1. t \in Caller /\ caller' = [caller EXCEPT ![c] = t]
      BY <1>1, <1>6 DEF Caller, RecordStart
    <2> HIDE DEF t
    <2>2. caller' \in [Callers -> Caller]
      BY <2>1, BecomesTypes
    <2> QED
      BY <1>1, <1>2, <1>6, <2>2 DEF RecordStart, toolHistory
  <1>7. CASE FinishEvent(c)
    <2>1. caller' \in [Callers -> Caller]
      BY <1>7, ToolGotoTypes, ReturnTypes DEF FinishEvent, CallerPCs
    <2> QED
      BY <1>1, <1>3, <1>7, <2>1 DEF FinishEvent
  <1>8. CASE Abandon(c)
    <2> DEFINE d == [NewCaller EXCEPT !.pc = "done"]
    <2>1. d \in Caller /\ caller' = [caller EXCEPT ![c] = d]
      BY <1>8, NewCallerType DEF Caller, Abandon
    <2> HIDE DEF d
    <2>2. caller' \in [Callers -> Caller]
      BY <2>1, BecomesTypes
    <2> QED
      BY <1>1, <1>3, <1>8, <2>2 DEF Abandon
  <1>9. CASE PostgresFindOpen(c)
    <2> DEFINE t == [caller[c] EXCEPT !.pc = "close", !.target = LatestOpen(c)]
    <2>1. t \in Caller /\ caller' = [caller EXCEPT ![c] = t]
      BY <1>1, <1>5, <1>9 DEF Caller, PostgresFindOpen
    <2> HIDE DEF t
    <2>2. caller' \in [Callers -> Caller]
      BY <2>1, BecomesTypes
    <2> QED
      BY <1>1, <1>9, <2>2 DEF PostgresFindOpen
  <1>10. CASE MemoryRecordFinish(c)
    <2>1. rows' \in Seq(Row)
      BY <1>5, <1>10, CloseRowTypes DEF MemoryRecordFinish
    <2> QED
      BY <1>1, <1>10, <2>1, ReturnTypes DEF MemoryRecordFinish, toolHistory
  <1>11. CASE PostgresRecordFinish(c)
    <2>1. rows' \in Seq(Row)
      BY <1>4, <1>11, CloseRowTypes DEF PostgresRecordFinish
    <2> QED
      BY <1>1, <1>11, <2>1, ReturnTypes DEF PostgresRecordFinish, toolHistory
  <1> QED
    BY <1>6, <1>7, <1>8, <1>9, <1>10, <1>11

LEMMA OwnStepTypes == ASSUME ToolTypeOK, NEW c \in Callers, OwnStep(c) PROVE ToolTypeOK'
  <1>1. /\ limiter' = limiter /\ now' = now /\ resolves' = resolves /\ window' = window
        /\ dialed' = dialed /\ admitted' = admitted /\ Pays
    BY StepsAside DEF Aside
  <1>2. budget' \in [ticks : 0..(MaxTicks - now'), changes : Nat, faults : Nat]
    BY <1>1, Budgeted DEF ToolTypeOK
  <1>3. ASSUME request' \in [Callers -> Request] PROVE RequestTypeOK'
    BY <1>1, <1>2, <1>3 DEF ToolTypeOK, RequestTypeOK
  <1>4. ASSUME request' = request PROVE RequestTypeOK'
    BY <1>3, <1>4 DEF ToolTypeOK, RequestTypeOK
  <1>5. runOf[c] \in Runs /\ caller[c] \in Caller /\ SkillIn(c) \in Skills
    BY DEF ToolTypeOK, Caller, SkillIn
  <1>6. CASE StartAttempt(c)
    <2>1. caller' \in [Callers -> Caller]
      BY <1>6, ToolGotoTypes DEF StartAttempt, CallerPCs
    <2> QED
      BY <1>4, <1>5, <1>6, <2>1 DEF StartAttempt, toolHistory, requestVars, ToolTypeOK
  <1>7. CASE CallTool(c)
    <2>1. PICK s \in offered : caller' = [caller EXCEPT ![c].skill = s,
                                ![c].pc = IF s \in RiskDenied THEN "finish" ELSE "check"]
      BY <1>7 DEF CallTool
    <2> DEFINE t == [caller[c] EXCEPT !.skill = s, !.pc = IF s \in RiskDenied THEN "finish" ELSE "check"]
    <2>2. t \in Caller /\ caller' = [caller EXCEPT ![c] = t]
      BY <1>5, <2>1 DEF Caller, ToolTypeOK
    <2> HIDE DEF t
    <2>3. caller' \in [Callers -> Caller]
      BY <2>2, BecomesTypes
    <2>4. calls' \in 0..MaxCalls
      BY <1>7, ToolsAssumption DEF CallTool, ToolTypeOK
    <2> QED
      BY <1>4, <1>7, <2>3, <2>4 DEF CallTool, toolHistory, requestVars, ToolTypeOK
  <1>8. CASE EndLoop(c) \/ StartEvent(c) \/ CompleteCheckAttempt(c)
    <2>1. caller' \in [Callers -> Caller]
      BY <1>8, ToolGotoTypes DEF EndLoop, StartEvent, CompleteCheckAttempt, CallerPCs
    <2> QED
      BY <1>4, <1>8, <2>1 DEF EndLoop, StartEvent, CompleteCheckAttempt, callerOthers, toolHistory,
                              requestVars, ToolTypeOK
  <1>9. CASE ReserveCheckAttempt(c) \/ ReserveDecide(c) \/ GetRunUsage(c) \/ ReserveSave(c)
    <2>1. /\ caller' \in [Callers -> Caller]
          /\ runUsage' \in [Runs -> Usage] /\ granted' \in [Runs -> Nat] /\ excused' \in BOOLEAN
      BY <1>9, ReserveTypes
    <2>2. UNCHANGED <<store, runOf, offered, current, finished, rows, calls, forgotten, settled, dangling,
                      overlapped, request>>
      BY <1>9 DEF ReserveCheckAttempt, ReserveDecide, GetRunUsage, ReserveSave, callerOthers, toolHistory
    <2> QED
      BY <1>4, <2>1, <2>2 DEF ToolTypeOK
  <1>10. CASE \/ RecordStart(c) \/ FinishEvent(c) \/ Abandon(c)
              \/ MemoryRecordFinish(c) \/ PostgresFindOpen(c) \/ PostgresRecordFinish(c)
    <2>1. /\ caller' \in [Callers -> Caller] /\ rows' \in Seq(Row)
          /\ dangling' \in [Runs \X Skills -> Nat] /\ overlapped' \in BOOLEAN
      BY <1>10, EventTypes
    <2>2. UNCHANGED <<store, runOf, offered, current, finished, runUsage, calls, granted, forgotten,
                      settled, excused>>
      BY <1>10 DEF RecordStart, FinishEvent, Abandon, MemoryRecordFinish, PostgresFindOpen,
                   PostgresRecordFinish, toolHistory
    <2>3. request' \in [Callers -> Request]
      <3>1. request \in [Callers -> Request]
        BY DEF ToolTypeOK, RequestTypeOK
      <3>2. request' = request \/ request' = [request EXCEPT ![c] = NoRequest]
        BY <1>10 DEF RecordStart, FinishEvent, Abandon, MemoryRecordFinish, PostgresFindOpen,
                     PostgresRecordFinish, requestVars
      <3> QED
        BY <3>1, <3>2, NoRequestType
    <2> QED
      BY <1>3, <2>1, <2>2, <2>3 DEF ToolTypeOK
  <1>11. CASE Work(c)
    <2>1. caller' \in [Callers -> Caller]
      BY <1>11, ToolGotoTypes DEF Work, CallerPCs, ToolTypeOK
    <2>2. [pc |-> "start", skill |-> SkillIn(c), attempt |-> 1] \in Request
      BY <1>5, RequestBounds DEF Request
    <2>3. request' \in [Callers -> Request]
      BY <1>11, <2>2, NoRequestType DEF Work, ToolTypeOK, RequestTypeOK
    <2> QED
      BY <1>3, <1>11, <2>1, <2>3 DEF Work, callerOthers, toolHistory, ToolTypeOK
  <1>12. CASE CompleteSaveUsage(c)
    <2>1. caller' \in [Callers -> Caller]
      BY <1>12, ToolGotoTypes DEF CompleteSaveUsage, CallerPCs
    <2>2. /\ caller[c].own \in Usage /\ runUsage[runOf[c]] \in Usage /\ runOf[c] \in Runs
          /\ runUsage \in [Runs -> Usage] /\ forgotten \in Nat /\ settled \subseteq Runs
          /\ excused \in BOOLEAN
      BY <1>5 DEF Caller, ToolTypeOK
    <2>3. Monus(runUsage[runOf[c]].calls, caller[c].own.calls) \in Nat
      BY <2>2 DEF Monus, Usage
    <2>4. /\ runUsage' \in [Runs -> Usage] /\ forgotten' \in Nat /\ settled' \subseteq Runs
          /\ excused' \in BOOLEAN
      <3>1. CASE UNCHANGED <<runUsage, forgotten, settled, excused>>
        BY <2>2, <3>1
      <3>2. CASE /\ runUsage' = [runUsage EXCEPT ![runOf[c]] = caller[c].own]
                 /\ forgotten' = forgotten + Monus(runUsage[runOf[c]].calls, caller[c].own.calls)
                 /\ settled' = settled \cup {runOf[c]}
                 /\ excused' = (excused \/ OthersDecided(c))
        <4>1. OthersDecided(c) \in BOOLEAN
          BY DEF OthersDecided
        <4> QED
          BY <2>2, <2>3, <3>2, <4>1
      <3> QED
        BY <1>12, <3>1, <3>2 DEF CompleteSaveUsage
    <2>5. UNCHANGED <<store, runOf, offered, current, finished, rows, calls, granted, dangling,
                      overlapped, request>>
      BY <1>12 DEF CompleteSaveUsage
    <2> QED
      BY <1>4, <2>1, <2>4, <2>5 DEF ToolTypeOK
  <1>13. CASE CompleteFinish(c)
    <2>1. caller' \in [Callers -> Caller]
      BY <1>13, ToolGotoTypes DEF CompleteFinish, CallerPCs
    <2>2. finished' \subseteq Runs
      BY <1>5, <1>13 DEF CompleteFinish, ToolTypeOK
    <2> QED
      BY <1>4, <1>13, <2>1, <2>2 DEF CompleteFinish, toolHistory, ToolTypeOK
  <1> QED
    BY <1>6, <1>7, <1>8, <1>9, <1>10, <1>11, <1>12, <1>13 DEF OwnStep

LEMMA ToolTypesKept == ASSUME ToolTypeOK, [ToolNext]_toolVars PROVE ToolTypeOK'
  <1>1. ASSUME NEW c \in Callers, RequestOf(c) PROVE ToolTypeOK'
    BY <1>1, RequestStepTypes DEF RequestOf, ownVars, toolHistory, ToolTypeOK
  <1>2. ASSUME Tick, UNCHANGED ownVars PROVE ToolTypeOK'
    <2>1. budget.ticks \in 0..(MaxTicks - now) /\ now \in 0..MaxTicks /\ MaxTicks \in Nat
      BY RequestBounds DEF ToolTypeOK, RequestTypeOK
    <2>2. now' \in 0..MaxTicks /\ budget.ticks - 1 \in 0..(MaxTicks - now')
      BY <1>2, <2>1 DEF Tick, Spend
    <2>3. budget' \in [ticks : 0..(MaxTicks - now'), changes : Nat, faults : Nat]
      BY <1>2, <2>2 DEF Tick, Spend, ToolTypeOK, RequestTypeOK
    <2>4. RequestTypeOK'
      BY <1>2, <2>2, <2>3 DEF Tick, ToolTypeOK, RequestTypeOK
    <2> QED
      BY <1>2, <2>4 DEF ownVars, toolHistory, ToolTypeOK
  <1>3. ASSUME ResolveDifferently, UNCHANGED ownVars PROVE ToolTypeOK'
    <2>1. budget' \in [ticks : 0..(MaxTicks - now), changes : Nat, faults : Nat]
      BY <1>3, Budgeted DEF ResolveDifferently, Pays, ToolTypeOK
    <2>2. RequestTypeOK'
      BY <1>3, <2>1 DEF ResolveDifferently, ToolTypeOK, RequestTypeOK
    <2> QED
      BY <1>3, <2>2 DEF ownVars, toolHistory, ToolTypeOK
  <1>4. ASSUME UNCHANGED toolVars PROVE ToolTypeOK'
    BY <1>4 DEF toolVars, ownVars, toolHistory, requestVars, ToolTypeOK, RequestTypeOK
  <1> QED
    BY <1>1, <1>2, <1>3, <1>4, NextSteps, OwnStepTypes

LEMMA ToolTypesInitially == ToolInit => ToolTypeOK
  <1> SUFFICES ASSUME ToolInit PROVE ToolTypeOK
    OBVIOUS
  <1>1. RequestTypeOK
    <2>1. MaxTicks \in Nat /\ budget \in [ticks : 0..MaxTicks, changes : Nat, faults : Nat]
      BY RequestBounds DEF ToolInit, RequestInit
    <2>2. now = 0 /\ 0 \in 0..MaxTicks /\ MaxTicks - now = MaxTicks
      BY <2>1 DEF ToolInit, RequestInit
    <2> QED
      BY <2>1, <2>2, NoRequestType DEF ToolInit, RequestInit, RequestTypeOK, NoWindow, Addresses
  <1> QED
    <2>1. /\ store \in {"memory", "postgres"} /\ runOf \in [Callers -> Runs] /\ offered \subseteq Skills
          /\ current \in [Runs -> Callers \cup {Nobody}] /\ finished \subseteq Runs
          /\ runUsage \in [Runs -> Usage] /\ caller \in [Callers -> Caller]
      BY NewCallerType DEF ToolInit
    <2>2. rows \in Seq(Row)
      BY DEF ToolInit
    <2>3. calls \in 0..MaxCalls /\ granted \in [Runs -> Nat] /\ forgotten \in Nat /\ settled \subseteq Runs
          /\ dangling \in [Runs \X Skills -> Nat] /\ {excused, overlapped} \subseteq BOOLEAN
      <3>1. MaxCalls \in Nat
        BY ToolsAssumption
      <3>2. calls \in 0..MaxCalls /\ granted \in [Runs -> Nat] /\ forgotten \in Nat /\ settled \subseteq Runs
        BY <3>1 DEF ToolInit
      <3>3. dangling \in [Runs \X Skills -> Nat]
        BY DEF ToolInit
      <3>4. excused \in BOOLEAN /\ overlapped \in BOOLEAN
        BY DEF ToolInit
      <3> QED
        BY <3>2, <3>3, <3>4
    <2> QED
      BY <1>1, <2>1, <2>2, <2>3 DEF ToolTypeOK

-----------------------------------------------------------------------------
\* A skill that no limiter was asked about.
LEMMA RateUntouched ==
    ASSUME RequestTypeOK, RequestTypeOK', NEW s \in Skills, RateOK(s), now' \in {now, now + 1},
           limiter' = limiter, window'[s] = window[s], admitted'[s] = admitted[s]
    PROVE  RateOK(s)'
  <1> DEFINE a == admitted[s]
             w == window[s]
  <1>1. now \in 0..MaxTicks /\ now' \in 0..MaxTicks /\ now \in Int /\ now <= now'
    <2>1. now \in 0..MaxTicks /\ now' \in 0..MaxTicks
      BY DEF RequestTypeOK
    <2> QED
      BY <2>1
  <1>2. w.start \in Int /\ Len(a) \in Nat /\ \A i \in 1..Len(a) : a[i] \in Int
    <2>1. w \in Windows /\ a \in TickSeq
      BY DEF RequestTypeOK, Windows, TickSeq
    <2> HIDE DEF a, w
    <2> QED
      BY <2>1, RequestBounds DEF Windows, TickSeq
  <1>3. ASSUME LocalOK(a, w, RateLimit[s]) PROVE LocalOK(a, w, RateLimit[s])'
    <2>1. w.start <= now'
      BY <1>1, <1>2, <1>3 DEF LocalOK
    <2>2. \A i \in 1..Len(a) : a[i] <= now'
      <3> SUFFICES ASSUME NEW i \in 1..Len(a) PROVE a[i] <= now'
        OBVIOUS
      <3>1. a[i] <= now /\ a[i] \in Int
        BY <1>2, <1>3 DEF LocalOK
      <3> QED
        BY <1>1, <3>1
    <2> QED
      BY <1>3, <2>1, <2>2 DEF LocalOK
  <1>4. ASSUME RedisOK(a, w, RateLimit[s]) PROVE RedisOK(a, w, RateLimit[s])'
    <2>1. now \div Minute <= now' \div Minute
      BY <1>1, MinutesApart
    <2>2. now \div Minute \in Int /\ now' \div Minute \in Int
      BY <1>1, MinutesApart, RequestBounds
    <2>3. w.start <= now' \div Minute
      BY <1>2, <1>4, <2>1, <2>2 DEF RedisOK
    <2> QED
      BY <1>4, <2>3 DEF RedisOK
  <1> QED
    BY <1>3, <1>4 DEF RateOK, WindowsApart

LEMMA RateOfLocal ==
    ASSUME RequestTypeOK, RequestTypeOK', NEW c \in Callers, LocalAllow(c),
           NEW s \in Skills, s = SkillOf(c), RateOK(s)
    PROVE  RateOK(s)'
  <1> DEFINE a == admitted[s]
             w == window[s]
             rate == RateLimit[s]
  <1>1. /\ limiter = "local" /\ limiter' = limiter /\ now' = now
        /\ rate \in Nat /\ rate > 0 /\ now \in 0..MaxTicks
        /\ a \in TickSeq /\ admitted \in [Skills -> TickSeq] /\ admitted'[s] \in TickSeq
        /\ w \in Windows /\ window'[s] \in Windows /\ window \in [Skills -> Windows]
    BY SkillsAssumption DEF LocalAllow, RequestTypeOK, TickSeq, Windows
  <1>2. LocalOK(a, w, rate) /\ WindowsApart(a, rate)
    BY <1>1 DEF RateOK
  <1>3. CASE Deny(c) /\ window' = window
    BY <1>1, <1>3, RateUntouched DEF Deny
  <1>4. ASSUME Admit(c),
               \/ WindowOver(w) /\ window' = [window EXCEPT ![s] = [start |-> now, count |-> 1]]
               \/ /\ ~WindowOver(w) /\ w.count < rate
                  /\ window' = [window EXCEPT ![s].count = @ + 1]
        PROVE  RateOK(s)'
    <2>1. admitted'[s] = Append(a, now)
      BY <1>1, <1>4 DEF Admit
    <2>2. \/ WindowOver(w) /\ window'[s].start = now /\ window'[s].count = 1
          \/ /\ ~WindowOver(w) /\ w.count < rate
             /\ window'[s].start = w.start /\ window'[s].count = w.count + 1
      BY <1>1, <1>4 DEF Windows
    <2>3. PICK b \in TickSeq, v \in Windows : b = admitted'[s] /\ v = window'[s]
      BY <1>1
    <2>4. WindowsApart(b, rate) /\ LocalOK(b, v, rate)'
      BY <1>1, <1>2, <2>1, <2>2, <2>3, LocalAdmits
    <2> QED
      BY <1>1, <2>3, <2>4 DEF RateOK, LocalOK, WindowsApart
  <1> QED
    BY <1>3, <1>4 DEF LocalAllow

LEMMA RateOfRedis ==
    ASSUME RequestTypeOK, RequestTypeOK', NEW c \in Callers, RedisAllow(c),
           NEW s \in Skills, s = SkillOf(c), RateOK(s)
    PROVE  RateOK(s)'
  <1> DEFINE a == admitted[s]
             w == window[s]
             rate == RateLimit[s]
  <1>1. /\ limiter = "redis" /\ limiter' = limiter /\ now' = now
        /\ rate \in Nat /\ rate > 0 /\ now \in 0..MaxTicks
        /\ a \in TickSeq /\ admitted \in [Skills -> TickSeq] /\ admitted'[s] \in TickSeq
        /\ w \in Windows /\ window'[s] \in Windows /\ window \in [Skills -> Windows]
    BY SkillsAssumption DEF RedisAllow, RequestTypeOK, TickSeq, Windows
  <1>2. RedisOK(a, w, rate) /\ WindowsApart(a, rate)
    BY <1>1 DEF RateOK
  <1>3. CASE window' = window /\ Deny(c)
    BY <1>1, <1>3, RateUntouched DEF Deny
  <1>4. CASE window' # window \/ ~Deny(c)
    <2>1. window' = [window EXCEPT ![s] = [start |-> now \div Minute, count |-> RedisCount(s)]]
      BY <1>4 DEF RedisAllow
    <2>2. Deny(c) \/ (Admit(c) /\ RedisCount(s) <= rate)
      BY DEF RedisAllow, WithinRedisLimit
    <2>3. window'[s].start = now \div Minute /\ window'[s].count = RedisCount(s)
      BY <1>1, <2>1
    <2>4. admitted'[s] = a \/ (RedisCount(s) <= rate /\ admitted'[s] = Append(a, now))
      BY <1>1, <2>2 DEF Deny, Admit
    <2>5. PICK b \in TickSeq, v \in Windows : b = admitted'[s] /\ v = window'[s]
      BY <1>1
    <2>6. WindowsApart(b, rate) /\ RedisOK(b, v, rate)'
      BY <1>1, <1>2, <2>3, <2>4, <2>5, RedisCounts DEF RedisCount
    <2> QED
      BY <1>1, <2>5, <2>6 DEF RateOK, RedisOK, WindowsApart
  <1> QED
    BY <1>3, <1>4

\* The limiter in use keeps the windows apart, and nothing else touches them.
LEMMA RateKept ==
    ASSUME ToolTypeOK, ToolTypeOK', [ToolNext]_toolVars,
           NEW s \in Skills, RateLimit[s] > 0, RateOK(s)
    PROVE  RateOK(s)'
  <1>1. RequestTypeOK /\ RequestTypeOK'
    BY DEF ToolTypeOK
  <1>2. ASSUME Aside PROVE RateOK(s)'
    BY <1>1, <1>2, RateUntouched DEF Aside
  <1>3. ASSUME NEW c \in Callers, RequestStep(c) PROVE RateOK(s)'
    <2>1. SkillOf(c) \in Skills
      BY <1>1 DEF RequestTypeOK, Request, SkillOf
    <2>2. CASE LocalAllow(c) /\ s = SkillOf(c)
      BY <1>1, <2>2, RateOfLocal
    <2>3. CASE RedisAllow(c) /\ s = SkillOf(c)
      BY <1>1, <2>3, RateOfRedis
    <2>4. CASE s # SkillOf(c) \/ ~(LocalAllow(c) \/ RedisAllow(c))
      <3>1. now' = now /\ limiter' = limiter
        BY <1>3 DEF RequestStep, CheckHost, SkillRateOff, LocalAllow, RedisAllow, Dial, DialRefused,
                    Answered, AttemptAgain, DeadlinePasses, requestOthers
      <3>2. CASE LocalAllow(c) \/ RedisAllow(c) \/ SkillRateOff(c)
        <4>1. s # SkillOf(c)
          BY <2>4, <3>2 DEF SkillRateOff
        <4>2. window'[s] = window[s]
          BY <1>1, <3>2, <4>1 DEF SkillRateOff, LocalAllow, RedisAllow, RequestTypeOK
        <4>3. admitted'[s] = admitted[s]
          <5>1. Admit(c) \/ Deny(c)
            BY <3>2 DEF SkillRateOff, LocalAllow, RedisAllow
          <5> QED
            BY <1>1, <4>1, <5>1 DEF Admit, Deny, RequestTypeOK
        <4> QED
          BY <1>1, <3>1, <4>2, <4>3, RateUntouched
      <3>3. CASE CheckHost(c) \/ Dial(c) \/ DialRefused(c) \/ Answered(c) \/ AttemptAgain(c)
                 \/ DeadlinePasses(c)
        <4>1. window' = window /\ admitted' = admitted
          BY <3>3 DEF CheckHost, Dial, DialRefused, Answered, AttemptAgain, DeadlinePasses, requestOthers
        <4> QED
          BY <1>1, <3>1, <4>1, RateUntouched
      <3> QED
        BY <1>3, <3>2, <3>3 DEF RequestStep
    <2> QED
      BY <2>2, <2>3, <2>4
  <1>4. ASSUME Tick \/ ResolveDifferently PROVE RateOK(s)'
    BY <1>1, <1>4, RateUntouched DEF Tick, ResolveDifferently
  <1>5. ASSUME UNCHANGED toolVars PROVE RateOK(s)'
    BY <1>1, <1>5, RateUntouched DEF toolVars, requestVars
  <1> QED
    BY <1>2, <1>3, <1>4, <1>5, NextSteps, StepsAside DEF RequestOf

\* Nothing dials but Dial, and that dials no blocked address.
LEMMA DialedKept ==
    ASSUME ToolTypeOK, OnlyAllowedDialed, [ToolNext]_toolVars
    PROVE  OnlyAllowedDialed'
  <1>1. ASSUME NEW c \in Callers, Dial(c) PROVE OnlyAllowedDialed'
    <2>1. Dialable(c) \subseteq {"public"}
      BY SkillsAssumption DEF Dialable, ToolTypeOK, RequestTypeOK, SkillOf, Request, Addresses
    <2> QED
      BY <1>1, <2>1 DEF Dial, OnlyAllowedDialed
  <1>2. ASSUME NEW c \in Callers, RequestStep(c), ~Dial(c) PROVE dialed' = dialed
    BY <1>2 DEF RequestStep, CheckHost, SkillRateOff, LocalAllow, RedisAllow, DialRefused,
                Answered, AttemptAgain, DeadlinePasses, requestOthers
  <1>3. ASSUME Tick \/ ResolveDifferently \/ UNCHANGED toolVars PROVE dialed' = dialed
    BY <1>3 DEF Tick, ResolveDifferently, toolVars, requestVars
  <1>4. (\E c \in Callers : Dial(c)) \/ dialed' = dialed
    BY <1>2, <1>3, NextSteps, StepsAside DEF RequestOf, Aside
  <1> QED
    BY <1>1, <1>4 DEF OnlyAllowedDialed

-----------------------------------------------------------------------------
\* The total of the runs.
LEMMA OverRunsIsTotal == ASSUME NEW f PROVE OverRuns(f) = Total(f, Runs)
  BY Zenon DEF OverRuns, MapThenSumSet, MapThenFoldSet, Total, AddsUp, Pick1

\* One term changes.
LEMMA TotalUpdate ==
    ASSUME NEW C, IsFiniteSet(C), NEW u \in [C -> Nat], NEW v \in [C -> Nat], NEW c \in C,
           \A d \in C \ {c} : v[d] = u[d]
    PROVE  Total(u, C) \in Nat /\ Total(v, C) \in Nat /\ Total(v, C) + u[c] = Total(u, C) + v[c]
  <1> DEFINE S == C \ {c}
  <1>1. S \in SUBSET C /\ c \in C \ S /\ S \cup {c} = C /\ IsFiniteSet(S)
    BY FS_Subset
  <1> HIDE DEF S
  <1>2. Total(u, S) \in Nat /\ Total(u, C) = Total(u, S) + u[c]
    BY <1>1, TotalAdds
  <1>3. Total(v, S) \in Nat /\ Total(v, C) = Total(v, S) + v[c]
    BY <1>1, TotalAdds
  <1>4. Total(u, S) = Total(v, S)
    BY <1>1, TotalSame DEF S
  <1>5. u[c] \in Nat /\ v[c] \in Nat
    OBVIOUS
  <1> QED
    BY <1>2, <1>3, <1>4, <1>5

LEMMA TotalOfZeros ==
    ASSUME NEW C, IsFiniteSet(C), NEW u \in [C -> Nat], \A c \in C : u[c] = 0
    PROVE  Total(u, C) = 0
  <1> DEFINE Bad == {T \in SUBSET C : Total(u, T) # 0}
  <1> SUFFICES ASSUME Bad # {} PROVE FALSE
    OBVIOUS
  <1>1. \A T \in Bad : IsFiniteSet(T)
    BY FS_Subset
  <1> HIDE DEF Bad
  <1>2. PICK T \in Bad : \A S \in Bad : S \subseteq T => S = T
    BY <1>1, SmallestSet
  <1>3. T \in SUBSET C /\ Total(u, T) # 0 /\ IsFiniteSet(T)
    BY <1>1, <1>2 DEF Bad
  <1>4. PICK c \in T : TRUE
    BY <1>3, TotalDefinition
  <1>5. T \ {c} \in SUBSET C /\ c \in C \ (T \ {c}) /\ T = (T \ {c}) \cup {c}
    BY <1>3, <1>4
  <1>6. Total(u, T \ {c}) = 0
    BY <1>2, <1>4, <1>5 DEF Bad
  <1>7. Total(u, T) = Total(u, T \ {c}) + u[c]
    <2> DEFINE S == T \ {c}
    <2>1. S \in SUBSET C /\ c \in C \ S /\ T = S \cup {c}
      BY <1>5
    <2> HIDE DEF S
    <2>2. Total(u, S \cup {c}) = Total(u, S) + u[c]
      BY <2>1, TotalAdds
    <2> QED
      BY <2>1, <2>2 DEF S
  <1> QED
    BY <1>3, <1>4, <1>6, <1>7

\* What a step does to the caller that takes it: it goes on with its call, or is through with it.
OthersStay(c) == \A d \in Callers \ {c} : caller'[d] = caller[d]

GoesOn(c, pc) ==
    /\ OthersStay(c) /\ caller'[c].pc = pc
    /\ caller'[c].skill = caller[c].skill /\ caller'[c].hasRow = caller[c].hasRow
    /\ caller'[c].target = caller[c].target

Through(c) ==
    OthersStay(c) /\ caller'[c].pc \in {"ready", "done"} /\ caller'[c].hasRow = FALSE
    /\ caller'[c].target = 0

LEMMA ToolGotoGoes ==
    ASSUME ToolTypeOK, NEW c \in Callers, NEW pc, ToolGoto(c, pc)
    PROVE  GoesOn(c, pc)
  BY DEF ToolTypeOK, ToolGoto, GoesOn, OthersStay, Caller

LEMMA NotRunThrough ==
    ASSUME ToolTypeOK, NEW c \in Callers, NotRun(c)
    PROVE  Through(c)
  BY DEF ToolTypeOK, NotRun, NewCaller, Through, OthersStay

LEMMA ReturnThrough ==
    ASSUME ToolTypeOK, NEW c \in Callers, Return(c)
    PROVE  Through(c)
  <1>1. PICK t : /\ t.pc \in {"ready", "done"} /\ t.hasRow = FALSE /\ t.target = 0
                 /\ caller' = [caller EXCEPT ![c] = t]
    BY DEF Return, Observe, NewCaller
  <1> QED
    BY <1>1 DEF ToolTypeOK, Through, OthersStay

LEMMA AbandonThrough ==
    ASSUME ToolTypeOK, NEW c \in Callers, Abandon(c)
    PROVE  Through(c)
  BY DEF ToolTypeOK, Abandon, NewCaller, Through, OthersStay

LEMMA CallChanges ==
    ASSUME ToolTypeOK, NEW c \in Callers
    PROVE  /\ CallTool(c) => /\ OthersStay(c) /\ caller'[c].pc \in {"finish", "check"}
                             /\ caller'[c].hasRow = caller[c].hasRow
                             /\ caller'[c].target = caller[c].target
           /\ RecordStart(c) => /\ OthersStay(c) /\ caller'[c].pc = "work"
                                /\ caller'[c].hasRow = TRUE /\ caller'[c].skill = caller[c].skill
                                /\ caller'[c].target = caller[c].target
           /\ PostgresFindOpen(c) => /\ OthersStay(c) /\ caller'[c].pc = "close"
                                     /\ caller'[c].hasRow = caller[c].hasRow
                                     /\ caller'[c].skill = caller[c].skill
                                     /\ caller'[c].target = LatestOpen(c)
  <1>1. caller \in [Callers -> Caller] /\ caller[c] \in Caller
    BY DEF ToolTypeOK
  <1>2. ASSUME CallTool(c)
        PROVE  /\ OthersStay(c) /\ caller'[c].pc \in {"finish", "check"}
               /\ caller'[c].hasRow = caller[c].hasRow /\ caller'[c].target = caller[c].target
    BY <1>1, <1>2 DEF CallTool, OthersStay, Caller
  <1>3. ASSUME RecordStart(c)
        PROVE  /\ OthersStay(c) /\ caller'[c].pc = "work" /\ caller'[c].hasRow = TRUE
               /\ caller'[c].skill = caller[c].skill /\ caller'[c].target = caller[c].target
    BY <1>1, <1>3 DEF RecordStart, OthersStay, Caller
  <1>4. ASSUME PostgresFindOpen(c)
        PROVE  /\ OthersStay(c) /\ caller'[c].pc = "close"
               /\ caller'[c].hasRow = caller[c].hasRow /\ caller'[c].skill = caller[c].skill
               /\ caller'[c].target = LatestOpen(c)
    BY <1>1, <1>4 DEF PostgresFindOpen, OthersStay, Caller
  <1> QED
    BY <1>2, <1>3, <1>4

\* The steps that only let their caller go on.
LEMMA PlainSteps ==
    ASSUME ToolTypeOK, NEW c \in Callers
    PROVE  /\ StartAttempt(c) => GoesOn(c, "ready")
           /\ EndLoop(c) => GoesOn(c, "completing")
           /\ ReserveCheckAttempt(c) => GoesOn(c, "sum") \/ Through(c)
           /\ StartEvent(c) => GoesOn(c, "startRow") \/ GoesOn(c, "work")
           /\ Work(c) => GoesOn(c, "finish") \/ caller' = caller
           /\ CompleteCheckAttempt(c) => GoesOn(c, "settle") \/ GoesOn(c, "done")
           /\ CompleteFinish(c) => GoesOn(c, "done")
  BY ToolGotoGoes, NotRunThrough DEF StartAttempt, EndLoop, ReserveCheckAttempt, StartEvent, Work,
     CompleteCheckAttempt, CompleteFinish

CallsOf(used) == [r \in Runs |-> used[r].calls]
Used == OverRuns(CallsOf(runUsage))

\* A reservation that was decided on a sum nobody has added to since has room for its call.
DecidedInv ==
    /\ \A c \in Callers : caller[c].pc \in {"read", "save"} /\ MaxToolCallsPerDay > 0 =>
         Used + 1 <= MaxToolCallsPerDay
    /\ \A c \in Callers : ToolAt(c, "save") => caller[c].read = runUsage[runOf[c]]

\* What was granted is in the usage, or was taken out of it.
GrantedInv ==
    /\ \A r \in Runs \ settled : runUsage[r].calls = granted[r]
    /\ OverRuns(granted) <= Used + forgotten
    /\ MaxToolCallsPerDay > 0 => OverRuns(granted) <= MaxToolCallsPerDay + forgotten

QuotaInv == ~excused => DecidedInv /\ GrantedInv

LEMMA TotalsType ==
    ASSUME ToolTypeOK
    PROVE  /\ CallsOf(runUsage) \in [Runs -> Nat] /\ granted \in [Runs -> Nat] /\ forgotten \in Nat
           /\ Used \in Int /\ OverRuns(granted) \in Int /\ MaxToolCallsPerDay \in Nat
           /\ IsFiniteSet(Runs)
  <1>1. CallsOf(runUsage) \in [Runs -> Nat] /\ granted \in [Runs -> Nat] /\ forgotten \in Nat
    BY DEF CallsOf, ToolTypeOK, Usage
  <1>2. IsFiniteSet(Runs) /\ MaxToolCallsPerDay \in Nat
    BY ToolsAssumption
  <1>3. ASSUME NEW u \in [Runs -> Nat] PROVE Total(u, Runs) \in Int
    <2>1. CASE Runs = {}
      <3>1. Total(u, Runs) = 0
        BY <1>2, <2>1, TotalDefinition
      <3> QED
        BY <3>1
    <2>2. CASE Runs # {}
      BY <1>2, <2>2, TotalUpdate
    <2> QED
      BY <2>1, <2>2
  <1> QED
    BY <1>1, <1>2, <1>3, OverRunsIsTotal DEF Used

\* No usage changes, and nobody decides.
LEMMA QuotaUntouched ==
    ASSUME QuotaInv, UNCHANGED <<runUsage, granted, forgotten, settled, runOf>>,
           excused => excused',
           \A d \in Callers : caller'[d].pc \in {"read", "save"} => caller'[d] = caller[d]
    PROVE  QuotaInv'
  BY DEF QuotaInv, DecidedInv, GrantedInv, Used, ToolAt

\* The calls in the usage of one run change, and nobody else has decided.
LEMMA QuotaChanges ==
    ASSUME ToolTypeOK, ToolTypeOK', QuotaInv, ~excused, NEW c \in Callers,
           NEW r \in Runs, runOf' = runOf, settled \subseteq settled',
           \A d \in Callers \ {c} : caller'[d] = caller[d] /\ caller[d].pc \notin {"read", "save"},
           caller'[c].pc \notin {"read", "save"},
           \A q \in Runs \ {r} : runUsage'[q] = runUsage[q] /\ granted'[q] = granted[q],
           r \notin settled' => runUsage'[r].calls = granted'[r],
           forgotten <= forgotten',
           granted'[r] - granted[r] <= runUsage'[r].calls - runUsage[r].calls + forgotten' - forgotten,
           MaxToolCallsPerDay > 0 =>
             granted'[r] = granted[r] \/ (granted'[r] = granted[r] + 1 /\ Used + 1 <= MaxToolCallsPerDay)
    PROVE  QuotaInv'
  <1>1. /\ CallsOf(runUsage) \in [Runs -> Nat] /\ granted \in [Runs -> Nat] /\ forgotten \in Nat
        /\ Used \in Int /\ OverRuns(granted) \in Int /\ MaxToolCallsPerDay \in Nat
        /\ IsFiniteSet(Runs)
    BY TotalsType
  <1>2. /\ CallsOf(runUsage') \in [Runs -> Nat] /\ granted' \in [Runs -> Nat] /\ forgotten' \in Nat
    BY DEF CallsOf, ToolTypeOK, Usage
  <1>3. PICK u \in [Runs -> Nat], g \in [Runs -> Nat] : u = CallsOf(runUsage') /\ g = granted'
    BY <1>2
  <1>4. /\ u[r] = runUsage'[r].calls /\ g[r] = granted'[r]
        /\ \A q \in Runs \ {r} : u[q] = CallsOf(runUsage)[q] /\ g[q] = granted[q]
    BY <1>3 DEF CallsOf
  <1>5. /\ Used = Total(CallsOf(runUsage), Runs) /\ OverRuns(granted) = Total(granted, Runs)
        /\ Used' = Total(u, Runs) /\ OverRuns(granted)' = Total(g, Runs)
    <2>1. OverRuns(u) = Total(u, Runs) /\ OverRuns(g) = Total(g, Runs)
      BY OverRunsIsTotal
    <2>2. Used' = OverRuns(u) /\ OverRuns(granted)' = OverRuns(g)
      BY <1>3 DEF Used, CallsOf
    <2> QED
      BY <2>1, <2>2, OverRunsIsTotal DEF Used
  <1>6. /\ Used' \in Nat /\ OverRuns(granted)' \in Nat
        /\ Used' + runUsage[r].calls = Used + runUsage'[r].calls
        /\ OverRuns(granted)' + granted[r] = OverRuns(granted) + granted'[r]
    <2>1. /\ Total(u, Runs) \in Nat
          /\ Total(u, Runs) + CallsOf(runUsage)[r] = Total(CallsOf(runUsage), Runs) + u[r]
      BY <1>1, <1>4, TotalUpdate
    <2>2. Total(g, Runs) \in Nat /\ Total(g, Runs) + granted[r] = Total(granted, Runs) + g[r]
      BY <1>1, <1>4, TotalUpdate
    <2>3. CallsOf(runUsage)[r] = runUsage[r].calls
      BY DEF CallsOf
    <2> QED
      BY <1>4, <1>5, <2>1, <2>2, <2>3
  <1>7. /\ runUsage[r].calls \in Int /\ runUsage'[r].calls \in Int
        /\ granted[r] \in Int /\ granted'[r] \in Int
    BY DEF ToolTypeOK, Usage
  <1>8. OverRuns(granted)' <= Used' + forgotten'
    BY <1>1, <1>2, <1>6, <1>7 DEF QuotaInv, GrantedInv
  <1>9. MaxToolCallsPerDay > 0 => OverRuns(granted)' <= MaxToolCallsPerDay + forgotten'
    BY <1>1, <1>2, <1>6, <1>7 DEF QuotaInv, GrantedInv
  <1>10. \A q \in Runs \ settled' : runUsage'[q].calls = granted'[q]
    BY DEF QuotaInv, GrantedInv
  <1>11. \A d \in Callers : caller'[d].pc \notin {"read", "save"}
    OBVIOUS
  <1> QED
    BY <1>8, <1>9, <1>10, <1>11 DEF QuotaInv, DecidedInv, GrantedInv, ToolAt

LEMMA QuotaStepKept ==
    ASSUME ToolTypeOK, ToolTypeOK', QuotaInv, NEW c \in Callers, OwnStep(c)
    PROVE  QuotaInv'
  <1>1. caller \in [Callers -> Caller] /\ runOf[c] \in Runs
    BY DEF ToolTypeOK
  <1>2. CASE ReserveDecide(c)
    <2>1. CASE Allowed(c, SumRunUsageSince(c)) /\ ToolGoto(c, "read") /\ excused' = excused
      <3>1. MaxToolCallsPerDay > 0 => Used + 1 <= MaxToolCallsPerDay
        BY <2>1 DEF Allowed, SumRunUsageSince, Used, CallsOf
      <3>2. \A d \in Callers : caller'[d].pc \in {"read", "save"} => d = c \/ caller'[d] = caller[d]
        BY <1>1, <2>1 DEF ToolGoto
      <3>3. caller'[c].pc = "read"
        BY <1>1, <2>1 DEF ToolGoto
      <3> QED
        BY <1>2, <2>1, <3>1, <3>2, <3>3 DEF ReserveDecide, QuotaInv, DecidedInv, GrantedInv, Used, ToolAt
    <2>2. CASE NotRun(c) /\ excused' = excused
      <3>1. \A d \in Callers : caller'[d].pc \in {"read", "save"} => caller'[d] = caller[d]
        BY <1>1, <2>2 DEF NotRun, NewCaller
      <3> QED
        BY <1>2, <2>2, <3>1, QuotaUntouched DEF ReserveDecide
    <2>3. CASE excused'
      BY <2>3 DEF QuotaInv
    <2> QED
      BY <1>2, <2>1, <2>2, <2>3 DEF ReserveDecide
  <1>3. CASE GetRunUsage(c)
    <2>1. UNCHANGED <<runUsage, granted, forgotten, settled, runOf, excused>>
      BY <1>3 DEF GetRunUsage, callerOthers, toolHistory
    <2>2. CASE NotRun(c)
      <3>1. \A d \in Callers : caller'[d].pc \in {"read", "save"} => caller'[d] = caller[d]
        BY <1>1, <2>2 DEF NotRun, NewCaller
      <3> QED
        BY <2>1, <3>1, QuotaUntouched
    <2>3. CASE caller' = [caller EXCEPT ![c].pc = "save", ![c].read = runUsage[runOf[c]]]
      <3>1. /\ caller[c].pc = "read" /\ caller'[c].pc = "save" /\ caller'[c].read = runUsage[runOf[c]]
            /\ \A d \in Callers \ {c} : caller'[d] = caller[d]
        BY <1>1, <1>3, <2>3 DEF GetRunUsage, ToolAt, Caller
      <3> QED
        BY <2>1, <3>1 DEF QuotaInv, DecidedInv, GrantedInv, Used, ToolAt
    <2> QED
      BY <1>3, <2>2, <2>3 DEF GetRunUsage
  <1>4. CASE ReserveSave(c)
    <2> SUFFICES ASSUME ~excused' PROVE QuotaInv'
      BY DEF QuotaInv
    <2>1. ~excused /\ \A d \in Callers \ {c} : caller[d].pc \notin {"read", "save"}
      BY <1>4 DEF ReserveSave, OthersDecided
    <2>2. /\ caller[c].pc = "save" /\ caller'[c].pc \notin {"read", "save"}
          /\ \A d \in Callers \ {c} : caller'[d] = caller[d]
      <3>1. GoesOn(c, "started") \/ Through(c)
        BY <1>4, ToolGotoGoes, NotRunThrough DEF ReserveSave
      <3>2. caller[c].pc = "save"
        BY <1>4 DEF ReserveSave, ToolAt
      <3> QED
        BY <3>1, <3>2 DEF GoesOn, Through, OthersStay
    <2>3. /\ runUsage'[runOf[c]].calls = runUsage[runOf[c]].calls + 1
          /\ granted'[runOf[c]] = granted[runOf[c]] + 1
          /\ \A q \in Runs \ {runOf[c]} : runUsage'[q] = runUsage[q] /\ granted'[q] = granted[q]
      <3>1. caller[c].read = runUsage[runOf[c]]
        BY <2>1, <2>2 DEF QuotaInv, DecidedInv, ToolAt
      <3> QED
        BY <1>1, <1>4, <3>1 DEF ReserveSave, ReservedUsage, ToolTypeOK
    <2>4. MaxToolCallsPerDay > 0 => Used + 1 <= MaxToolCallsPerDay
      BY <2>1, <2>2 DEF QuotaInv, DecidedInv
    <2>5. runOf' = runOf /\ settled' = settled /\ forgotten' = forgotten
      BY <1>4 DEF ReserveSave
    <2>6. runOf[c] \notin settled => runUsage[runOf[c]].calls = granted[runOf[c]]
      BY <1>1, <2>1 DEF QuotaInv, GrantedInv
    <2>7. runUsage[runOf[c]].calls \in Int /\ granted[runOf[c]] \in Int /\ forgotten \in Int
      BY <1>1 DEF ToolTypeOK, Usage
    <2> QED
      BY <1>1, <2>1, <2>2, <2>3, <2>4, <2>5, <2>6, <2>7, QuotaChanges
  <1>5. CASE CompleteSaveUsage(c)
    <2>1. /\ caller'[c].pc \notin {"read", "save"}
          /\ \A d \in Callers \ {c} : caller'[d] = caller[d]
      <3>1. GoesOn(c, "finishing") \/ GoesOn(c, "done")
        BY <1>5, ToolGotoGoes DEF CompleteSaveUsage
      <3> QED
        BY <3>1 DEF GoesOn, OthersStay
    <2>2. CASE UNCHANGED <<runUsage, forgotten, settled, excused>>
      <3>1. UNCHANGED <<granted, runOf>>
        BY <1>5 DEF CompleteSaveUsage
      <3> QED
        BY <2>1, <2>2, <3>1, QuotaUntouched
    <2>3. CASE /\ runUsage' = [runUsage EXCEPT ![runOf[c]] = caller[c].own]
               /\ forgotten' = forgotten + Monus(runUsage[runOf[c]].calls, caller[c].own.calls)
               /\ settled' = settled \cup {runOf[c]}
               /\ excused' = (excused \/ OthersDecided(c))
      <3> SUFFICES ASSUME ~excused' PROVE QuotaInv'
        BY DEF QuotaInv
      <3>1. ~excused /\ \A d \in Callers \ {c} : caller[d].pc \notin {"read", "save"}
        BY <2>3 DEF OthersDecided
      <3>2. /\ runUsage'[runOf[c]] = caller[c].own
            /\ \A q \in Runs \ {runOf[c]} : runUsage'[q] = runUsage[q]
            /\ settled \subseteq settled' /\ runOf[c] \in settled'
        BY <1>1, <2>3 DEF ToolTypeOK
      <3>3. granted' = granted /\ runOf' = runOf
        BY <1>5 DEF CompleteSaveUsage
      <3>4. /\ runUsage[runOf[c]].calls \in Int /\ caller[c].own.calls \in Int
            /\ granted[runOf[c]] \in Int /\ forgotten \in Int
        <4>1. runUsage[runOf[c]] \in Usage /\ caller[c].own \in Usage /\ granted[runOf[c]] \in Nat
              /\ forgotten \in Nat
          BY <1>1 DEF ToolTypeOK, Caller
        <4> QED
          BY <4>1 DEF Usage
      <3>5. /\ forgotten <= forgotten'
            /\ granted'[runOf[c]] - granted[runOf[c]] <=
                 runUsage'[runOf[c]].calls - runUsage[runOf[c]].calls + forgotten' - forgotten
        BY <2>3, <3>2, <3>3, <3>4 DEF Monus
      <3> QED
        BY <1>1, <2>1, <3>1, <3>2, <3>3, <3>5, QuotaChanges
    <2> QED
      BY <1>5, <2>2, <2>3 DEF CompleteSaveUsage
  <1>6. CASE ~(ReserveDecide(c) \/ GetRunUsage(c) \/ ReserveSave(c) \/ CompleteSaveUsage(c))
    <2>1. UNCHANGED <<runUsage, granted, forgotten, settled, runOf, excused>>
      BY <1>6 DEF OwnStep, StartAttempt, CallTool, EndLoop, Abandon, ReserveCheckAttempt, StartEvent,
                  RecordStart, Work, FinishEvent, MemoryRecordFinish, PostgresFindOpen,
                  PostgresRecordFinish, CompleteCheckAttempt, CompleteFinish, callerOthers, toolHistory
    <2>2. \A d \in Callers : caller'[d].pc \in {"read", "save"} => caller'[d] = caller[d]
      <3>1. CASE \/ StartAttempt(c) \/ EndLoop(c) \/ ReserveCheckAttempt(c)
                 \/ StartEvent(c) \/ Work(c) \/ CompleteCheckAttempt(c) \/ CompleteFinish(c)
        BY <3>1, PlainSteps DEF GoesOn, Through, OthersStay
      <3>2. CASE Abandon(c) \/ FinishEvent(c) \/ MemoryRecordFinish(c) \/ PostgresRecordFinish(c)
        BY <3>2, AbandonThrough, ReturnThrough, ToolGotoGoes
        DEF FinishEvent, MemoryRecordFinish, PostgresRecordFinish, GoesOn, Through, OthersStay
      <3>3. CASE RecordStart(c) \/ PostgresFindOpen(c) \/ CallTool(c)
        BY <3>3, CallChanges DEF OthersStay
      <3> QED
        BY <1>6, <3>1, <3>2, <3>3 DEF OwnStep
    <2> QED
      BY <2>1, <2>2, QuotaUntouched
  <1> QED
    BY <1>2, <1>3, <1>4, <1>5, <1>6

-----------------------------------------------------------------------------
OpenOf(r, s) == {i \in DOMAIN rows : rows[i] = [run |-> r, skill |-> s, open |-> TRUE]}

HoldersOf(r, s) == {c \in Callers : caller[c].hasRow /\ runOf[c] = r /\ SkillIn(c) = s}

\* Those that have not found that their row was closed already.
KeepersOf(r, s) == {c \in HoldersOf(r, s) : ~(ToolAt(c, "close") /\ caller[c].target = 0)}

\* Where a call has a row, and where it has found the row to close.
PlaceInv == \A c \in Callers :
    /\ caller[c].hasRow => caller[c].pc \in {"work", "finish", "finishRow", "close"}
    /\ ToolAt(c, "close") => store = "postgres"

\* A row that was found stays open until it is closed, by the one that found it.
TargetInv ==
    /\ \A c \in Callers : ToolAt(c, "close") /\ caller[c].target # 0 =>
         caller[c].target \in OpenOf(runOf[c], SkillIn(c))
    /\ \A c, d \in Callers : c # d /\ ToolAt(c, "close") /\ ToolAt(d, "close")
                             /\ caller[c].target # 0 => caller[c].target # caller[d].target

\* An open row is somebody's, or its end went unrecorded.
KeptInv == \A r \in Runs, s \in Skills :
    Cardinality(OpenOf(r, s)) <= Cardinality(KeepersOf(r, s)) + dangling[<<r, s>>]

RowsInv == PlaceInv /\ (~overlapped => TargetInv /\ KeptInv)

\* Counting up to a number ends: the rows a store has listed are finitely many.
LEMMA RowNumbersFinite ==
    ASSUME NEW n \in Nat
    PROVE  IsFiniteSet(1..n)
  BY 1 \in Int, n \in Int, FS_Interval

LEMMA InvocationsFinite ==
    ASSUME ToolTypeOK, NEW r \in Runs, NEW s \in Skills
    PROVE  IsFiniteSet(OpenOf(r, s)) /\ IsFiniteSet(KeepersOf(r, s)) /\ dangling[<<r, s>>] \in Nat
  <1>1. OpenOf(r, s) \subseteq 1..Len(rows) /\ Len(rows) \in Nat
    BY DEF OpenOf, ToolTypeOK
  <1>2. IsFiniteSet(1..Len(rows))
    BY ONLY <1>1, RowNumbersFinite
  <1>3. IsFiniteSet(Callers) /\ KeepersOf(r, s) \subseteq Callers
    BY SkillsAssumption DEF KeepersOf, HoldersOf
  <1>4. dangling[<<r, s>>] \in Nat
    BY DEF ToolTypeOK
  <1> QED
    BY <1>1, <1>2, <1>3, <1>4, FS_Subset

\* The ways in which a step may change open rows (from O to P), those that keep them (from
\* K to L) and the number of those that nobody will close (from m to n).
Balanced(O, P, K, L, m, n) ==
    \/ P = {}
    \/ P \subseteq O /\ K \subseteq L /\ m <= n
    \/ P \subseteq O /\ m + 1 <= n /\ \E c : K \ {c} \subseteq L
    \/ m <= n /\ \E c, i : i \in O /\ P = O \ {i} /\ K \ {c} \subseteq L
    \/ m <= n /\ \E c, i : c \notin K /\ P = O \cup {i} /\ L = K \cup {c}

LEMMA BalanceKept ==
    ASSUME NEW O, NEW P, NEW K, NEW L, NEW m \in Nat, NEW n \in Nat,
           IsFiniteSet(O), IsFiniteSet(P), IsFiniteSet(K), IsFiniteSet(L),
           Balanced(O, P, K, L, m, n), Cardinality(O) <= Cardinality(K) + m
    PROVE  Cardinality(P) <= Cardinality(L) + n
  <1>1. /\ Cardinality(O) \in Nat /\ Cardinality(P) \in Nat
        /\ Cardinality(K) \in Nat /\ Cardinality(L) \in Nat
    BY FS_CardinalityType
  <1>2. CASE P = {}
    BY <1>1, <1>2, FS_EmptySet
  <1>3. P \subseteq O => Cardinality(P) <= Cardinality(O)
    BY FS_Subset
  <1>4. ASSUME NEW c, K \ {c} \subseteq L PROVE Cardinality(K) <= Cardinality(L) + 1
    <2>1. IsFiniteSet(K \ {c}) /\ Cardinality(K \ {c}) <= Cardinality(L)
      BY <1>4, FS_Subset
    <2>2. Cardinality(K \ {c}) = IF c \in K THEN Cardinality(K) - 1 ELSE Cardinality(K)
      BY FS_RemoveElement
    <2>3. Cardinality(K \ {c}) \in Nat
      BY <2>1, FS_CardinalityType
    <2> QED
      BY <1>1, <2>1, <2>2, <2>3
  <1>5. CASE P \subseteq O /\ K \subseteq L /\ m <= n
    <2>1. Cardinality(K) <= Cardinality(L)
      BY <1>5, FS_Subset
    <2> QED
      BY <1>1, <1>3, <1>5, <2>1
  <1>6. CASE P \subseteq O /\ m + 1 <= n /\ \E c : K \ {c} \subseteq L
    BY <1>1, <1>3, <1>4, <1>6
  <1>7. CASE m <= n /\ \E c, i : i \in O /\ P = O \ {i} /\ K \ {c} \subseteq L
    <2>1. Cardinality(P) = Cardinality(O) - 1
      BY <1>7, FS_RemoveElement
    <2> QED
      BY <1>1, <1>4, <1>7, <2>1
  <1>8. CASE m <= n /\ \E c, i : c \notin K /\ P = O \cup {i} /\ L = K \cup {c}
    <2>1. Cardinality(P) <= Cardinality(O) + 1
      BY <1>1, <1>8, FS_AddElement
    <2>2. Cardinality(L) = Cardinality(K) + 1
      BY <1>8, FS_AddElement
    <2> QED
      BY <1>1, <1>8, <2>1, <2>2
  <1> QED
    BY <1>2, <1>5, <1>6, <1>7, <1>8 DEF Balanced

\* A row that is added is open if it is added so; closing one takes it from the open ones.
LEMMA RowAdded ==
    ASSUME ToolTypeOK, NEW row \in Row, rows' = Append(rows, row), NEW r \in Runs, NEW s \in Skills
    PROVE  OpenOf(r, s)' = OpenOf(r, s) \cup (IF row = [run |-> r, skill |-> s, open |-> TRUE]
                                               THEN {Len(rows) + 1} ELSE {})
  <1> DEFINE n == Len(rows)
  <1>1. n \in Nat /\ DOMAIN rows = 1..n /\ n + 1 \notin 1..n
    BY DEF ToolTypeOK
  <1>2. DOMAIN rows' = 1..(n + 1) /\ rows'[n + 1] = row /\ \A i \in 1..n : rows'[i] = rows[i]
    <2>1. rows \in Seq(Row)
      BY DEF ToolTypeOK
    <2> QED
      BY <2>1
  <1> HIDE DEF n
  <1>3. 1..(n + 1) = (1..n) \cup {n + 1}
    BY <1>1
  <1> QED
    BY <1>1, <1>2, <1>3 DEF OpenOf, n

LEMMA RowOpened ==
    ASSUME ToolTypeOK, NEW c \in Callers, rows' = OpenRow(c, TRUE), NEW r \in Runs, NEW s \in Skills
    PROVE  /\ OpenOf(r, s) \subseteq OpenOf(r, s)'
           /\ IF r = runOf[c] /\ s = SkillIn(c)
              THEN OpenOf(r, s)' = OpenOf(r, s) \cup {Len(rows) + 1}
              ELSE OpenOf(r, s)' = OpenOf(r, s)
  <1> DEFINE row == [run |-> runOf[c], skill |-> SkillIn(c), open |-> TRUE]
  <1>1. row \in Row /\ rows' = Append(rows, row)
    BY DEF ToolTypeOK, Caller, SkillIn, Row, OpenRow
  <1>2. row = [run |-> r, skill |-> s, open |-> TRUE] <=> r = runOf[c] /\ s = SkillIn(c)
    OBVIOUS
  <1> HIDE DEF row
  <1>3. CASE r = runOf[c] /\ s = SkillIn(c)
    <2>1. OpenOf(r, s)' = OpenOf(r, s) \cup {Len(rows) + 1}
      BY <1>1, <1>2, <1>3, RowAdded
    <2> QED
      BY <1>3, <2>1
  <1>4. CASE ~(r = runOf[c] /\ s = SkillIn(c))
    <2>1. OpenOf(r, s)' = OpenOf(r, s)
      BY <1>1, <1>2, <1>4, RowAdded
    <2> QED
      BY <1>4, <2>1
  <1> QED
    BY <1>3, <1>4

LEMMA ClosedRowAdded ==
    ASSUME ToolTypeOK, NEW c \in Callers, rows' = OpenRow(c, FALSE), NEW r \in Runs, NEW s \in Skills
    PROVE  OpenOf(r, s)' = OpenOf(r, s)
  <1> DEFINE row == [run |-> runOf[c], skill |-> SkillIn(c), open |-> FALSE]
  <1>1. row \in Row /\ rows' = Append(rows, row)
    BY DEF ToolTypeOK, Caller, SkillIn, Row, OpenRow
  <1>2. row # [run |-> r, skill |-> s, open |-> TRUE]
    OBVIOUS
  <1> HIDE DEF row
  <1> QED
    BY <1>1, <1>2, RowAdded

LEMMA RowClosed ==
    ASSUME ToolTypeOK, NEW c \in Callers, NEW i \in Nat, i # 0, CloseRow(c, i),
           NEW r \in Runs, NEW s \in Skills
    PROVE  OpenOf(r, s)' = OpenOf(r, s) \ {i}
  <1>1. rows \in [1..Len(rows) -> Row] /\ rows' = [rows EXCEPT ![i].open = FALSE]
    BY DEF ToolTypeOK, CloseRow
  <1>2. DOMAIN rows' = DOMAIN rows /\ \A j \in DOMAIN rows : j # i => rows'[j] = rows[j]
    BY <1>1
  <1>3. i \in DOMAIN rows => rows'[i].open = FALSE
    BY <1>1 DEF Row
  <1> QED
    BY <1>2, <1>3 DEF OpenOf

LEMMA OpenRowsAre ==
    ASSUME ToolTypeOK, NEW c \in Callers
    PROVE  OpenRows(c) = OpenOf(runOf[c], SkillIn(c)) /\ runOf[c] \in Runs /\ SkillIn(c) \in Skills
  <1>1. rows \in [1..Len(rows) -> Row] /\ runOf[c] \in Runs /\ SkillIn(c) \in Skills
    BY DEF ToolTypeOK, SkillIn, Caller
  <1>2. ASSUME NEW i \in DOMAIN rows, NEW r \in Runs, NEW s \in Skills
        PROVE  rows[i].open /\ rows[i].run = r /\ rows[i].skill = s <=>
                 rows[i] = [run |-> r, skill |-> s, open |-> TRUE]
    <2>1. rows[i] \in Row
      BY <1>1
    <2> QED
      BY <2>1 DEF Row
  <1> DEFINE r == runOf[c]
             s == SkillIn(c)
  <1>3. r \in Runs /\ s \in Skills
    BY <1>1
  <1>4. OpenRows(c) = {i \in DOMAIN rows : rows[i].open /\ rows[i].run = r /\ rows[i].skill = s}
    BY DEF OpenRows
  <1> HIDE DEF r, s
  <1>5. OpenRows(c) = OpenOf(r, s)
    <2>1. \A i \in DOMAIN rows : rows[i].open /\ rows[i].run = r /\ rows[i].skill = s <=>
                                 rows[i] = [run |-> r, skill |-> s, open |-> TRUE]
      BY <1>2, <1>3
    <2>2. {i \in DOMAIN rows : rows[i].open /\ rows[i].run = r /\ rows[i].skill = s} =
            {i \in DOMAIN rows : rows[i] = [run |-> r, skill |-> s, open |-> TRUE]}
      BY <2>1, Zenon
    <2> QED
      BY <1>4, <2>2 DEF OpenOf
  <1> QED
    BY <1>3, <1>5 DEF r, s

\* The steps that have nothing to do with rows.
RowlessStep(c) ==
    \/ StartAttempt(c) \/ CallTool(c) \/ EndLoop(c)
    \/ ReserveCheckAttempt(c) \/ ReserveDecide(c) \/ GetRunUsage(c) \/ ReserveSave(c) \/ StartEvent(c)
    \/ CompleteCheckAttempt(c) \/ CompleteSaveUsage(c) \/ CompleteFinish(c)

LEMMA RowlessSteps ==
    ASSUME ToolTypeOK, PlaceInv, NEW c \in Callers, RowlessStep(c)
    PROVE  /\ UNCHANGED <<store, runOf, rows, dangling, overlapped>> /\ OthersStay(c)
           /\ caller[c].hasRow = FALSE /\ caller'[c].hasRow = FALSE
           /\ ~ToolAt(c, "close") /\ caller'[c].pc # "close"
  <1>1. UNCHANGED <<store, runOf, rows, dangling, overlapped>>
    BY DEF RowlessStep, StartAttempt, CallTool, EndLoop, ReserveCheckAttempt, ReserveDecide, GetRunUsage,
           ReserveSave, StartEvent, CompleteCheckAttempt, CompleteSaveUsage, CompleteFinish,
           callerOthers, toolHistory
  <1>2. caller[c].pc \in {"waiting", "ready", "check", "sum", "read", "save", "started", "completing",
                          "settle", "finishing"}
    BY DEF RowlessStep, StartAttempt, CallTool, EndLoop, ReserveCheckAttempt, ReserveDecide, GetRunUsage,
           ReserveSave, StartEvent, CompleteCheckAttempt, CompleteSaveUsage, CompleteFinish, ToolAt
  <1>3. caller[c].hasRow = FALSE
    BY <1>2 DEF PlaceInv, ToolTypeOK, Caller
  <1>4. CASE CallTool(c)
    BY <1>1, <1>2, <1>3, <1>4, CallChanges DEF ToolAt
  <1>5. CASE ~CallTool(c)
    <2>1. Through(c) \/ \E pc \in {"ready", "completing", "sum", "read", "save", "started", "startRow",
                                   "work", "settle", "finishing", "done"} : GoesOn(c, pc)
      <3>1. CASE StartAttempt(c) \/ EndLoop(c) \/ ReserveCheckAttempt(c) \/ StartEvent(c)
                 \/ CompleteCheckAttempt(c) \/ CompleteFinish(c)
        BY <3>1, PlainSteps
      <3>2. CASE ReserveDecide(c) \/ ReserveSave(c) \/ CompleteSaveUsage(c)
        BY <3>2, ToolGotoGoes, NotRunThrough DEF ReserveDecide, ReserveSave, CompleteSaveUsage
      <3>3. CASE GetRunUsage(c)
        <4>1. CASE NotRun(c)
          BY <4>1, NotRunThrough
        <4>2. CASE caller' = [caller EXCEPT ![c].pc = "save", ![c].read = runUsage[runOf[c]]]
          <5>1. GoesOn(c, "save")
            BY <4>2 DEF GoesOn, OthersStay, ToolTypeOK, Caller
          <5> QED
            BY <5>1
        <4> QED
          BY <3>3, <4>1, <4>2 DEF GetRunUsage
      <3> QED
        BY <1>5, <3>1, <3>2, <3>3 DEF RowlessStep
    <2> QED
      BY <1>1, <1>2, <1>3, <2>1 DEF GoesOn, Through, ToolAt
  <1> QED
    BY <1>4, <1>5

LEMMA PlaceKept ==
    ASSUME ToolTypeOK, PlaceInv, NEW c \in Callers, OwnStep(c)
    PROVE  PlaceInv'
  <1>1. store' = store
    BY DEF OwnStep, StartAttempt, CallTool, EndLoop, Abandon, ReserveCheckAttempt, ReserveDecide,
           GetRunUsage, ReserveSave, StartEvent, RecordStart, Work, FinishEvent, MemoryRecordFinish,
           PostgresFindOpen, PostgresRecordFinish, CompleteCheckAttempt, CompleteSaveUsage, CompleteFinish, callerOthers
  <1>2. ASSUME OthersStay(c),
               caller'[c].hasRow => caller'[c].pc \in {"work", "finish", "finishRow", "close"},
               caller'[c].pc = "close" => store = "postgres"
        PROVE  PlaceInv'
    BY <1>1, <1>2 DEF OthersStay, PlaceInv, ToolAt
  <1>3. CASE RowlessStep(c)
    BY <1>2, <1>3, RowlessSteps
  <1>4. CASE Work(c)
    <2>1. CASE GoesOn(c, "finish")
      BY <1>2, <2>1 DEF GoesOn
    <2>2. CASE caller' = caller
      BY <1>1, <2>2 DEF PlaceInv, ToolAt
    <2> QED
      BY <1>4, <2>1, <2>2, PlainSteps
  <1>5. CASE Abandon(c) \/ FinishEvent(c) \/ MemoryRecordFinish(c) \/ PostgresRecordFinish(c)
    <2>1. Through(c) \/ GoesOn(c, "finishRow")
      BY <1>5, AbandonThrough, ReturnThrough, ToolGotoGoes
      DEF FinishEvent, MemoryRecordFinish, PostgresRecordFinish
    <2> QED
      BY <1>2, <2>1 DEF Through, GoesOn
  <1>6. CASE RecordStart(c)
    BY <1>2, <1>6, CallChanges
  <1>7. CASE PostgresFindOpen(c)
    BY <1>2, <1>7, CallChanges DEF PostgresFindOpen
  <1> QED
    BY <1>3, <1>4, <1>5, <1>6, <1>7 DEF OwnStep, RowlessStep

\* A row that somebody else found stays open.
LEMMA TargetKept ==
    ASSUME ToolTypeOK, ToolTypeOK', PlaceInv, TargetInv, NEW c \in Callers, OwnStep(c), ~overlapped'
    PROVE  TargetInv'
  <1>1. ASSUME OthersStay(c), runOf' = runOf, caller'[c].pc # "close",
               \A d \in Callers \ {c} : ToolAt(d, "close") /\ caller[d].target # 0 =>
                 caller[d].target \in OpenOf(runOf[d], SkillIn(d))'
        PROVE  TargetInv'
    <2>1. \A d \in Callers : ToolAt(d, "close")' =>
            d # c /\ ToolAt(d, "close") /\ caller'[d] = caller[d] /\ SkillIn(d)' = SkillIn(d)
      BY <1>1 DEF OthersStay, ToolAt, SkillIn
    <2> QED
      BY <1>1, <2>1 DEF TargetInv
  <1>2. ASSUME OthersStay(c), runOf' = runOf, rows' = rows, caller'[c].pc # "close"
        PROVE  TargetInv'
    <2>1. \A d \in Callers \ {c} : OpenOf(runOf[d], SkillIn(d))' = OpenOf(runOf[d], SkillIn(d))
      BY <1>2 DEF OpenOf, OthersStay, SkillIn
    <2> QED
      BY <1>1, <1>2, <2>1 DEF TargetInv
  <1>3. CASE RowlessStep(c)
    BY <1>2, <1>3, RowlessSteps
  <1>4. CASE Work(c)
    <2>1. rows' = rows /\ runOf' = runOf
      BY <1>4 DEF Work, callerOthers
    <2>2. CASE GoesOn(c, "finish")
      BY <1>2, <2>1, <2>2 DEF GoesOn
    <2>3. CASE caller' = caller
      BY <2>1, <2>3 DEF TargetInv, ToolAt, OpenOf, SkillIn
    <2> QED
      BY <1>4, <2>2, <2>3, PlainSteps
  <1>5. CASE Abandon(c) \/ FinishEvent(c)
    <2>1. Through(c) \/ GoesOn(c, "finishRow")
      BY <1>5, AbandonThrough, ReturnThrough, ToolGotoGoes DEF FinishEvent
    <2>2. rows' = rows /\ runOf' = runOf
      BY <1>5 DEF Abandon, FinishEvent
    <2> QED
      BY <1>2, <2>1, <2>2 DEF Through, GoesOn
  <1>6. CASE RecordStart(c)
    <2>1. rows' = OpenRow(c, TRUE) /\ runOf' = runOf
      BY <1>6 DEF RecordStart
    <2>2. OthersStay(c) /\ caller'[c].pc = "work"
      BY <1>6, CallChanges
    <2>3. \A d \in Callers \ {c} : ToolAt(d, "close") /\ caller[d].target # 0 =>
            caller[d].target \in OpenOf(runOf[d], SkillIn(d))'
      <3> SUFFICES ASSUME NEW d \in Callers \ {c}, ToolAt(d, "close"), caller[d].target # 0
                   PROVE  caller[d].target \in OpenOf(runOf[d], SkillIn(d))'
        OBVIOUS
      <3>1. PICK r \in Runs, s \in Skills : r = runOf[d] /\ s = SkillIn(d)
        BY OpenRowsAre
      <3>2. OpenOf(r, s) \subseteq OpenOf(r, s)'
        BY <2>1, RowOpened
      <3>3. OpenOf(runOf[d], SkillIn(d))' = OpenOf(r, s)'
        BY <2>1, <2>2, <3>1 DEF OthersStay, SkillIn
      <3> QED
        BY <3>1, <3>2, <3>3 DEF TargetInv
    <2> QED
      BY <1>1, <2>1, <2>2, <2>3
  <1>7. CASE MemoryRecordFinish(c)
    <2>1. \A d \in Callers : ~ToolAt(d, "close")
      BY <1>7 DEF MemoryRecordFinish, PlaceInv
    <2>2. Through(c) /\ runOf' = runOf
      BY <1>7, ReturnThrough DEF MemoryRecordFinish
    <2> QED
      BY <1>1, <2>1, <2>2 DEF Through
  <1>8. CASE PostgresRecordFinish(c)
    <2>1. CloseRow(c, caller[c].target) /\ caller[c].target \in Nat /\ ToolAt(c, "close")
      BY <1>8 DEF PostgresRecordFinish, ToolTypeOK, Caller
    <2>2. Through(c) /\ runOf' = runOf
      BY <1>8, ReturnThrough DEF PostgresRecordFinish
    <2>3. \A d \in Callers \ {c} : ToolAt(d, "close") /\ caller[d].target # 0 =>
            caller[d].target \in OpenOf(runOf[d], SkillIn(d))'
      <3> SUFFICES ASSUME NEW d \in Callers \ {c}, ToolAt(d, "close"), caller[d].target # 0
                   PROVE  caller[d].target \in OpenOf(runOf[d], SkillIn(d))'
        OBVIOUS
      <3>1. PICK r \in Runs, s \in Skills : r = runOf[d] /\ s = SkillIn(d)
        BY OpenRowsAre
      <3>2. caller[d].target \in OpenOf(r, s) /\ caller[d].target # caller[c].target
        BY <2>1, <3>1 DEF TargetInv
      <3>3. OpenOf(r, s) \ {caller[c].target} \subseteq OpenOf(r, s)'
        <4>1. CASE caller[c].target = 0
          <5>1. rows' = OpenRow(c, FALSE)
            BY <2>1, <4>1 DEF CloseRow
          <5> QED
            BY <5>1, ClosedRowAdded
        <4>2. CASE caller[c].target # 0
          BY <2>1, <4>2, RowClosed
        <4> QED
          BY <4>1, <4>2
      <3>4. OpenOf(runOf[d], SkillIn(d))' = OpenOf(r, s)'
        BY <2>2, <3>1 DEF Through, OthersStay, SkillIn
      <3> QED
        BY <3>2, <3>3, <3>4
    <2> QED
      BY <1>1, <2>2, <2>3 DEF Through
  <1>9. CASE PostgresFindOpen(c)
    <2>1. rows' = rows /\ runOf' = runOf /\ OthersStay(c)
      BY <1>9, CallChanges DEF PostgresFindOpen
    <2>2. /\ caller'[c].pc = "close" /\ caller'[c].skill = caller[c].skill
          /\ caller'[c].target = LatestOpen(c)
      BY <1>9, CallChanges
    <2>3. \A d \in Callers : OpenOf(runOf[d], SkillIn(d))' = OpenOf(runOf[d], SkillIn(d))
      BY <2>1, <2>2 DEF OpenOf, OthersStay, SkillIn
    <2>4. caller'[c].target # 0 => caller'[c].target \in OpenOf(runOf[c], SkillIn(c))
      BY <2>2, LatestIsOpen, OpenRowsAre
    <2>5. \A d \in Callers \ {c} : ToolAt(d, "close") /\ LatestOpen(c) # 0 =>
            caller[d].target # LatestOpen(c)
      BY <1>9 DEF PostgresFindOpen
    <2>6. \A d \in Callers \ {c} : caller'[d] = caller[d] /\ (ToolAt(d, "close")' <=> ToolAt(d, "close"))
      BY <2>1 DEF OthersStay, ToolAt
    <2>7. \A d \in Callers : ToolAt(d, "close")' /\ caller'[d].target # 0 =>
            caller'[d].target \in OpenOf(runOf[d], SkillIn(d))'
      BY <2>3, <2>4, <2>6 DEF TargetInv
    <2>8. \A d, e \in Callers : d # e /\ ToolAt(d, "close")' /\ ToolAt(e, "close")' /\ caller'[d].target # 0 =>
            caller'[d].target # caller'[e].target
      <3> SUFFICES ASSUME NEW d \in Callers, NEW e \in Callers, d # e, ToolAt(d, "close")',
                          ToolAt(e, "close")', caller'[d].target # 0,
                          caller'[d].target = caller'[e].target
                   PROVE  FALSE
        OBVIOUS
      <3>1. CASE d = c
        BY <2>2, <2>5, <2>6, <3>1
      <3>2. CASE e = c
        BY <2>2, <2>5, <2>6, <3>2
      <3>3. CASE d # c /\ e # c
        BY <2>6, <3>3 DEF TargetInv
      <3> QED
        BY <3>1, <3>2, <3>3
    <2> QED
      BY <2>7, <2>8 DEF TargetInv
  <1> QED
    BY <1>3, <1>4, <1>5, <1>6, <1>7, <1>8, <1>9 DEF OwnStep, RowlessStep

\* Who keeps a row of r and s, seen from the caller that takes a step.
LEMMA KeepersStay ==
    ASSUME NEW c \in Callers, OthersStay(c), runOf' = runOf, NEW r, NEW s
    PROVE  /\ KeepersOf(r, s) \ {c} \subseteq KeepersOf(r, s)'
           /\ KeepersOf(r, s)' \subseteq KeepersOf(r, s) \cup {c}
  BY DEF OthersStay, KeepersOf, HoldersOf, SkillIn, ToolAt

\* Losing the end of a call, or not.
LEMMA Unrecorded ==
    ASSUME ToolTypeOK, NEW c \in Callers, OthersStay(c), runOf' = runOf, EndUnrecorded(c),
           NEW r \in Runs, NEW s \in Skills
    PROVE  /\ dangling[<<r, s>>] <= dangling'[<<r, s>>]
           /\ c \in KeepersOf(r, s) => dangling'[<<r, s>>] = dangling[<<r, s>>] + 1
  <1> DEFINE p == <<r, s>>
             q == <<runOf[c], SkillIn(c)>>
  <1>1. p \in Runs \X Skills /\ q \in Runs \X Skills /\ dangling \in [Runs \X Skills -> Nat]
    BY DEF ToolTypeOK, SkillIn, Caller
  <1>2. dangling' = (IF caller[c].hasRow THEN [dangling EXCEPT ![q] = @ + 1] ELSE dangling)
    BY DEF EndUnrecorded
  <1>3. c \in KeepersOf(r, s) => caller[c].hasRow /\ p = q
    BY DEF KeepersOf, HoldersOf
  <1> HIDE DEF p, q
  <1>4. dangling[p] <= dangling'[p]
    BY <1>1, <1>2
  <1>5. caller[c].hasRow /\ p = q => dangling'[p] = dangling[p] + 1
    BY <1>1, <1>2
  <1> QED
    BY <1>3, <1>4, <1>5 DEF p

LEMMA KeptKept ==
    ASSUME ToolTypeOK, ToolTypeOK', PlaceInv, TargetInv, KeptInv, NEW c \in Callers, OwnStep(c)
    PROVE  KeptInv'
  <1> SUFFICES ASSUME NEW r \in Runs, NEW s \in Skills
               PROVE  Cardinality(OpenOf(r, s)') <= Cardinality(KeepersOf(r, s)') + dangling'[<<r, s>>]
    BY DEF KeptInv
  <1> SUFFICES Balanced(OpenOf(r, s), OpenOf(r, s)', KeepersOf(r, s), KeepersOf(r, s)',
                        dangling[<<r, s>>], dangling'[<<r, s>>])
    <2>1. /\ IsFiniteSet(OpenOf(r, s)) /\ IsFiniteSet(KeepersOf(r, s)) /\ dangling[<<r, s>>] \in Nat
          /\ Cardinality(OpenOf(r, s)) <= Cardinality(KeepersOf(r, s)) + dangling[<<r, s>>]
      BY InvocationsFinite DEF KeptInv
    <2>2. IsFiniteSet(OpenOf(r, s)') /\ IsFiniteSet(KeepersOf(r, s)') /\ dangling'[<<r, s>>] \in Nat
      <3>1. OpenOf(r, s)' \subseteq 1..Len(rows') /\ Len(rows') \in Nat
        BY DEF OpenOf, ToolTypeOK
      <3>2. IsFiniteSet(1..Len(rows'))
        BY ONLY <3>1, RowNumbersFinite
      <3>3. IsFiniteSet(Callers) /\ KeepersOf(r, s)' \subseteq Callers
        BY SkillsAssumption DEF KeepersOf, HoldersOf
      <3>4. dangling'[<<r, s>>] \in Nat
        BY DEF ToolTypeOK
      <3> QED
        BY <3>1, <3>2, <3>3, <3>4, FS_Subset
    <2> QED
      BY <2>1, <2>2, BalanceKept
  <1>1. dangling[<<r, s>>] \in Nat
    BY DEF ToolTypeOK
  <1>2. ASSUME UNCHANGED <<runOf, rows>>, OthersStay(c),
               c \notin KeepersOf(r, s) \/ c \in KeepersOf(r, s)', dangling' = dangling
        PROVE  Balanced(OpenOf(r, s), OpenOf(r, s)', KeepersOf(r, s), KeepersOf(r, s)',
                        dangling[<<r, s>>], dangling'[<<r, s>>])
    <2>1. OpenOf(r, s)' = OpenOf(r, s)
      BY <1>2 DEF OpenOf
    <2>2. KeepersOf(r, s) \subseteq KeepersOf(r, s)'
      BY <1>2, KeepersStay
    <2> QED
      BY <1>1, <1>2, <2>1, <2>2 DEF Balanced
  <1>3. CASE RowlessStep(c)
    BY <1>2, <1>3, RowlessSteps DEF KeepersOf, HoldersOf
  <1>4. CASE Work(c)
    <2>1. UNCHANGED <<rows, runOf, dangling>>
      BY <1>4 DEF Work, callerOthers, toolHistory
    <2>2. CASE GoesOn(c, "finish")
      BY <1>2, <2>1, <2>2 DEF GoesOn, KeepersOf, HoldersOf, SkillIn, ToolAt
    <2>3. CASE caller' = caller
      BY <1>2, <2>1, <2>3 DEF OthersStay, KeepersOf, HoldersOf, SkillIn, ToolAt
    <2> QED
      BY <1>4, <2>2, <2>3, PlainSteps
  <1>5. CASE FinishEvent(c) /\ ToolGoto(c, "finishRow") /\ dangling' = dangling
    <2>1. GoesOn(c, "finishRow") /\ UNCHANGED <<rows, runOf>>
      BY <1>5, ToolGotoGoes DEF FinishEvent
    <2> QED
      BY <1>2, <1>5, <2>1 DEF GoesOn, KeepersOf, HoldersOf, SkillIn, ToolAt
  <1>6. CASE (FinishEvent(c) \/ Abandon(c)) /\ EndUnrecorded(c) /\ Through(c)
    <2>1. UNCHANGED <<rows, runOf>> /\ OthersStay(c)
      BY <1>6 DEF FinishEvent, Abandon, Through
    <2>2. OpenOf(r, s)' = OpenOf(r, s)
      BY <2>1 DEF OpenOf
    <2>3. /\ dangling[<<r, s>>] <= dangling'[<<r, s>>]
          /\ c \in KeepersOf(r, s) => dangling'[<<r, s>>] = dangling[<<r, s>>] + 1
      BY <1>6, <2>1, Unrecorded
    <2>4. KeepersOf(r, s) \ {c} \subseteq KeepersOf(r, s)'
      BY <2>1, KeepersStay
    <2>5. CASE c \in KeepersOf(r, s)
      BY <1>1, <2>2, <2>3, <2>4, <2>5 DEF Balanced
    <2>6. CASE c \notin KeepersOf(r, s)
      BY <2>2, <2>3, <2>4, <2>6 DEF Balanced
    <2> QED
      BY <2>5, <2>6
  <1>7. CASE RecordStart(c)
    <2>1. rows' = OpenRow(c, TRUE) /\ UNCHANGED <<runOf, dangling>> /\ ToolAt(c, "startRow")
      BY <1>7 DEF RecordStart, toolHistory
    <2>2. /\ OthersStay(c) /\ caller'[c].pc = "work" /\ caller'[c].hasRow = TRUE
          /\ caller'[c].skill = caller[c].skill
      BY <1>7, CallChanges
    <2>3. c \notin KeepersOf(r, s)
      BY <2>1 DEF PlaceInv, KeepersOf, HoldersOf, ToolAt
    <2>4. CASE r = runOf[c] /\ s = SkillIn(c)
      <3>1. OpenOf(r, s)' = OpenOf(r, s) \cup {Len(rows) + 1}
        BY <2>1, <2>4, RowOpened
      <3>2. c \in KeepersOf(r, s)'
        BY <2>1, <2>2, <2>4 DEF KeepersOf, HoldersOf, SkillIn, ToolAt
      <3>3. KeepersOf(r, s)' = KeepersOf(r, s) \cup {c}
        BY <2>1, <2>2, <2>3, <3>2, KeepersStay
      <3>4. \E k, i : /\ k \notin KeepersOf(r, s) /\ OpenOf(r, s)' = OpenOf(r, s) \cup {i}
                      /\ KeepersOf(r, s)' = KeepersOf(r, s) \cup {k}
        BY <2>3, <3>1, <3>3
      <3>5. dangling[<<r, s>>] <= dangling'[<<r, s>>]
        BY <1>1, <2>1
      <3> QED
        BY <3>4, <3>5 DEF Balanced
    <2>5. CASE ~(r = runOf[c] /\ s = SkillIn(c))
      <3>1. OpenOf(r, s)' = OpenOf(r, s)
        BY <2>1, <2>5, RowOpened
      <3>2. KeepersOf(r, s) \subseteq KeepersOf(r, s)'
        BY <2>1, <2>2, <2>3, KeepersStay
      <3> QED
        BY <1>1, <2>1, <3>1, <3>2 DEF Balanced
    <2> QED
      BY <2>4, <2>5
  <1>8. CASE PostgresFindOpen(c)
    <2>1. UNCHANGED <<rows, runOf, dangling>>
      BY <1>8 DEF PostgresFindOpen
    <2>2. /\ OthersStay(c) /\ caller'[c].pc = "close" /\ caller'[c].target = LatestOpen(c)
          /\ caller'[c].hasRow = caller[c].hasRow /\ caller'[c].skill = caller[c].skill
      BY <1>8, CallChanges
    <2>3. CASE LatestOpen(c) # 0 \/ c \notin KeepersOf(r, s)
      BY <1>2, <2>1, <2>2, <2>3 DEF KeepersOf, HoldersOf, SkillIn, ToolAt
    <2>4. CASE LatestOpen(c) = 0 /\ c \in KeepersOf(r, s)
      <3>1. r = runOf[c] /\ s = SkillIn(c)
        BY <2>4 DEF KeepersOf, HoldersOf
      <3>2. OpenOf(r, s) = {}
        BY <2>4, <3>1, LatestIsOpen, OpenRowsAre
      <3>3. OpenOf(r, s)' = {}
        BY <2>1, <3>2 DEF OpenOf
      <3> QED
        BY <3>3 DEF Balanced
    <2> QED
      BY <2>3, <2>4
  <1>9. ASSUME NEW i \in Nat, CloseRow(c, i), Through(c), UNCHANGED <<runOf, dangling>>,
               i # 0 => i \in OpenOf(runOf[c], SkillIn(c)),
               i = 0 => OpenOf(runOf[c], SkillIn(c)) = {} \/ c \notin KeepersOf(r, s)
        PROVE  Balanced(OpenOf(r, s), OpenOf(r, s)', KeepersOf(r, s), KeepersOf(r, s)',
                        dangling[<<r, s>>], dangling'[<<r, s>>])
    <2>1. OthersStay(c)
      BY <1>9 DEF Through
    <2>2. KeepersOf(r, s) \ {c} \subseteq KeepersOf(r, s)'
      BY <1>9, <2>1, KeepersStay
    <2>3. c \in KeepersOf(r, s) => r = runOf[c] /\ s = SkillIn(c)
      BY DEF KeepersOf, HoldersOf
    <2>4. CASE i = 0
      <3>1. OpenOf(r, s)' = OpenOf(r, s)
        BY <1>9, <2>4, ClosedRowAdded DEF CloseRow
      <3>2. OpenOf(r, s) = {} \/ c \notin KeepersOf(r, s)
        BY <1>9, <2>3, <2>4
      <3>3. CASE OpenOf(r, s) = {}
        BY <3>1, <3>3 DEF Balanced
      <3>4. CASE c \notin KeepersOf(r, s)
        BY <1>1, <1>9, <2>2, <3>1, <3>4 DEF Balanced
      <3> QED
        BY <3>2, <3>3, <3>4
    <2>5. CASE i # 0
      <3>1. OpenOf(r, s)' = OpenOf(r, s) \ {i}
        BY <1>9, <2>5, RowClosed
      <3>2. CASE r = runOf[c] /\ s = SkillIn(c)
        BY <1>1, <1>9, <2>2, <2>5, <3>1, <3>2 DEF Balanced
      <3>3. CASE c \notin KeepersOf(r, s)
        BY <1>1, <1>9, <2>2, <3>1, <3>3 DEF Balanced
      <3> QED
        BY <2>3, <3>2, <3>3
    <2> QED
      BY <2>4, <2>5
  <1>10. CASE MemoryRecordFinish(c)
    <2>1. CloseRow(c, LatestOpen(c)) /\ UNCHANGED <<runOf, dangling>> /\ Through(c)
      BY <1>10, ReturnThrough DEF MemoryRecordFinish, toolHistory
    <2> QED
      BY <1>9, <2>1, LatestIsOpen, OpenRowsAre
  <1>11. CASE PostgresRecordFinish(c)
    <2>1. CloseRow(c, caller[c].target) /\ UNCHANGED <<runOf, dangling>> /\ Through(c)
          /\ ToolAt(c, "close") /\ caller[c].target \in Nat
      BY <1>11, ReturnThrough DEF PostgresRecordFinish, toolHistory, ToolTypeOK, Caller
    <2>2. caller[c].target = 0 => c \notin KeepersOf(r, s)
      BY <2>1 DEF KeepersOf
    <2>3. caller[c].target # 0 => caller[c].target \in OpenOf(runOf[c], SkillIn(c))
      BY <2>1 DEF TargetInv
    <2> QED
      BY <1>9, <2>1, <2>2, <2>3
  <1>12. FinishEvent(c) \/ Abandon(c) =>
           \/ FinishEvent(c) /\ ToolGoto(c, "finishRow") /\ dangling' = dangling
           \/ EndUnrecorded(c) /\ Through(c)
    BY ReturnThrough, AbandonThrough DEF FinishEvent, Abandon
  <1> QED
    BY <1>3, <1>4, <1>5, <1>6, <1>7, <1>8, <1>10, <1>11, <1>12 DEF OwnStep, RowlessStep

-----------------------------------------------------------------------------
ToolInv == ToolTypeOK /\ RateInv /\ OnlyAllowedDialed /\ QuotaInv /\ RowsInv

LEMMA ToolInvInitially == ToolInit => ToolInv
  <1> SUFFICES ASSUME ToolInit PROVE ToolInv
    OBVIOUS
  <1>1. ToolTypeOK
    BY ToolTypesInitially
  <1>2. RateInv
    <2>1. \A s \in Skills : Len(admitted[s]) = 0 /\ window[s] = NoWindow
      BY DEF ToolInit, RequestInit
    <2>2. now = 0 /\ 0 \div Minute = 0
      BY RequestBounds DEF ToolInit, RequestInit
    <2>3. \A s \in Skills : RateLimit[s] \in Nat
      BY SkillsAssumption
    <2> QED
      BY <2>1, <2>2, <2>3 DEF RateInv, RateOK, WindowsApart, LocalOK, RedisOK, NoWindow
  <1>3. OnlyAllowedDialed
    BY DEF ToolInit, RequestInit, OnlyAllowedDialed
  <1>4. QuotaInv
    <2>1. \A c \in Callers : caller[c].pc = "waiting"
      BY DEF ToolInit, NewCaller
    <2>2. CallsOf(runUsage) = granted /\ forgotten = 0
      BY DEF ToolInit, CallsOf, NoUsage
    <2>3. Used = OverRuns(granted) /\ \A r \in Runs : runUsage[r].calls = granted[r]
      BY <2>2 DEF Used, ToolInit, NoUsage
    <2>4. OverRuns(granted) = 0
      <3>1. granted \in [Runs -> Nat] /\ \A r \in Runs : granted[r] = 0
        BY DEF ToolInit
      <3> QED
        BY <3>1, ToolsAssumption, OverRunsIsTotal, TotalOfZeros
    <2>5. MaxToolCallsPerDay \in Nat
      BY ToolsAssumption
    <2> QED
      BY <2>1, <2>2, <2>3, <2>4, <2>5 DEF QuotaInv, DecidedInv, GrantedInv, ToolAt
  <1>5. RowsInv
    <2>1. \A c \in Callers : caller[c].pc = "waiting" /\ caller[c].hasRow = FALSE
      BY DEF ToolInit, NewCaller
    <2>2. \A r \in Runs, s \in Skills : Cardinality(OpenOf(r, s)) = 0
      <3>1. \A r \in Runs, s \in Skills : OpenOf(r, s) = {}
        BY DEF ToolInit, OpenOf
      <3> QED
        BY <3>1, FS_EmptySet
    <2>3. KeptInv
      <3> SUFFICES ASSUME NEW r \in Runs, NEW s \in Skills
                   PROVE  Cardinality(OpenOf(r, s)) <= Cardinality(KeepersOf(r, s)) + dangling[<<r, s>>]
        BY DEF KeptInv
      <3>1. Cardinality(KeepersOf(r, s)) \in Nat /\ dangling[<<r, s>>] \in Nat
        BY <1>1, InvocationsFinite, FS_CardinalityType
      <3> QED
        BY <2>2, <3>1
    <2> QED
      BY <2>1, <2>3 DEF RowsInv, PlaceInv, TargetInv, ToolAt
  <1> QED
    BY <1>1, <1>2, <1>3, <1>4, <1>5 DEF ToolInv

LEMMA ToolInvKept == ToolInv /\ [ToolNext]_toolVars => ToolInv'
  <1> SUFFICES ASSUME ToolInv, [ToolNext]_toolVars PROVE ToolInv'
    OBVIOUS
  <1>1. ToolTypeOK /\ ToolTypeOK'
    BY ToolTypesKept DEF ToolInv
  <1>2. RateInv'
    BY <1>1, RateKept DEF ToolInv, RateInv
  <1>3. OnlyAllowedDialed'
    BY <1>1, DialedKept DEF ToolInv
  <1>4. ASSUME UNCHANGED ownVars PROVE QuotaInv' /\ RowsInv'
    <2>1. QuotaInv'
      BY <1>4, QuotaUntouched DEF ToolInv, ownVars, toolHistory
    <2>2. RowsInv'
      BY <1>4 DEF ownVars, toolHistory, ToolInv, RowsInv, PlaceInv, TargetInv, KeptInv, OpenOf, KeepersOf,
                  HoldersOf, SkillIn, ToolAt
    <2> QED
      BY <2>1, <2>2
  <1>5. ASSUME NEW c \in Callers, OwnStep(c) PROVE QuotaInv' /\ RowsInv'
    <2>1. QuotaInv'
      BY <1>1, <1>5, QuotaStepKept DEF ToolInv
    <2>2. PlaceInv /\ PlaceInv'
      BY <1>1, <1>5, PlaceKept DEF ToolInv, RowsInv
    <2>3. ~overlapped' => ~overlapped
      BY <1>5 DEF OwnStep, StartAttempt, CallTool, EndLoop, Abandon, ReserveCheckAttempt, ReserveDecide,
                  GetRunUsage, ReserveSave, StartEvent, RecordStart, Work, FinishEvent, MemoryRecordFinish,
                  PostgresFindOpen, PostgresRecordFinish, CompleteCheckAttempt, CompleteSaveUsage, CompleteFinish,
                  callerOthers, toolHistory
    <2>4. ~overlapped' => TargetInv' /\ KeptInv'
      BY <1>1, <1>5, <2>2, <2>3, TargetKept, KeptKept DEF ToolInv, RowsInv
    <2> QED
      BY <2>1, <2>2, <2>4 DEF RowsInv
  <1>6. QuotaInv' /\ RowsInv'
    BY <1>4, <1>5, NextSteps DEF RequestOf, toolVars
  <1> QED
    BY <1>1, <1>2, <1>3, <1>6 DEF ToolInv

LEMMA ToolInvariance == ToolSpec => []ToolInv
  BY ToolInvInitially, ToolInvKept, PTL DEF ToolSpec

\* Every variable of the tool calls and their requests has its type, whatever the quotas,
\* the limits, the faults and the attempts that take runs over from one another
\* (runtimeTool.InvokableRun and the handlers it calls).
THEOREM ToolTypeCorrect == ToolSpec => []ToolTypeOK
  <1>1. ToolInv => ToolTypeOK
    BY DEF ToolInv
  <1> QED
    BY <1>1, ToolInvariance, PTL

\* No skill's request reaches an address that skills must not reach, however the answers of
\* the DNS change between the check of the host, the dial and the next attempt
\* (rejectUnsafeResolvedHTTPHost, ssrfGuardedDialer.DialContext).
THEOREM DialsAllowed == ToolSpec => []OnlyAllowedDialed
  <1>1. ToolInv => OnlyAllowedDialed
    BY DEF ToolInv
  <1> QED
    BY <1>1, ToolInvariance, PTL

\* In either limiter, at any rate, length of a minute and number of concurrent calls: no
\* minute, wherever it begins, sees more admitted calls of a skill than two windows allow,
\* although the windows of Redis begin with the clock, those of the local limiter with a
\* call, and a failed call of Redis may count one that is denied
\* (LocalSkillRateLimiter.Allow, RedisSkillRateLimiter.Allow).
THEOREM RatesKept == ToolSpec => []AdmittedWithinLimit
  <1>1. ToolInv => AdmittedWithinLimit
    <2> SUFFICES ASSUME ToolInv, NEW s \in Skills, RateLimit[s] > 0, NEW i \in DOMAIN admitted[s],
                        i + 2 * RateLimit[s] \in DOMAIN admitted[s]
                 PROVE  admitted[s][i + 2 * RateLimit[s]] - admitted[s][i] >= Minute
      BY DEF AdmittedWithinLimit
    <2>1. DOMAIN admitted[s] = 1..Len(admitted[s]) /\ Len(admitted[s]) \in Nat
      BY DEF ToolInv, ToolTypeOK, RequestTypeOK
    <2>2. WindowsApart(admitted[s], RateLimit[s])
      BY DEF ToolInv, RateInv, RateOK
    <2> QED
      BY <2>1, <2>2 DEF WindowsApart
  <1> QED
    BY <1>1, ToolInvariance, PTL

\* The reservations granted stay within max_tool_calls_per_day and what completes have
\* given back, and the usage of a run is what it was granted until a complete replaces it,
\* although the sum, the row and its replacement are three calls and a complete may fail
\* after it has replaced the row, with the run still under way, so long as nothing wrote a
\* usage between the first and the last of the three (internalReserveToolQuota,
\* internalCompleteRun).
THEOREM ToolQuotaKept == ToolSpec => []QuotaKept
  <1>1. ToolInv => QuotaKept
    BY DEF ToolInv, QuotaInv, GrantedInv, QuotaKept
  <1> QED
    BY <1>1, ToolInvariance, PTL

\* A run's invocations of a skill that are shown as under way are no more than its calls that
\* have a row and those whose end was lost or refused, although an end closes the latest
\* open row of run and skill, whoever opened it (RecordSkillInvocation in both stores).
THEOREM RowsClosed == ToolSpec => []InvocationRowsClosed
  <1>1. ToolInv => InvocationRowsClosed
    <2> SUFFICES ASSUME ToolInv, ~overlapped, NEW r \in Runs, NEW s \in Skills
                 PROVE  Cardinality(OpenOf(r, s)) <= Cardinality(HoldersOf(r, s)) + dangling[<<r, s>>]
      BY DEF InvocationRowsClosed, OpenOf, HoldersOf
    <2>1. /\ Cardinality(OpenOf(r, s)) <= Cardinality(KeepersOf(r, s)) + dangling[<<r, s>>]
          /\ IsFiniteSet(OpenOf(r, s)) /\ IsFiniteSet(HoldersOf(r, s)) /\ dangling[<<r, s>>] \in Nat
      <3>1. IsFiniteSet(Callers) /\ HoldersOf(r, s) \subseteq Callers
        BY SkillsAssumption DEF HoldersOf
      <3> QED
        BY <3>1, InvocationsFinite, FS_Subset DEF ToolInv, RowsInv, KeptInv
    <2>2. Cardinality(KeepersOf(r, s)) <= Cardinality(HoldersOf(r, s))
      <3>1. KeepersOf(r, s) \subseteq HoldersOf(r, s)
        BY DEF KeepersOf
      <3> QED
        BY <2>1, <3>1, FS_Subset
    <2>3. /\ Cardinality(OpenOf(r, s)) \in Nat /\ Cardinality(KeepersOf(r, s)) \in Nat
          /\ Cardinality(HoldersOf(r, s)) \in Nat
      BY <2>1, InvocationsFinite, FS_CardinalityType DEF ToolInv
    <2> QED
      BY <2>1, <2>2, <2>3
  <1> QED
    BY <1>1, ToolInvariance, PTL
=============================================================================
