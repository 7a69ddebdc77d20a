------------------------------ MODULE RunQuota ------------------------------
(***************************************************************************)
(* The run quota of one user in one project, counted in Redis              *)
(* (QUOTA_COUNTER_MODE = redis): the limits that createMessage enforces    *)
(* before it creates a run, by reserving, and the release of a reservation *)
(* by whoever finishes the run, in ReleasingRepository.                    *)
(*                                                                         *)
(* Each step is one call of the store or of Redis. The run that a create   *)
(* makes has the name of the create. The model stays within one hour and   *)
(* one day, so that each counter is one Redis key, and no key expires.     *)
(***************************************************************************)
EXTENDS Integers, FiniteSets, FiniteSetsExt

CONSTANTS
    Creates,            \* requests that create a run
    Finishers,          \* requests that finish one
    MaxConcurrentRuns,  \* the policy; 0 turns a limit off
    MaxRunsPerHour,
    MaxModelTokens,
    TokenReservation,   \* tokens reserved for a run; 0 reserves none
    TokenUsages,        \* what a run may turn out to have used
    FaultKinds,         \* what may fail
    MaxFaults           \* bound on how often

ASSUME RequestsAssumption == IsFiniteSet(Creates) /\ Creates \cap Finishers = {}
ASSUME LimitsAssumption ==
    /\ {MaxConcurrentRuns, MaxRunsPerHour, MaxModelTokens, TokenReservation, MaxFaults}
         \subseteq Nat
    /\ TokenUsages \subseteq Nat
    /\ FaultKinds \subseteq {"redis", "reply", "store", "crash"}

VARIABLES
    status,    \* the status of each run, "none" before it is created
    usage,     \* the tokens of each run's usage row
    counter,   \* the Redis counters
    marker,    \* the Redis marker of each run: the keys that it has reserved
    handler,   \* the state of each request
    faults

vars == <<status, usage, counter, marker, handler, faults>>

Handlers == Creates \cup Finishers

\* The Redis counters, in the order in which they are reserved and rolled back.
Keys == {"active", "hour", "tokens"}

Limit(k) == CASE k = "active" -> MaxConcurrentRuns
              [] k = "hour" -> MaxRunsPerHour
              [] k = "tokens" -> MaxModelTokens

Cost(k) == IF k = "tokens" THEN TokenReservation ELSE 1

Finished == {"succeeded", "failed", "canceled"}

PCs == {"idle", "check"} \cup Keys \cup {"add", "commit", "dispatch", "dispatching"}
       \cup {"saveUsage", "before", "update", "usage", "marker", "delete"}
       \cup {"rollback", "settle", "accepted", "done"}

\* A request and its run (a finisher that has not chosen one has its own name
\* there). The second row is the redisReservation of a create, and whether it has
\* handed its run over. The last two belong to ReleasingRepository and to what is
\* left to pay back: the keys owed, the tokens used, and where the handler goes
\* from there.
Handler == [pc : PCs, run : Handlers, wanted : Finished,
            reserved : SUBSET Keys, committed : BOOLEAN, handed : BOOLEAN,
            before : BOOLEAN, owed : SUBSET Keys, used : Nat,
            then : {"rollback", "done"}]

Init ==
    /\ status = [c \in Creates |-> "none"]
    /\ usage = [c \in Creates |-> 0]
    /\ counter = [k \in Keys |-> 0]
    /\ marker = [c \in Creates |-> {}]
    /\ handler = [h \in Handlers |->
         [pc |-> "idle", run |-> h, wanted |-> "failed", reserved |-> {},
          committed |-> FALSE, handed |-> FALSE, before |-> FALSE, owed |-> {}, used |-> 0,
          then |-> "done"]]
    /\ faults = 0

-----------------------------------------------------------------------------
(* Steps *)

At(h, pc) == handler[h].pc = pc

Goto(h, pc) == handler' = [handler EXCEPT ![h].pc = pc]

Fault(kind) ==
    /\ kind \in FaultKinds
    /\ faults < MaxFaults
    /\ faults' = faults + 1

\* A call of Redis takes effect and returns, takes effect but its reply is lost,
\* or does not take effect.
Redis(Effect, NoEffect, Returns, Fails) ==
    \/ Effect /\ Returns /\ UNCHANGED faults
    \/ Effect /\ Fails /\ Fault("reply")
    \/ NoEffect /\ Fails /\ Fault("redis")

Add(k, amount) == counter' = [counter EXCEPT ![k] = @ + amount]

TokensOf(runs) == MapThenSumSet(LAMBDA c : usage[c], runs)

-----------------------------------------------------------------------------
(* createMessage *)

Receive(c) ==
    /\ At(c, "idle")
    /\ Goto(c, "check")
    /\ UNCHANGED <<status, usage, counter, marker, faults>>

\* reserveRunQuota compares the tokens of the usage rows with the limit.
OverQuota == MaxModelTokens > 0 /\ TokensOf(Creates) >= MaxModelTokens

\* A failed query counts no tokens.
Check(c) ==
    /\ At(c, "check")
    /\ \/ OverQuota /\ Goto(c, "done") /\ UNCHANGED faults
       \/ ~OverQuota /\ Goto(c, "active") /\ UNCHANGED faults
       \/ OverQuota /\ Goto(c, "active") /\ Fault("store")
    /\ UNCHANGED <<status, usage, counter, marker>>

AfterKey(k) == CASE k = "active" -> "hour" [] k = "hour" -> "tokens" [] k = "tokens" -> "add"

Within(k, current) == current <= Limit(k)

\* ReserveRunWithHint increments a counter, gives it a time to live, and compares.
Reserve(c) == \E k \in Keys :
    LET reserved == [handler[c] EXCEPT !.reserved = @ \cup {k}]
        set(h) == handler' = [handler EXCEPT ![c] = h]
    IN
    /\ At(c, k)
    /\ IF Limit(k) = 0 \/ Cost(k) = 0
       THEN Goto(c, AfterKey(k)) /\ UNCHANGED <<counter, faults>>
       ELSE \/ Redis(Add(k, Cost(k)), UNCHANGED counter,
                     set([reserved EXCEPT !.pc =
                            IF Within(k, counter[k] + Cost(k)) THEN AfterKey(k)
                                                               ELSE "rollback"]),
                     Goto(c, "rollback"))
            \/ /\ Add(k, Cost(k))
               /\ set([reserved EXCEPT !.pc = "rollback"])
               /\ Fault("redis")
    /\ UNCHANGED <<status, usage, marker>>

AddUserMessage(c) ==
    /\ At(c, "add")
    /\ \/ /\ status' = [status EXCEPT ![c] = "queued"]
          /\ Goto(c, "commit")
          /\ UNCHANGED faults
       \/ /\ Fault("store")
          /\ Goto(c, "rollback")
          /\ UNCHANGED status
    /\ UNCHANGED <<usage, counter, marker>>

\* Both failures of createMessage: the run is failed, through ReleasingRepository,
\* then the deferred function rolls the reservation back.
FailRun(h) == [h EXCEPT !.pc = "before", !.wanted = "failed", !.then = "rollback"]

\* A finished run still counts for its hour.
KeptByMarker(reserved) == reserved \ {"hour"}

\* Commit writes the marker, by which the reservation is released, with SETNX.
Commit(c) ==
    LET kept == KeptByMarker(handler[c].reserved) IN
    /\ At(c, "commit")
    /\ IF kept = {}
       THEN Goto(c, "dispatch") /\ UNCHANGED <<marker, faults>>
       ELSE Redis(marker' = [marker EXCEPT ![c] = kept], UNCHANGED marker,
                  handler' = [handler EXCEPT ![c].pc = "dispatch", ![c].committed = TRUE],
                  handler' = [handler EXCEPT ![c] = FailRun(@)])
    /\ UNCHANGED <<status, usage, counter>>

\* Dispatch hands the run over, and may fail before or after it has.
HandOver(c) ==
    /\ At(c, "dispatch")
    /\ handler' = [handler EXCEPT ![c].pc = "dispatching", ![c].handed = TRUE]
    /\ UNCHANGED <<status, usage, counter, marker, faults>>

DispatchReturns(c) ==
    /\ handler[c].pc \in {"dispatch", "dispatching"}
    /\ \/ At(c, "dispatching") /\ Goto(c, "accepted")
       \/ handler' = [handler EXCEPT ![c] = FailRun(@)]
    /\ UNCHANGED <<status, usage, counter, marker, faults>>

\* Faulty: a rollback pays back what the finisher of the run has paid back.
OwedByRollbackAlways(reserved, removed) == reserved

\* What a rollback pays back, once it knows whether the marker was still there.
OwedByRollback(reserved, removed) == IF removed THEN reserved ELSE reserved \cap {"hour"}

\* Rollback: only the one who removes the marker may release what it stands for.
Rollback(c) ==
    LET h == handler[c]
        pay(removed) ==
          handler' = [handler EXCEPT ![c] =
            [h EXCEPT !.pc = "settle", !.owed = OwedByRollback(h.reserved, removed),
                      !.used = 0, !.then = "done"]]
    IN
    /\ At(c, "rollback")
    /\ IF ~h.committed
       THEN pay(TRUE) /\ UNCHANGED <<marker, faults>>
       ELSE Redis(marker' = [marker EXCEPT ![c] = {}], UNCHANGED marker,
                  pay(marker[c] # {}), pay(FALSE))
    /\ UNCHANGED <<status, usage, counter>>

-----------------------------------------------------------------------------
(* Finishing a run *)

\* A runtime that has been handed a run completes it, having measured its usage;
\* anyone who sees the run may cancel it.
Finish(f) == \E run \in Creates :
    LET start(pc, wanted, used) ==
          handler' = [handler EXCEPT ![f] = [@ EXCEPT !.pc = pc, !.run = run,
                                                      !.wanted = wanted, !.used = used]]
    IN
    /\ At(f, "idle")
    /\ status[run] # "none"
    /\ \/ /\ handler[run].handed
          /\ status[run] \notin Finished
          /\ \E tokens \in TokenUsages : start("saveUsage", "succeeded", tokens)
       \/ start("before", "canceled", 0)
    /\ UNCHANGED <<status, usage, counter, marker, faults>>

SaveRunUsage(f) ==
    /\ At(f, "saveUsage")
    /\ usage' = [usage EXCEPT ![handler[f].run] = handler[f].used]
    /\ Goto(f, "before")
    /\ UNCHANGED <<status, counter, marker, faults>>

\* ReleasingRepository.UpdateRunStatus reads the run, updates it, and releases
\* its reservation if that finished it. A run it cannot read counts as unfinished.
GetBefore(h) ==
    LET before(b) == handler' = [handler EXCEPT ![h].pc = "update", ![h].before = b] IN
    /\ At(h, "before")
    /\ \/ before(status[handler[h].run] \in Finished) /\ UNCHANGED faults
       \/ before(FALSE) /\ Fault("store")
    /\ UNCHANGED <<status, usage, counter, marker>>

Update(h) ==
    LET run == handler[h].run IN
    /\ At(h, "update")
    /\ \/ /\ status' = [status EXCEPT ![run] = IF @ \in Finished THEN @ ELSE handler[h].wanted]
          /\ Goto(h, IF handler[h].before THEN handler[h].then ELSE "usage")
          /\ UNCHANGED faults
       \/ /\ Fault("store")
          /\ Goto(h, handler[h].then)
          /\ UNCHANGED status
    /\ UNCHANGED <<usage, counter, marker>>

\* The project and the usage are read after the update. Without the project
\* nothing is released; without the usage it counts as none.
ReadUsage(h) ==
    LET used(n) == handler' = [handler EXCEPT ![h].pc = "marker", ![h].used = n] IN
    /\ At(h, "usage")
    /\ \/ used(usage[handler[h].run]) /\ UNCHANGED faults
       \/ used(0) /\ Fault("store")
       \/ Goto(h, handler[h].then) /\ Fault("store")
    /\ UNCHANGED <<status, usage, counter, marker>>

\* ReleaseRun reads the marker ...
GetMarker(h) ==
    LET kept == marker[handler[h].run] IN
    /\ At(h, "marker")
    /\ \/ /\ handler' = [handler EXCEPT ![h].pc = IF kept = {} THEN handler[h].then ELSE "delete",
                                        ![h].owed = kept]
          /\ UNCHANGED faults
       \/ Goto(h, handler[h].then) /\ Fault("redis")
    /\ UNCHANGED <<status, usage, counter, marker>>

\* Faulty: whoever has read the marker releases what it stands for.
DeleteMarkerAlways(h) ==
    /\ At(h, "delete")
    /\ marker' = [marker EXCEPT ![handler[h].run] = {}]
    /\ Goto(h, "settle")
    /\ UNCHANGED <<status, usage, counter, faults>>

\* ... and deletes it: of several finishers one deletes it, and releases.
DeleteMarker(h) ==
    LET run == handler[h].run IN
    /\ At(h, "delete")
    /\ Redis(marker' = [marker EXCEPT ![run] = {}], UNCHANGED marker,
             Goto(h, IF marker[run] = {} THEN handler[h].then ELSE "settle"),
             Goto(h, handler[h].then))
    /\ UNCHANGED <<status, usage, counter>>

FirstKey(keys) == CHOOSE k \in keys : \/ k = "active"
                                      \/ k = "hour" /\ "active" \notin keys
                                      \/ keys = {k}

\* Faulty: the tokens that were used are taken off with the reservation.
AmountNothingUsed(h, k) == -Cost(k)

\* What is added to a counter: a run and its reservation are taken off it, the
\* tokens that were used stay.
Amount(h, k) == IF k = "tokens" THEN handler[h].used - TokenReservation ELSE -1

\* Rollback and ReleaseRun go on after an error with the next counter.
Settle(h) ==
    LET k == FirstKey(handler[h].owed)
        paid == handler' = [handler EXCEPT ![h].owed = @ \ {k}]
    IN
    /\ At(h, "settle")
    /\ IF handler[h].owed = {}
       THEN Goto(h, handler[h].then) /\ UNCHANGED <<counter, faults>>
       ELSE Redis(Add(k, Amount(h, k)), UNCHANGED counter, paid, paid)
    /\ UNCHANGED <<status, usage, marker>>

\* The control plane that serves the request dies.
Crash(h) ==
    /\ handler[h].pc \notin {"idle", "accepted", "done"}
    /\ Fault("crash")
    /\ Goto(h, "done")
    /\ UNCHANGED <<status, usage, counter, marker>>

-----------------------------------------------------------------------------
Next ==
    \/ \E c \in Creates :
         \/ Receive(c) \/ Check(c) \/ Reserve(c) \/ AddUserMessage(c) \/ Commit(c)
         \/ HandOver(c) \/ DispatchReturns(c) \/ Rollback(c)
    \/ \E f \in Finishers : Finish(f) \/ SaveRunUsage(f)
    \/ \E h \in Handlers :
         \/ GetBefore(h) \/ Update(h) \/ ReadUsage(h)
         \/ GetMarker(h) \/ DeleteMarker(h) \/ Settle(h) \/ Crash(h)

Spec == Init /\ [][Next]_vars

-----------------------------------------------------------------------------
(* Properties *)

TypeOK ==
    /\ status \in [Creates -> {"none", "queued"} \cup Finished]
    /\ usage \in [Creates -> Nat]
    /\ counter \in [Keys -> Int]
    /\ marker \in [Creates -> SUBSET (Keys \ {"hour"})]
    /\ handler \in [Handlers -> Handler]
    /\ faults \in 0..MaxFaults

Created == {c \in Creates : status[c] # "none"}
Active == Created \ {c \in Creates : status[c] \in Finished}

\* The unfinished runs but those whose create has failed: if even the update of
\* their status failed, they stay queued for good.
Running == {c \in Active :
    \/ marker[c] # {}
    \/ handler[c].pc \in {"commit", "dispatch", "dispatching", "accepted"}}

\* The user never has more runs in progress, nor more runs accepted within the
\* hour, than the policy allows, whoever finishes, cancels or fails in the meantime
\* (createMessage; docs/API.md on max_concurrent_runs and max_runs_per_hour).
LimitsHold ==
    /\ MaxConcurrentRuns > 0 => Cardinality(Running) <= MaxConcurrentRuns
    /\ MaxRunsPerHour > 0 =>
         Cardinality({c \in Creates : At(c, "accepted")}) <= MaxRunsPerHour

\* The creates whose reservation of k nobody has paid back: it is still theirs
\* alone, or in the marker of their run, or owed by a handler.
Holding(k) == {c \in Creates :
    \/ k \in marker[c]
    \/ \E h \in Handlers : handler[h].run = c /\ At(h, "settle") /\ k \in handler[h].owed
    \/ /\ k \in handler[c].reserved
       /\ ~handler[c].committed
       /\ handler[c].pc \notin {"settle", "done"}}

\* No reservation is paid back twice: the counter of concurrent runs never falls
\* below the reservations that are still held, although Rollback and any number of
\* finishers may release the same run, and Redis calls fail in between
\* (redisReservation.Rollback, RedisLimiter.ReleaseRun).
HeldIsCounted == counter["active"] >= Cardinality(Holding("active"))

\* The state that a user's counters settle to: no call has failed, and every request has
\* been answered, or has not been received.
AllAnswered == faults = 0 /\ \A h \in Handlers : handler[h].pc \in {"idle", "accepted", "done"}

CountsTokens == MaxModelTokens > 0 /\ TokenReservation > 0

\* Every run was accepted and not canceled, and was completed by one request at most.
Plain ==
    /\ \A c \in Created : At(c, "accepted") /\ status[c] # "canceled"
    /\ \A f, g \in Finishers :
         /\ handler[f].wanted = "succeeded" /\ handler[g].wanted = "succeeded"
         /\ handler[f].run = handler[g].run
         => f = g

\* When all requests have been answered and no call has failed, the counter of
\* concurrent runs stands for the unfinished runs and for those whose marker was
\* written after they had finished; and a finished run has left behind the tokens
\* of its usage row, unless it was canceled, its dispatch failed, or two requests
\* completed it with different usage (docs/OPERATIONS.md: the count is released when
\* the run finishes, and a success is settled by its usage).
SettledAtEnd ==
    AllAnswered =>
        /\ MaxConcurrentRuns > 0 =>
             counter["active"] = Cardinality({c \in Created : c \in Active \/ marker[c] # {}})
        /\ CountsTokens /\ Plain =>
             counter["tokens"] = TokenReservation * Cardinality(Active)
                                 + TokensOf(Created \ Active)
=============================================================================
