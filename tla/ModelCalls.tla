----------------------------- MODULE ModelCalls -----------------------------
(***************************************************************************)
(* The calls that the runs of a runtime make to the model: the limiter of  *)
(* OperationalChatModel, the attempts of RetryTransport, the fallback to a *)
(* second provider, and the health probe.                                  *)
(*                                                                         *)
(* The providers, their limiters and trackers are one for the whole        *)
(* process. A message costs one token.                                     *)
(***************************************************************************)
EXTENDS Integers, FiniteSets, Sequences

CONSTANTS
    Runners,            \* places for a run: each executes one run after the other
    Prober,             \* the goroutine of StartHealthProbeLoop
    MaxConcurrent,      \* MODEL_MAX_CONCURRENT_REQUESTS
    MaxAttempts,        \* of RetryPolicy
    Minute,             \* ticks in a minute
    MaxTicks,           \* bound on time
    Scenarios           \* values of MODEL_REQUESTS_PER_MINUTE, 0 for no limit, with bounds: how
                        \* often time passes, requests fail, contexts end and calls start

Callers == Runners \cup {Prober}
Targets == {"primary", "fallback"}

ASSUME CallersAssumption == IsFiniteSet(Runners) /\ Prober \notin Runners
ASSUME LimitsAssumption == {MaxConcurrent, MaxAttempts, Minute} \subseteq Nat \ {0}
ASSUME ModelBounds ==
    /\ MaxTicks \in Nat
    /\ Scenarios \subseteq [requestsPerMinute : Nat,
            budget : [ticks : 0..MaxTicks, faults : Nat, ends : Nat, calls : Nat]]

VARIABLES
    requestsPerMinute, \* of both limiters, fixed from the start
    now,
    window,       \* the limiter's window of each target
    slots,        \* the limiter's channel of each target
    call,
    context,      \* of each run, or of each probe
    tokens,       \* of the UsageTracker of each target
    budget,       \* what is left of the bounds
    \* The rest is history.
    admitted,     \* the ticks at which each limiter admitted its calls, in order
    answers       \* the messages that the runs were given

modelVars == <<requestsPerMinute, now, window, slots, call, context, tokens, budget, admitted, answers>>

\* result: "transient" is a retryable ProviderError that the caller of the target gets to
\* see; other errors are "failed".
Call == [pc : {"idle", "wait", "window", "request", "pause", "returned", "done"},
         target : Targets, attempt : 1..MaxAttempts, result : {"ok", "transient", "failed"}]

NoCall == [pc |-> "idle", target |-> "primary", attempt |-> 1, result |-> "ok"]

ModelInit ==
    /\ \E s \in Scenarios : requestsPerMinute = s.requestsPerMinute /\ budget = s.budget
    /\ now = 0
    /\ window = [t \in Targets |-> [start |-> 0, used |-> 0]]
    /\ slots = [t \in Targets |-> 0]
    /\ call = [c \in Callers |-> NoCall]
    /\ context = [c \in Callers |-> "live"]
    /\ tokens = [t \in Targets |-> 0]
    /\ admitted = [t \in Targets |-> <<>>]
    /\ answers = 0

CallAt(c, pc) == call[c].pc = pc

CallGoto(c, pc) == call' = [call EXCEPT ![c].pc = pc]

TargetOf(c) == call[c].target

Spend(what) == budget[what] > 0 /\ budget' = [budget EXCEPT ![what] = @ - 1]

\* What the engine sees, and what the limiter and the transport keep.
engineVars == <<requestsPerMinute, answers>>
providerVars == <<now, window, slots, tokens, admitted>>

-----------------------------------------------------------------------------
(* Environment *)

TimePasses ==
    /\ Spend("ticks")
    /\ now' = now + 1
    /\ UNCHANGED <<window, slots, call, context, tokens, admitted, engineVars>>

\* The timeout of a run or a probe passes, or the worker cancels a run.
EndContext(c) ==
    /\ ~CallAt(c, "idle") /\ context[c] = "live"
    /\ Spend("ends")
    /\ \E end \in {"expired", "canceled"} :
         /\ c = Prober => end = "expired"
         /\ context' = [context EXCEPT ![c] = end]
    /\ UNCHANGED <<call, providerVars, engineVars>>

-----------------------------------------------------------------------------
(* OperationalChatModel and LocalRateLimiter *)

\* The target returns to its caller, and what the call occupied is released.
Returns(c, result) ==
    /\ call' = [call EXCEPT ![c].pc = "returned", ![c].result = result]
    /\ slots' = [slots EXCEPT ![TargetOf(c)] = @ - 1]

AcquireSlot(c) ==
    /\ CallAt(c, "wait") /\ slots[TargetOf(c)] < MaxConcurrent
    /\ slots' = [slots EXCEPT ![TargetOf(c)] = @ + 1]
    /\ CallGoto(c, "window")
    /\ UNCHANGED <<now, window, context, tokens, budget, admitted, engineVars>>

\* Faulty: a wait that is given up releases a slot all the same.
StopWaitingReleasing(c) ==
    /\ CallAt(c, "wait") /\ context[c] # "live"
    /\ call' = [call EXCEPT ![c].pc = "returned", ![c].result = "failed"]
    /\ slots' = [slots EXCEPT ![TargetOf(c)] = IF @ = 0 THEN 0 ELSE @ - 1]
    /\ UNCHANGED <<now, window, tokens, admitted, context, budget, engineVars>>

\* Only a context that has ended ends the wait. Redaction turns its error into one
\* without a class, which is never a reason for a fallback.
StopWaiting(c) ==
    /\ CallAt(c, "wait") /\ context[c] # "live"
    /\ call' = [call EXCEPT ![c].pc = "returned", ![c].result = "failed"]
    /\ UNCHANGED <<context, budget, providerVars, engineVars>>

WindowOver(w) == w.used = 0 \/ now - w.start >= Minute

AdmitRequest(c) ==
    /\ call' = [call EXCEPT ![c].pc = "request", ![c].attempt = 1]
    /\ admitted' = [admitted EXCEPT ![TargetOf(c)] = Append(@, now)]
    /\ UNCHANGED slots

\* Faulty: a denied request keeps its slot.
DenyKeepingSlot(c) ==
    /\ call' = [call EXCEPT ![c].pc = "returned", ![c].result = "transient"]
    /\ UNCHANGED <<slots, window, admitted>>

Deny(c) == Returns(c, "transient") /\ UNCHANGED <<window, admitted>>

\* A request that is denied gives its slot back.
ReserveRequest(c) == LET t == TargetOf(c) IN
    /\ CallAt(c, "window")
    /\ \/ /\ requestsPerMinute = 0
          /\ AdmitRequest(c)
          /\ UNCHANGED window
       \/ /\ requestsPerMinute > 0 /\ WindowOver(window[t])
          /\ window' = [window EXCEPT ![t] = [start |-> now, used |-> 1]]
          /\ AdmitRequest(c)
       \/ /\ ~WindowOver(window[t]) /\ window[t].used < requestsPerMinute
          /\ window' = [window EXCEPT ![t].used = @ + 1]
          /\ AdmitRequest(c)
       \/ /\ requestsPerMinute > 0 /\ ~WindowOver(window[t])
          /\ window[t].used >= requestsPerMinute
          /\ Deny(c)
    /\ UNCHANGED <<now, context, tokens, budget, engineVars>>

\* Faulty: the messages of probes are counted too.
ObserveEveryMessage(c) == tokens' = [tokens EXCEPT ![TargetOf(c)] = @ + 1]

\* The tracker counts what a message of a run cost; a probe's is not counted.
ObserveMessage(c) ==
    tokens' = [tokens EXCEPT ![TargetOf(c)] = IF c = Prober THEN @ ELSE @ + 1]

-----------------------------------------------------------------------------
(* RetryTransport *)

Succeed(c) ==
    /\ CallAt(c, "request") /\ context[c] = "live"
    /\ ObserveMessage(c)
    /\ Returns(c, "ok")
    /\ UNCHANGED <<now, window, context, budget, admitted, engineVars>>

\* The provider answers 429 or 5xx, or cannot be reached.
FailTransiently(c) ==
    /\ CallAt(c, "request") /\ context[c] = "live"
    /\ Spend("faults")
    /\ IF call[c].attempt < MaxAttempts THEN CallGoto(c, "pause") /\ UNCHANGED slots
                                        ELSE Returns(c, "transient")
    /\ UNCHANGED <<now, window, context, tokens, admitted, engineVars>>

FailForGood(c) ==
    /\ CallAt(c, "request") /\ context[c] = "live"
    /\ Spend("faults")
    /\ Returns(c, "failed")
    /\ UNCHANGED <<now, window, context, tokens, admitted, engineVars>>

\* A request whose context has ended is not sent, or broken off. Of the two ways to end,
\* a deadline counts as a transient error.
Abort(c) ==
    /\ CallAt(c, "request") /\ context[c] # "live"
    /\ Returns(c, IF context[c] = "expired" THEN "transient" ELSE "failed")
    /\ UNCHANGED <<now, window, context, tokens, budget, admitted, engineVars>>

AttemptAgain(c) ==
    /\ CallAt(c, "pause")
    /\ call' = [call EXCEPT ![c].pc = "request", ![c].attempt = @ + 1]
    /\ UNCHANGED <<context, budget, providerVars, engineVars>>

\* The error of a context that ends in a pause has no class after redaction.
AbortPause(c) ==
    /\ CallAt(c, "pause") /\ context[c] # "live"
    /\ Returns(c, "failed")
    /\ UNCHANGED <<now, window, context, tokens, budget, admitted, engineVars>>

\* The timeout of the http client is over all attempts, and its error takes the place of
\* that of the transport.
ClientTimeout(c) ==
    /\ call[c].pc \in {"request", "pause"} /\ context[c] = "live"
    /\ Spend("faults")
    /\ Returns(c, "failed")
    /\ UNCHANGED <<now, window, context, tokens, admitted, engineVars>>

TransportStep(c) ==
    \/ Succeed(c) \/ FailTransiently(c) \/ FailForGood(c) \/ Abort(c)
    \/ AttemptAgain(c) \/ AbortPause(c) \/ ClientTimeout(c)

-----------------------------------------------------------------------------
(* FallbackChatModel *)

ShouldFallback(result) == result = "transient"

TryFallback(c) ==
    /\ CallAt(c, "returned") /\ TargetOf(c) = "primary"
    /\ ShouldFallback(call[c].result) \/ c = Prober
    /\ call' = [call EXCEPT ![c].pc = "wait", ![c].target = "fallback"]
    /\ UNCHANGED <<context, budget, providerVars, engineVars>>

\* The engine gets the message, if there is one.
HandOver(c) ==
    /\ CallGoto(c, "done")
    /\ answers' = IF call[c].result = "ok" THEN answers + 1 ELSE answers
    /\ UNCHANGED <<requestsPerMinute, context, budget, providerVars>>

ReturnPrimary(c) ==
    /\ c # Prober /\ CallAt(c, "returned") /\ TargetOf(c) = "primary"
    /\ ~ShouldFallback(call[c].result)
    /\ HandOver(c)

ReturnFallback(c) ==
    /\ c # Prober /\ CallAt(c, "returned") /\ TargetOf(c) = "fallback"
    /\ HandOver(c)

-----------------------------------------------------------------------------
(* The engine and the probe loop *)

Begin(c) ==
    /\ Spend("calls")
    /\ call' = [call EXCEPT ![c] = [NoCall EXCEPT !.pc = "wait"]]
    /\ UNCHANGED <<context, providerVars, engineVars>>

\* The first call of a run, or one more after an answer.
Generate(c) ==
    /\ c # Prober
    /\ CallAt(c, "idle") \/ (CallAt(c, "done") /\ call[c].result = "ok")
    /\ Begin(c)

Probe == CallAt(Prober, "idle") /\ Begin(Prober)

ProbeDone ==
    /\ CallAt(Prober, "returned") /\ TargetOf(Prober) = "fallback"
    /\ CallGoto(Prober, "idle")
    /\ context' = [context EXCEPT ![Prober] = "live"]
    /\ UNCHANGED <<budget, providerVars, engineVars>>

\* The run has its answer, or its last call failed.
EndRun(c) ==
    /\ c # Prober /\ CallAt(c, "done")
    /\ CallGoto(c, "idle")
    /\ context' = [context EXCEPT ![c] = "live"]
    /\ UNCHANGED <<budget, providerVars, engineVars>>

-----------------------------------------------------------------------------
CallStep(c) ==
    \/ StopWaiting(c) \/ ReserveRequest(c) \/ TransportStep(c)
    \/ TryFallback(c) \/ ReturnPrimary(c) \/ ReturnFallback(c)
    \/ EndRun(c)

ModelNext ==
    \/ TimePasses \/ Probe \/ ProbeDone
    \/ \E c \in Callers : Generate(c) \/ AcquireSlot(c) \/ CallStep(c) \/ EndContext(c)

ModelSpec == ModelInit /\ [][ModelNext]_modelVars

\* Goroutines run on; every request ends, by the client's timeout if by nothing else. Those
\* that wait for a slot queue at the channel, so none is passed over for ever.
ModelFairness ==
    /\ \A c \in Callers : WF_modelVars(CallStep(c)) /\ SF_modelVars(AcquireSlot(c))
    /\ WF_modelVars(ProbeDone)

FairModelSpec == ModelSpec /\ ModelFairness

-----------------------------------------------------------------------------
(* Properties *)

ModelTypeOK ==
    /\ requestsPerMinute \in Nat
    /\ now \in 0..MaxTicks
    /\ window \in [Targets -> [start : 0..MaxTicks, used : Nat]]
    /\ slots \in [Targets -> Nat]
    /\ call \in [Callers -> Call]
    /\ context \in [Callers -> {"live", "expired", "canceled"}]
    /\ tokens \in [Targets -> Nat]
    /\ budget \in [ticks : 0..(MaxTicks - now), faults : Nat, ends : Nat, calls : Nat]
    /\ admitted \in [Targets -> Seq(0..MaxTicks)]
    /\ answers \in Nat

\* Of the ticks in a, those that are n apart in the sequence are a minute apart.
MinuteApart(a, n) == \A i \in DOMAIN a : i + n \in DOMAIN a => a[i + n] - a[i] >= Minute

\* No provider gets more requests at a time than it has slots, whatever the calls that are
\* denied, give up or are broken off give back, and none is asked by more calls within a
\* minute than two windows allow (LocalRateLimiter.Acquire and its release).
ProviderLimits == \A t \in Targets :
    /\ Cardinality({c \in Callers : TargetOf(c) = t /\ call[c].pc \in {"request", "pause"}})
         <= MaxConcurrent
    /\ requestsPerMinute > 0 => MinuteApart(admitted[t], 2 * requestsPerMinute)

\* What the trackers count is what the runs were answered: retries, fallbacks and probes
\* add no message, and no message that was paid for is thrown away for a fallback
\* (ObserveMessage; OPERATIONS.md on the probe, whose tokens are no run's).
AnswersCountedOnce ==
    tokens["primary"] + tokens["fallback"] =
        answers + Cardinality({c \in Runners : CallAt(c, "returned") /\ call[c].result = "ok"})

\* A call that has begun ends, with both providers' slots contended by runs and probes: no
\* slot is lost (the deferred release of Generate and Probe).
CallsReturn == \A c \in Callers : (~CallAt(c, "idle")) ~> CallAt(c, "idle")
=============================================================================
