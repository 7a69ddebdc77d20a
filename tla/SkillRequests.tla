--------------------------- MODULE SkillRequests ----------------------------
(***************************************************************************)
(* The requests that HTTP and MCP skills send from an agent runtime: the   *)
(* check of the address, the rate limit of the skill, the secret, the      *)
(* attempts with their pauses, and the deadline over all of it.            *)
(*                                                                         *)
(* Callers are the runs a runtime executes at a time. Time is counted in   *)
(* ticks; what the upstream answers, and what its name resolves to, may    *)
(* change between any two steps.                                           *)
(***************************************************************************)
EXTENDS Integers, Sequences, FiniteSets, FiniteSetsExt

CONSTANTS
    Callers,
    Skills,
    KindOf,         \* "http", "mcp" or "builtin"
    HostOf,         \* of a skill's URL: "name", or "public" or "blocked" for a literal address
    RateLimit,      \* requests_per_minute of each skill, 0 for none
    MaxAttempts,    \* retry.max_attempts of the HTTP skills
    Minute,         \* ticks in a minute
    MaxTicks,       \* bound on time
    Budgets         \* bounds: how much time passes, how often the name changes, how much fails

ASSUME SkillsAssumption ==
    /\ KindOf \in [Skills -> {"http", "mcp", "builtin"}]
    /\ HostOf \in [Skills -> {"name", "public", "blocked"}]
    /\ RateLimit \in [Skills -> Nat]
    /\ Skills # {} /\ IsFiniteSet(Callers)
ASSUME RequestBounds ==
    /\ Minute \in Nat \ {0} /\ {MaxAttempts, MaxTicks} \subseteq Nat
    /\ Budgets \subseteq [ticks : 0..MaxTicks, changes : Nat, faults : Nat]

VARIABLES
    limiter,     \* "local" or "redis", fixed from the start
    now,
    resolves,    \* the kinds of address the name has
    window,      \* the limiter's window of each skill
    request,
    budget,      \* what is left of the bounds
    \* The rest is history.
    dialed,      \* the kinds of address that were dialed
    admitted     \* the ticks at which calls of each skill were admitted, in order

requestVars == <<limiter, now, resolves, window, request, budget, dialed, admitted>>

Addresses == {"public", "blocked"}

Request == [pc : {"none", "start", "limit", "dial", "answer", "pause", "good", "bad"},
            skill : Skills, attempt : 1..(MaxAttempts + 1)]

NoRequest == [pc |-> "none", skill |-> CHOOSE s \in Skills : TRUE, attempt |-> 1]

\* A window that has not begun has no calls.
NoWindow == [start |-> 0, count |-> 0]

RequestInit ==
    /\ limiter \in {"local", "redis"}
    /\ now = 0
    /\ resolves = {"public"}
    /\ window = [s \in Skills |-> NoWindow]
    /\ request = [c \in Callers |-> NoRequest]
    /\ budget \in Budgets
    /\ dialed = {}
    /\ admitted = [s \in Skills |-> <<>>]

\* What a step on the request alone leaves as it is.
requestOthers == <<limiter, now, resolves, window, budget, dialed, admitted>>

RequestAt(c, pc) == request[c].pc = pc

Proceed(c, pc) == request' = [request EXCEPT ![c].pc = pc]

SkillOf(c) == request[c].skill

Spend(what) ==
    /\ budget[what] > 0
    /\ budget' = [budget EXCEPT ![what] = @ - 1]

RequestFault == Spend("faults")

-----------------------------------------------------------------------------
(* Environment *)

\* Time does not pass a caller by: a minute may end between any two steps.
Tick ==
    /\ Spend("ticks")
    /\ now' = now + 1
    /\ UNCHANGED <<limiter, resolves, window, request, dialed, admitted>>

ResolveDifferently ==
    /\ Spend("changes")
    /\ resolves' \in (SUBSET Addresses) \ {resolves}
    /\ UNCHANGED <<limiter, now, window, request, dialed, admitted>>

-----------------------------------------------------------------------------
(* Before the request *)

\* The arguments or the configuration may be refused, and a literal address that is
\* blocked. For a name, rejectUnsafeResolvedHTTPHost: one blocked address among those
\* it resolves to is enough, and so is a lookup that fails.
CheckHost(c) == LET host == HostOf[SkillOf(c)] IN
    /\ RequestAt(c, "start")
    /\ \/ host = "public" /\ Proceed(c, "limit")
       \/ host = "name" /\ resolves = {"public"} /\ Proceed(c, "limit")
       \/ Proceed(c, "bad")
    /\ UNCHANGED requestOthers

\* After the limit come the secret and, for MCP, the arguments: the call ends when the
\* bearer token cannot be resolved.
Admit(c) ==
    /\ Proceed(c, "dial") \/ Proceed(c, "bad")
    /\ admitted' = [admitted EXCEPT ![SkillOf(c)] = Append(@, now)]

Deny(c) == Proceed(c, "bad") /\ UNCHANGED admitted

SkillRateOff(c) ==
    /\ RequestAt(c, "limit") /\ RateLimit[SkillOf(c)] = 0
    /\ Admit(c)
    /\ UNCHANGED <<limiter, now, resolves, window, budget, dialed>>

\* Of the local limiter.
WindowOver(w) == w.count = 0 \/ now - w.start >= Minute

\* The local limiter's window begins with the first call in it.
LocalAllow(c) == LET s == SkillOf(c) IN
    /\ limiter = "local" /\ RateLimit[s] > 0 /\ RequestAt(c, "limit")
    /\ CASE WindowOver(window[s]) ->
              Admit(c) /\ window' = [window EXCEPT ![s] = [start |-> now, count |-> 1]]
         [] ~WindowOver(window[s]) /\ window[s].count < RateLimit[s] ->
              Admit(c) /\ window' = [window EXCEPT ![s].count = @ + 1]
         [] OTHER -> Deny(c) /\ UNCHANGED window
    /\ UNCHANGED <<limiter, now, resolves, budget, dialed>>

\* The key that INCR counts under in this minute. Calls that are denied count too.
RedisCount(s) == IF window[s].start = now \div Minute THEN window[s].count + 1 ELSE 1

\* Faulty: the first call over the limit is let in.
WithinRedisLimitOffByOne(s, count) == count <= RateLimit[s] + 1

WithinRedisLimit(s, count) == count <= RateLimit[s]

\* INCR, and EXPIRE for the first in a minute. When one fails the call is denied,
\* counted or not.
RedisAllow(c) == LET s == SkillOf(c)
                     counted == [window EXCEPT ![s] = [start |-> now \div Minute, count |-> RedisCount(s)]] IN
    /\ limiter = "redis" /\ RateLimit[s] > 0 /\ RequestAt(c, "limit")
    /\ \/ /\ window' = counted
          /\ IF WithinRedisLimit(s, RedisCount(s)) THEN Admit(c) ELSE Deny(c)
          /\ UNCHANGED budget
       \/ window' \in {window, counted} /\ Deny(c) /\ RequestFault
    /\ UNCHANGED <<limiter, now, resolves, dialed>>

-----------------------------------------------------------------------------
(* The request *)

\* Faulty: the dialer trusts the check that was made before.
DialableUnchecked(c) == IF HostOf[SkillOf(c)] = "name" THEN resolves ELSE {HostOf[SkillOf(c)]}

\* The addresses that ssrfGuardedDialer is willing to dial.
Dialable(c) == (IF HostOf[SkillOf(c)] = "name" THEN resolves ELSE {HostOf[SkillOf(c)]}) \ {"blocked"}

\* Every attempt resolves the name again, in a connection of its own.
Dial(c) ==
    /\ RequestAt(c, "dial")
    /\ \E address \in Dialable(c) :
         dialed' = dialed \cup {address}
    /\ Proceed(c, "answer")
    /\ UNCHANGED <<limiter, now, resolves, window, budget, admitted>>

\* Another attempt, if there is one left.
RetryOrFail(c) ==
    IF KindOf[SkillOf(c)] = "http" /\ request[c].attempt < MaxAttempts
    THEN request' = [request EXCEPT ![c].pc = "pause", ![c].attempt = @ + 1]
    ELSE Proceed(c, "bad")

\* A name with blocked addresses only is refused for good, as is one whose lookup fails.
\* One without an address counts as an error of the network.
DialRefused(c) ==
    /\ RequestAt(c, "dial") /\ HostOf[SkillOf(c)] = "name"
    /\ Proceed(c, "bad") \/ (resolves = {} /\ RetryOrFail(c))
    /\ UNCHANGED requestOthers

\* A response that is whole, small enough and as the output schema wants it; one that
\* is not; or one that may be better the next time: 429, 500, 502, 503, 504, or an
\* error of the network. Redirects are not followed.
Answered(c) ==
    /\ RequestAt(c, "answer")
    /\ Proceed(c, "good") \/ Proceed(c, "bad") \/ RetryOrFail(c)
    /\ UNCHANGED requestOthers

\* The pause is over.
AttemptAgain(c) ==
    /\ RequestAt(c, "pause")
    /\ Proceed(c, "dial")
    /\ UNCHANGED requestOthers

\* timeout_seconds are over since the call began, or its run was canceled: the
\* connection, the answer or the pause it waits for gives up, and there is no other
\* attempt.
DeadlinePasses(c) ==
    /\ request[c].pc \in {"dial", "answer", "pause"}
    /\ Proceed(c, "bad")
    /\ UNCHANGED requestOthers

RequestStep(c) ==
    \/ CheckHost(c) \/ SkillRateOff(c) \/ LocalAllow(c) \/ RedisAllow(c)
    \/ Dial(c) \/ DialRefused(c) \/ Answered(c) \/ AttemptAgain(c) \/ DeadlinePasses(c)

-----------------------------------------------------------------------------
(* Properties *)

RequestTypeOK ==
    /\ limiter \in {"local", "redis"}
    /\ now \in 0..MaxTicks
    /\ resolves \subseteq Addresses
    /\ window \in [Skills -> [start : 0..MaxTicks, count : Nat]]
    /\ request \in [Callers -> Request]
    /\ budget \in [ticks : 0..(MaxTicks - now), changes : Nat, faults : Nat]
    /\ dialed \subseteq Addresses
    /\ admitted \in [Skills -> Seq(0..MaxTicks)]

\* No request goes to an address that skills must not reach, although the name may
\* resolve to it after the check, or between two attempts.
OnlyAllowedDialed == dialed \subseteq {"public"}

\* In no period of a minute, whenever it begins, are more calls of a skill admitted than
\* two windows allow: of the calls in order, those two windows apart are a minute apart.
AdmittedWithinLimit ==
    \A s \in Skills : RateLimit[s] > 0 =>
        LET n == 2 * RateLimit[s]
            ticks == admitted[s] IN
        \A i \in DOMAIN ticks : i + n \in DOMAIN ticks => ticks[i + n] - ticks[i] >= Minute
=============================================================================
