---------------------------- MODULE EventStream ----------------------------
(***************************************************************************)
(* How the events of one run reach the browsers that follow it: AddEvent   *)
(* of the two stores with its publication to the subscribers, the nudges   *)
(* of FanoutRepository over Redis, the SSE handler runEvents, and the       *)
(* browser, which reconnects and drops events it has already applied.      *)
(*                                                                         *)
(* An event is its sequence number, and the log of the run is 1..seq.      *)
(***************************************************************************)
EXTENDS Integers, Sequences, FiniteSets

CONSTANTS
    Writers,          \* goroutines that call AddEvent for the run
    Readers,          \* browser tabs that follow the run
    Replicas,         \* control planes
    Deployments,      \* the deployments considered, with what may fail in each
    OutSize,          \* slots of the channel of FanoutRepository (16)
    MaxEvents,        \* bound on the number of events of any deployment
    MaxDisconnects,   \* bound on the number of broken connections
    MaxFaults         \* bound on how often something else fails

\* writers is a subset of Writers, writersAt and readersAt the control planes where
\* events are written and from where they are streamed; bufferSize the slots of a
\* subscriber's channel (32).
Deployment == [store : {"memory", "postgres"}, fanout : {"local", "redis"},
               writers : SUBSET Writers, writersAt : SUBSET Replicas,
               readersAt : SUBSET Replicas, bufferSize : Nat \ {0}, events : 0..MaxEvents,
               failing : SUBSET {"list", "commit", "nudge", "subscribe"}]

ASSUME BoundsAssumption ==
    /\ OutSize \in Nat \ {0}
    /\ {MaxEvents, MaxDisconnects, MaxFaults} \subseteq Nat
\* A memory store lives in one process and never fails.
ASSUME DeploymentsAssumption == \A d \in Deployments :
    /\ d \in Deployment
    /\ d.store = "memory" => /\ \A p, q \in d.writersAt \cup d.readersAt : p = q
                             /\ d.failing \cap {"list", "commit"} = {}

VARIABLES
    deployment,   \* fixed from the start
    seq,          \* the sequence number of the run's last event
    writer,       \* the state of each writer
    reader,       \* the state of each reader and of the connection it has
    faults,       \* how many faults there have been
    disconnects   \* how many connections have been broken

vars == <<deployment, seq, writer, reader, faults, disconnects>>

Seqs == 1..MaxEvents

\* A call of AddEvent: the event, and the subscribers it has yet to be sent to.
Writer == [pc : {"idle", "publish", "send", "nudge"}, at : Replicas,
           event : 0..MaxEvents, subscribers : SUBSET Readers]

\* A reader: what the browser keeps (url, the ?after of its EventSource; lastID,
\* the last SSE id on it; seen, the events applied, in order), then the handler
\* of its connection (pc, at, afterSeq), then the subscription of that handler
\* (channel, nudges) with the goroutine of FanoutRepository.Subscribe (lastSeq,
\* batch, the events it is forwarding, and out). due is a history variable: the
\* events that the connection has to replay.
Reader == [pc : {"new", "closed", "replay", "subscribe", "nudges", "last",
                 "replayAgain", "live"},
           at : Replicas, url : 0..MaxEvents, lastID : 0..MaxEvents,
           seen : Seq(Seqs), afterSeq : 0..MaxEvents,
           subscription : {"none", "local", "fanout"},
           channel : Seq(Seqs), nudges : Seq(Seqs), lastSeq : 0..MaxEvents,
           batch : Seq(Seqs), out : Seq(Seqs), due : SUBSET Seqs]

Init ==
    /\ deployment \in Deployments
    /\ seq = 0
    /\ writer \in [Writers -> [pc : {"idle"}, at : deployment.writersAt, event : {0},
                               subscribers : {{}}]]
    /\ reader \in [Readers -> [pc : {"new"}, at : deployment.readersAt, url : {0},
                               lastID : {0}, seen : {<<>>}, afterSeq : {0},
                               subscription : {"none"}, channel : {<<>>},
                               nudges : {<<>>}, lastSeq : {0}, batch : {<<>>},
                               out : {<<>>}, due : {{}}]]
    /\ faults = 0
    /\ disconnects = 0

Fault(kind) ==
    /\ kind \in deployment.failing
    /\ faults < MaxFaults
    /\ faults' = faults + 1

LastOf(s) == IF s = <<>> THEN 0 ELSE s[Len(s)]

-----------------------------------------------------------------------------
(* Stores *)

\* Faulty: the first event after the given one is passed over.
ListedOffByOne(after, rows) ==
    IF rows = 0 THEN <<>> ELSE [i \in 1..(rows - 1) |-> after + i + 1]

\* ListEvents returns the events after a given one. The Postgres store turns an
\* error into the rows it has read so far, or none.
Listed(after, rows) == [i \in 1..rows |-> after + i]

\* The rows a call of ListEvents may return, and the fault that explains it.
ListEvents(after, rows) ==
    \/ rows = seq - after /\ UNCHANGED faults
    \/ rows < seq - after /\ Fault("list")

Subscribers(p) ==
    {r \in Readers : reader[r].subscription # "none" /\ reader[r].at = p}

\* AddEvent up to the unlock or the commit. The memory store collects the
\* subscribers under the same lock, the Postgres store in publish, later.
AddEvent(w) ==
    /\ writer[w].pc = "idle"
    /\ w \in deployment.writers /\ seq < deployment.events
    /\ seq' = seq + 1
    /\ \E p \in deployment.writersAt :
         writer' = [writer EXCEPT ![w] =
            IF deployment.store = "memory"
            THEN [pc |-> "send", at |-> p, event |-> seq', subscribers |-> Subscribers(p)]
            ELSE [pc |-> "publish", at |-> p, event |-> seq', subscribers |-> {}]]
    /\ UNCHANGED <<deployment, reader, faults, disconnects>>

\* publish collects the subscribers of its own replica.
Publish(w) ==
    /\ writer[w].pc = "publish"
    /\ writer' = [writer EXCEPT ![w].pc = "send",
                                ![w].subscribers = Subscribers(writer[w].at)]
    /\ UNCHANGED <<deployment, seq, reader, faults, disconnects>>

\* A commit that took effect but was reported as failed is never published.
CommitError(w) ==
    /\ writer[w].pc = "publish"
    /\ Fault("commit")
    /\ writer' = [writer EXCEPT ![w].pc = "idle"]
    /\ UNCHANGED <<deployment, seq, reader, disconnects>>

\* The send to a subscriber does not block: a full channel drops the event.
Offer(channel, event) ==
    IF Len(channel) < deployment.bufferSize THEN Append(channel, event) ELSE channel

Send(w) ==
    /\ writer[w].pc = "send"
    /\ \E r \in writer[w].subscribers :
         /\ writer' = [writer EXCEPT ![w].subscribers = @ \ {r}]
         /\ reader' = [reader EXCEPT ![r].channel = Offer(@, writer[w].event)]
    /\ UNCHANGED <<deployment, seq, faults, disconnects>>

\* AddEvent returns, to FanoutRepository where there is one.
Sent(w) ==
    /\ writer[w].pc = "send"
    /\ writer[w].subscribers = {}
    /\ writer' = [writer EXCEPT ![w].pc = IF deployment.fanout = "redis" THEN "nudge" ELSE "idle"]
    /\ UNCHANGED <<deployment, seq, reader, faults, disconnects>>

\* Faulty: the nudge goes to the subscriptions of the writer's own replica.
NudgeOwnReplica(w) ==
    /\ writer[w].pc = "nudge"
    /\ writer' = [writer EXCEPT ![w].pc = "idle"]
    /\ reader' = [r \in Readers |->
            IF reader[r].subscription = "fanout" /\ reader[r].at = writer[w].at
            THEN [reader[r] EXCEPT !.nudges = Append(@, writer[w].event)]
            ELSE reader[r]]
    /\ UNCHANGED <<deployment, seq, faults, disconnects>>

\* The nudge goes to the subscriptions of all replicas; if it cannot be
\* published that is logged and forgotten.
Nudge(w) ==
    /\ writer[w].pc = "nudge"
    /\ writer' = [writer EXCEPT ![w].pc = "idle"]
    /\ \/ /\ reader' = [r \in Readers |->
                IF reader[r].subscription = "fanout"
                THEN [reader[r] EXCEPT !.nudges = Append(@, writer[w].event)]
                ELSE reader[r]]
          /\ UNCHANGED faults
       \/ Fault("nudge") /\ UNCHANGED reader
    /\ UNCHANGED <<deployment, seq, disconnects>>

-----------------------------------------------------------------------------
(* The browser *)

\* Faulty: every event received is applied.
ReceiveAll(c, events) ==
    [c EXCEPT !.seen = @ \o events,
              !.lastID = IF events = <<>> THEN @ ELSE LastOf(events)]

\* markRunEventSeen drops what has been applied.
MarkSeen(seen, event) == IF event > LastOf(seen) THEN Append(seen, event) ELSE seen

Applied(seen, events) ==
    LET applied[k \in 0..Len(events)] ==
          IF k = 0 THEN seen ELSE MarkSeen(applied[k - 1], events[k])
    IN applied[Len(events)]

\* The browser itself keeps the id of what it receives.
Receive(c, events) ==
    [c EXCEPT !.seen = Applied(@, events),
              !.lastID = IF events = <<>> THEN @ ELSE LastOf(events)]

\* The event after which a connection asks for more: ?after wins over
\* Last-Event-ID, which is all a stream opened without ?after has.
AfterParam(c) == IF c.url > 0 THEN c.url ELSE c.lastID

\* A new connection, with what it is due beyond what has been applied.
Connect(c, p) ==
    [c EXCEPT !.pc = "replay", !.at = p, !.afterSeq = AfterParam(c),
              !.due = {n \in Seqs : n > AfterParam(c) /\ n > LastOf(c.seen) /\ n <= seq}]

\* openEvents makes a new EventSource from the last event applied.
OpenEvents(r) ==
    /\ reader[r].pc \in {"new", "closed"}
    /\ \E p \in deployment.readersAt :
         reader' = [reader EXCEPT ![r] =
            Connect([@ EXCEPT !.url = LastOf(reader[r].seen), !.lastID = 0], p)]
    /\ UNCHANGED <<deployment, seq, writer, faults, disconnects>>

\* The browser reconnects a broken EventSource by itself, with the same URL.
Reconnect(r) ==
    /\ reader[r].pc = "closed"
    /\ \E p \in deployment.readersAt :
         reader' = [reader EXCEPT ![r] = Connect(@, p)]
    /\ UNCHANGED <<deployment, seq, writer, faults, disconnects>>

\* What is left of a reader once its handler has returned and has canceled its
\* subscription.
Closed(c) ==
    [c EXCEPT !.pc = "closed", !.subscription = "none", !.channel = <<>>,
              !.nudges = <<>>, !.batch = <<>>, !.out = <<>>, !.lastSeq = 0]

\* The connection breaks, or a write to it fails. A writer that had collected
\* the subscription sends to a channel nobody reads.
Broken(r, c) ==
    /\ disconnects < MaxDisconnects
    /\ disconnects' = disconnects + 1
    /\ reader' = [reader EXCEPT ![r] = Closed(c)]
    /\ writer' = [w \in Writers |-> [writer[w] EXCEPT !.subscribers = @ \ {r}]]

Disconnect(r) ==
    /\ reader[r].pc \notin {"new", "closed"}
    /\ Broken(r, reader[r])
    /\ UNCHANGED <<deployment, seq, faults>>

-----------------------------------------------------------------------------
(* runEvents *)

\* Where the handler goes after each of its two replays.
AfterReplay(pc) == IF pc = "replay" THEN "subscribe" ELSE "live"

\* Where it goes once it has subscribed.
AfterSubscribe == "replayAgain"

\* writeReplayEvents: either all that was listed is written, or the connection
\* breaks after some of it.
Replay(r) ==
    LET c == reader[r] IN
    /\ c.pc \in {"replay", "replayAgain"}
    /\ \E rows \in 0..(seq - c.afterSeq) :
         /\ ListEvents(c.afterSeq, rows)
         /\ \/ /\ reader' = [reader EXCEPT ![r] =
                     [Receive(c, Listed(c.afterSeq, rows)) EXCEPT
                        !.afterSeq = @ + rows, !.pc = AfterReplay(c.pc)]]
               /\ UNCHANGED <<writer, disconnects>>
            \/ \E written \in 0..(rows - 1) :
                 Broken(r, Receive(c, Listed(c.afterSeq, written)))
    /\ UNCHANGED <<deployment, seq>>

\* Subscribe of the store, and whether FanoutRepository has more to do.
SubscribeLocal(r) ==
    /\ reader[r].pc = "subscribe"
    /\ reader' = [reader EXCEPT ![r].subscription = "local",
                                ![r].pc = IF deployment.fanout = "redis" THEN "nudges"
                                                                  ELSE AfterSubscribe]
    /\ UNCHANGED <<deployment, seq, writer, faults, disconnects>>

\* FanoutRepository.Subscribe subscribes to the nudges, or does without them.
SubscribeNudges(r) ==
    /\ reader[r].pc = "nudges"
    /\ \/ /\ reader' = [reader EXCEPT ![r].subscription = "fanout", ![r].pc = "last"]
          /\ UNCHANGED faults
       \/ /\ Fault("subscribe")
          /\ reader' = [reader EXCEPT ![r].pc = AfterSubscribe]
    /\ UNCHANGED <<deployment, seq, writer, disconnects>>

\* It forwards only what is later than the last event of the log at this point.
ReadLastSeq(r) ==
    /\ reader[r].pc = "last"
    /\ \E rows \in 0..seq :
         /\ ListEvents(0, rows)
         /\ reader' = [reader EXCEPT ![r].lastSeq = rows, ![r].pc = AfterSubscribe]
    /\ UNCHANGED <<deployment, seq, writer, disconnects>>

\* The goroutine of FanoutRepository.Subscribe waits for an event or a nudge.
Forwarding(r) ==
    /\ reader[r].subscription = "fanout"
    /\ reader[r].pc \in {"replayAgain", "live"}

FanoutLocal(r) ==
    LET c == reader[r] IN
    /\ Forwarding(r)
    /\ c.batch = <<>>
    /\ c.channel # <<>>
    /\ reader' = [reader EXCEPT
         ![r].channel = Tail(@),
         ![r].batch = IF Head(c.channel) > c.lastSeq THEN <<Head(c.channel)>> ELSE <<>>]
    /\ UNCHANGED <<deployment, seq, writer, faults, disconnects>>

\* Faulty: the goroutine forwards the event of the nudge only.
FanoutNudgeOnly(r) ==
    LET c == reader[r] IN
    /\ Forwarding(r)
    /\ c.batch = <<>>
    /\ c.nudges # <<>>
    /\ reader' = [reader EXCEPT
         ![r].nudges = Tail(@),
         ![r].batch = IF Head(c.nudges) > c.lastSeq THEN <<Head(c.nudges)>> ELSE <<>>]
    /\ UNCHANGED <<deployment, seq, writer, faults, disconnects>>

\* A nudge makes it read all it has not forwarded.
FanoutNudge(r) ==
    LET c == reader[r] IN
    /\ Forwarding(r)
    /\ c.batch = <<>>
    /\ c.nudges # <<>>
    /\ \/ /\ Head(c.nudges) <= c.lastSeq
          /\ reader' = [reader EXCEPT ![r].nudges = Tail(@)]
          /\ UNCHANGED faults
       \/ /\ Head(c.nudges) > c.lastSeq
          /\ \E rows \in 0..(seq - c.lastSeq) :
               /\ ListEvents(c.lastSeq, rows)
               /\ reader' = [reader EXCEPT ![r].nudges = Tail(@),
                                           ![r].batch = Listed(c.lastSeq, rows)]
    /\ UNCHANGED <<deployment, seq, writer, disconnects>>

\* forwardEvent blocks while the handler's channel is full.
ForwardEvent(r) ==
    LET c == reader[r] IN
    /\ c.batch # <<>>
    /\ Len(c.out) < OutSize
    /\ reader' = [reader EXCEPT ![r].out = Append(@, Head(c.batch)),
                                ![r].batch = Tail(@),
                                ![r].lastSeq = Head(c.batch)]
    /\ UNCHANGED <<deployment, seq, writer, faults, disconnects>>

\* The handler writes what it gets from its channel, if that is new.
WriteLive(r) ==
    LET c == reader[r]
        events == IF c.subscription = "fanout" THEN c.out ELSE c.channel
        event == Head(events)
        rest == IF c.subscription = "fanout" THEN [c EXCEPT !.out = Tail(@)]
                                             ELSE [c EXCEPT !.channel = Tail(@)]
    IN
    /\ c.pc = "live"
    /\ events # <<>>
    /\ reader' = [reader EXCEPT ![r] =
         IF event > c.afterSeq THEN [Receive(rest, <<event>>) EXCEPT !.afterSeq = event]
                               ELSE rest]
    /\ UNCHANGED <<deployment, seq, writer, faults, disconnects>>

-----------------------------------------------------------------------------
WriterStep(w) == Publish(w) \/ Send(w) \/ Sent(w) \/ Nudge(w)

HandlerStep(r) ==
    Replay(r) \/ SubscribeLocal(r) \/ SubscribeNudges(r) \/ ReadLastSeq(r) \/ WriteLive(r)

ForwarderStep(r) == FanoutLocal(r) \/ FanoutNudge(r) \/ ForwardEvent(r)

Next ==
    \/ \E w \in Writers : AddEvent(w) \/ WriterStep(w) \/ CommitError(w)
    \/ \E r \in Readers : \/ OpenEvents(r) \/ Reconnect(r) \/ Disconnect(r)
                          \/ HandlerStep(r) \/ ForwarderStep(r)

Spec == Init /\ [][Next]_vars

\* A writer and a handler wait for nothing but the store and their channels, and
\* a goroutine that is ready is scheduled. Nothing obliges a browser to connect
\* or an event to be written.
Fairness ==
    /\ \A w \in Writers : WF_vars(WriterStep(w))
    /\ \A r \in Readers : /\ WF_vars(HandlerStep(r))
                          /\ WF_vars(ForwarderStep(r))

FairSpec == Spec /\ Fairness

-----------------------------------------------------------------------------
(* Properties *)

TypeOK ==
    /\ deployment \in Deployments
    /\ seq \in 0..deployment.events
    /\ writer \in [Writers -> Writer]
    /\ reader \in [Readers -> Reader]
    /\ faults \in 0..MaxFaults
    /\ disconnects \in 0..MaxDisconnects

\* The browser applies no event twice and none out of order, through however
\* many reconnections: a repeated token would be shown twice (markRunEventSeen,
\* and the seq guards of runEvents).
AppliedOnce ==
    \A r \in Readers : \A i, j \in DOMAIN reader[r].seen :
        i < j => reader[r].seen[i] < reader[r].seen[j]

\* Where no query comes back short and live events cannot overtake one another: all of
\* them come through nudges, or one writer sends every event on one control plane into
\* channels that have room for all.
InOrder ==
    /\ "list" \notin deployment.failing
    /\ \/ deployment.fanout = "redis" /\ deployment.writersAt \cap deployment.readersAt = {}
       \/ /\ "commit" \notin deployment.failing
          /\ \E w \in Writers : deployment.writers = {w}
          /\ \E p \in Replicas : deployment.writersAt = {p}
          /\ deployment.bufferSize >= deployment.events

\* What the browser has applied is a prefix of the run's events: no event is
\* skipped for good by the replays, the subscription and the fanout (docs/plan/04
\* says that no event is lost with two control planes, but a local event may overtake
\* one of another replica, which InOrder excludes).
NoEventSkipped ==
    InOrder => \A r \in Readers : \A i \in DOMAIN reader[r].seen : reader[r].seen[i] = i

\* Once its handler is live, a connection has replayed all the events that the
\* browser missed before it connected, where the queries of the replays do not
\* fail (docs/API.md, on ?after and Last-Event-ID).
MissedEventsReplayed ==
    "list" \notin deployment.failing =>
        \A r \in Readers : reader[r].pc = "live" =>
            \A n \in reader[r].due : \E i \in DOMAIN reader[r].seen : reader[r].seen[i] = n

\* A stream that stays open reaches every event written, or a later one, although
\* full channels drop events, unless a query, a commit or a nudge fails
\* (FanoutRepository.Subscribe; publish of the stores).
CatchesUp ==
    \A r \in Readers : \A n \in Seqs :
        (reader[r].pc = "live" /\ seq >= n) ~>
            (reader[r].pc # "live" \/ reader[r].afterSeq >= n \/ faults > 0)
=============================================================================
