--------------------------- MODULE InvitationMail ---------------------------
(***************************************************************************)
(* Invitations of one organisation and the mail that carries them: the     *)
(* handlers that create, resend and accept an invitation, the three ways   *)
(* of sending (inline, an in-memory queue, a durable outbox), the rows of  *)
(* the outbox in the memory and in the Postgres store, and the events that *)
(* mail providers report.                                                  *)
(*                                                                         *)
(* A step is one critical section of the memory store, one statement or    *)
(* transaction of the Postgres store, or one SMTP transmission. Times are  *)
(* reduced to what the code compares them with: a row is due or not, its   *)
(* lock is held or has expired, an invitation has lapsed or not.           *)
(***************************************************************************)
EXTENDS Integers, FiniteSets, Sequences, SequencesExt

CONSTANTS
    Invitations,    \* the invitations that may be created
    Emails,
    EmailOf,        \* the address of each invitation
    Deployments,    \* the stores and modes of sending considered
    Workers,        \* the goroutines that deliver
    Parallel,       \* how many HTTP requests are served at a time
    RetryAttempts,  \* INVITATION_EMAIL_RETRY_ATTEMPTS
    QueueSize,      \* INVITATION_EMAIL_QUEUE_SIZE
    ProviderTypes,  \* what providers call the events they report
    MaxItems,       \* bound on the events of one webhook call
    MaxCalls,       \* bound on the HTTP requests
    FaultKinds,
    MaxFaults       \* bound on failed store calls and crashes

ASSUME SetsAssumption == Invitations # {} /\ IsFiniteSet(Workers)
ASSUME EmailsAssumption == EmailOf \in [Invitations -> Emails]
ASSUME DeploymentsAssumption ==
    Deployments \subseteq [store : {"memory", "postgres"}, mode : {"inline", "memory", "outbox"}]
ASSUME BoundsAssumption ==
    /\ {Parallel, RetryAttempts, QueueSize, MaxItems} \subseteq Nat \ {0}
    /\ {MaxCalls, MaxFaults} \subseteq Nat
    /\ FaultKinds \subseteq {"store", "crash"}

VARIABLES
    deployment,  \* fixed from the start
    invitation,  \* the status of each invitation, "none" before it is created
    lapsed,      \* the invitations whose expires_at has passed
    delivery,    \* the outbox row of each invitation
    suppressed,  \* the addresses that are not written to any more
    queue,       \* the channel of QueuedInvitationMailer
    worker,
    request,     \* an HTTP request is forgotten once it is answered
    calls,       \* the requests there have been
    faults,
    \* The rest is history.
    credit,      \* how often the mailer may still transmit each invitation
    displaced,   \* the workers under which the row they deliver was unlocked
    handedOver,  \* the invitations that the SMTP server has accepted
    refused      \* the addresses a provider has complained about

history == <<credit, displaced, handedOver, refused>>
vars == <<deployment, calls, invitation, lapsed, delivery, suppressed, queue, worker, request,
          faults, history>>

Requests == 1..Parallel

NoDelivery == [status |-> "none", attempts |-> 0, max |-> 0, due |-> FALSE, locked |-> FALSE]

\* An outbox row as EnqueueInvitationEmail inserts and RequeueInvitationEmail resets it.
PendingDelivery(max) ==
    [status |-> "pending", attempts |-> 0, max |-> max, due |-> TRUE, locked |-> FALSE]

Delivery == [status : {"none", "pending", "sending", "sent", "failed", "bounced"},
             attempts : 0..RetryAttempts, max : 0..RetryAttempts,
             due : BOOLEAN, locked : BOOLEAN]

\* A worker holds the delivery as it was claimed: with its attempt and its limit.
IdleWorker == [pc |-> "idle", inv |-> CHOOSE i \in Invitations : TRUE, attempt |-> 0, max |-> 0]

WorkerState == [pc : {"idle", "sending", "sent", "unsent"}, inv : Invitations,
                attempt : 0..RetryAttempts, max : 0..RetryAttempts]

\* An event as a provider reports it: what it is called, its invitation, and
\* whether it names the outbox row.
Item == [raw : ProviderTypes, inv : Invitations, named : BOOLEAN]

Event == [type : {"delivered", "bounced", "complaint", "dropped"}, inv : Invitations,
          named : BOOLEAN]

RequestPCs == {"idle", "check", "requeue", "requeueWrite", "send", "insert", "events"}

RequestState == [pc : RequestPCs, resend : BOOLEAN, inv : Invitations,
                 events : UNION {[1..n -> Event] : n \in 0..MaxItems}]

NoRequest == [pc |-> "idle", resend |-> FALSE, inv |-> CHOOSE i \in Invitations : TRUE,
              events |-> <<>>]

Init ==
    /\ deployment \in Deployments
    /\ invitation = [i \in Invitations |-> "none"]
    /\ lapsed = {}
    /\ delivery = [i \in Invitations |-> NoDelivery]
    /\ suppressed = {}
    /\ queue = <<>>
    /\ worker = [w \in Workers |-> IdleWorker]
    /\ request = [r \in Requests |-> NoRequest]
    /\ calls = 0
    /\ faults = 0
    /\ credit = [i \in Invitations |-> 0]
    /\ displaced = {}
    /\ handedOver = {}
    /\ refused = {}

-----------------------------------------------------------------------------
(* Steps *)

Postgres == deployment.store = "postgres"

Outbox == deployment.mode = "outbox"

At(r, pc) == request[r].pc = pc

\* The slots of requests are alike: a request takes the first that is free.
Begin(r) ==
    /\ At(r, "idle") /\ \A q \in 1..(r - 1) : ~At(q, "idle")
    /\ calls < MaxCalls
    /\ calls' = calls + 1

Goto(r, pc) == request' = [request EXCEPT ![r].pc = pc]

Answer(r) == request' = [request EXCEPT ![r] = NoRequest]

\* Calls of the memory store do not fail.
Fault(kind) ==
    /\ Postgres
    /\ kind \in FaultKinds
    /\ faults < MaxFaults
    /\ faults' = faults + 1

Write(i, row) == delivery' = [delivery EXCEPT ![i] = row]

Entitle(i, n) == credit' = [credit EXCEPT ![i] = @ + n]

Busy(i) == {w \in Workers : worker[w].pc # "idle" /\ worker[w].inv = i}

\* The row of i is unlocked by someone else than the workers that deliver it.
Unlock(i) == displaced' = IF delivery[i].locked THEN displaced \cup Busy(i) ELSE displaced

Suppressed(i) == EmailOf[i] \in suppressed

Open(i) == invitation[i] = "pending" /\ i \notin lapsed

-----------------------------------------------------------------------------
(* The handlers of invitations. Their authorisation is in module Access. *)

\* createInvitation inserts the row and goes on to the mail.
CreateInvitation(r, i) ==
    /\ Begin(r)
    /\ invitation[i] = "none"
    /\ invitation' = [invitation EXCEPT ![i] = "pending"]
    /\ request' = [request EXCEPT ![r].pc = "check", ![r].inv = i, ![r].resend = FALSE]
    /\ UNCHANGED <<deployment, lapsed, delivery, suppressed, queue, worker, faults, history>>

\* resendInvitationEmail finds the invitation in the organisation.
ResendInvitationEmail(r, i) ==
    /\ Begin(r)
    /\ invitation[i] # "none"
    /\ request' = [request EXCEPT ![r].pc = "check", ![r].inv = i, ![r].resend = TRUE]
    /\ UNCHANGED <<deployment, invitation, lapsed, delivery, suppressed, queue, worker, faults,
                   history>>

\* IsInvitationEmailSuppressed takes a failed query for "no".
IsInvitationEmailSuppressed(r) ==
    LET next == IF request[r].resend THEN "requeue" ELSE "send" IN
    /\ At(r, "check")
    /\ \/ Suppressed(request[r].inv) /\ Answer(r) /\ UNCHANGED faults
       \/ ~Suppressed(request[r].inv) /\ Goto(r, next) /\ UNCHANGED faults
       \/ Suppressed(request[r].inv) /\ Goto(r, next) /\ Fault("store")
    /\ UNCHANGED <<deployment, calls, invitation, lapsed, delivery, suppressed, queue, worker, history>>

MayRequeue(i) == Open(i) /\ ~Suppressed(i)

\* The row starts anew with one attempt, whatever a worker is doing with it.
ResetDelivery(i) ==
    /\ Write(i, PendingDelivery(1))
    /\ Entitle(i, 1)
    /\ Unlock(i)

MemoryRequeue(r) == LET i == request[r].inv IN
    /\ At(r, "requeue") /\ ~Postgres
    /\ IF MayRequeue(i)
       THEN ResetDelivery(i) /\ Goto(r, "send")
       ELSE Answer(r) /\ UNCHANGED <<delivery, credit, displaced>>
    /\ UNCHANGED <<deployment, calls, invitation, lapsed, suppressed, queue, worker, faults,
                   handedOver, refused>>

\* The Postgres store reads the invitation and the suppressions and then writes
\* the row. The transaction locks none of what it has read.
PostgresRequeueRead(r) ==
    /\ At(r, "requeue") /\ Postgres
    /\ \/ MayRequeue(request[r].inv) /\ Goto(r, "requeueWrite") /\ UNCHANGED faults
       \/ ~MayRequeue(request[r].inv) /\ Answer(r) /\ UNCHANGED faults
       \/ Answer(r) /\ Fault("store")
    /\ UNCHANGED <<deployment, calls, invitation, lapsed, delivery, suppressed, queue, worker, history>>

PostgresRequeueWrite(r) ==
    /\ At(r, "requeueWrite")
    /\ \/ ResetDelivery(request[r].inv) /\ Goto(r, "send") /\ UNCHANGED faults
       \/ Answer(r) /\ Fault("store") /\ UNCHANGED <<delivery, credit, displaced>>
    /\ UNCHANGED <<deployment, calls, invitation, lapsed, suppressed, queue, worker,
                   handedOver, refused>>

\* AcceptInvitation refuses an invitation that is not pending, marks one that has
\* lapsed, and accepts the others. The role it grants is in module Access.
AcceptInvitation(i) ==
    /\ invitation[i] = "pending"
    /\ invitation' = [invitation EXCEPT ![i] = IF i \in lapsed THEN "expired" ELSE "accepted"]
    /\ UNCHANGED <<deployment, calls, lapsed, delivery, suppressed, queue, worker, request, faults,
                   history>>

DeleteInvitationEmailSuppression(e) ==
    /\ e \in suppressed
    /\ suppressed' = suppressed \ {e}
    /\ refused' = refused \ {e}
    /\ UNCHANGED <<deployment, calls, invitation, lapsed, delivery, queue, worker, request, faults,
                   credit, displaced, handedOver>>

-----------------------------------------------------------------------------
(* SendInvitation of the three mailers, called by a request at "send" *)

\* An SMTP transmission succeeds, fails, or succeeds and is taken for failed.
HandOver(i, accepted) ==
    handedOver' \in IF accepted THEN {handedOver \cup {i}} ELSE {handedOver, handedOver \cup {i}}

Transmit(i, accepted) == HandOver(i, accepted) /\ Entitle(i, -1)

\* SMTPInvitationMailer; the request ends whatever comes of it.
SendInline(r) == LET i == request[r].inv IN
    /\ At(r, "send") /\ deployment.mode = "inline"
    /\ \E accepted \in BOOLEAN : HandOver(i, accepted)
    /\ Answer(r)
    /\ UNCHANGED <<deployment, calls, invitation, lapsed, delivery, suppressed, queue, worker, faults,
                   credit, displaced, refused>>

\* QueuedInvitationMailer refuses when its channel is full.
SendToQueue(r) == LET i == request[r].inv IN
    /\ At(r, "send") /\ deployment.mode = "memory"
    /\ Answer(r)
    /\ IF Len(queue) < QueueSize
       THEN queue' = Append(queue, i) /\ Entitle(i, RetryAttempts)
       ELSE UNCHANGED <<queue, credit>>
    /\ UNCHANGED <<deployment, calls, invitation, lapsed, delivery, suppressed, worker, faults,
                   displaced, handedOver, refused>>

\* A row that exists stays as it is.
InsertDelivery(i) ==
    IF delivery[i] = NoDelivery
    THEN Write(i, PendingDelivery(RetryAttempts)) /\ Entitle(i, RetryAttempts)
    ELSE UNCHANGED <<delivery, credit>>

MemoryEnqueue(r) == LET i == request[r].inv IN
    /\ At(r, "send") /\ Outbox /\ ~Postgres
    /\ Answer(r)
    /\ IF Suppressed(i) THEN UNCHANGED <<delivery, credit>> ELSE InsertDelivery(i)
    /\ UNCHANGED <<deployment, calls, invitation, lapsed, suppressed, queue, worker, faults,
                   displaced, handedOver, refused>>

\* In the Postgres store the suppression is a query of its own.
PostgresEnqueueCheck(r) ==
    /\ At(r, "send") /\ Outbox /\ Postgres
    /\ \/ Suppressed(request[r].inv) /\ Answer(r) /\ UNCHANGED faults
       \/ ~Suppressed(request[r].inv) /\ Goto(r, "insert") /\ UNCHANGED faults
       \/ Suppressed(request[r].inv) /\ Goto(r, "insert") /\ Fault("store")
    /\ UNCHANGED <<deployment, calls, invitation, lapsed, delivery, suppressed, queue, worker, history>>

PostgresEnqueueInsert(r) ==
    /\ At(r, "insert")
    /\ Answer(r)
    /\ \/ InsertDelivery(request[r].inv) /\ UNCHANGED faults
       \/ Fault("store") /\ UNCHANGED <<delivery, credit>>
    /\ UNCHANGED <<deployment, calls, invitation, lapsed, suppressed, queue, worker, displaced,
                   handedOver, refused>>

-----------------------------------------------------------------------------
(* The workers of the in-memory queue *)

TakeFromQueue(w) ==
    /\ worker[w].pc = "idle"
    /\ queue # <<>>
    /\ queue' = Tail(queue)
    /\ worker' = [worker EXCEPT ![w] = [pc |-> "sending", inv |-> Head(queue), attempt |-> 1,
                                        max |-> RetryAttempts]]
    /\ UNCHANGED <<deployment, calls, invitation, lapsed, delivery, suppressed, request, faults, history>>

\* deliver tries again until it succeeds or has used its attempts.
DeliverFromQueue(w) ==
    /\ worker[w].pc = "sending" /\ deployment.mode = "memory"
    /\ \E accepted \in BOOLEAN :
         /\ Transmit(worker[w].inv, accepted)
         /\ IF accepted \/ worker[w].attempt >= worker[w].max
            THEN worker' = [worker EXCEPT ![w] = IdleWorker]
            ELSE worker' = [worker EXCEPT ![w].attempt = @ + 1]
    /\ UNCHANGED <<deployment, calls, invitation, lapsed, delivery, suppressed, queue, request, faults,
                   displaced, refused>>

-----------------------------------------------------------------------------
(* The workers of the outbox *)

\* Faulty: the lock is not looked at.
DueLockedOrNot(i) == delivery[i].status \in {"pending", "sending"} /\ delivery[i].due

\* Faulty: a row that a worker has left behind is never claimed again.
DueUnlessSending(i) == delivery[i].status = "pending" /\ delivery[i].due /\ ~delivery[i].locked

Due(i) ==
    /\ delivery[i].status \in {"pending", "sending"}
    /\ delivery[i].due
    /\ ~delivery[i].locked

Spent(i) == delivery[i].attempts >= delivery[i].max

\* Faulty: a claim is no attempt.
ClaimedRowUncounted(i) == [delivery[i] EXCEPT !.status = "sending", !.locked = TRUE]

ClaimedRow(i) ==
    [delivery[i] EXCEPT !.status = "sending", !.attempts = @ + 1, !.locked = TRUE]

StartSending(w, i) ==
    worker' = [worker EXCEPT ![w] = [pc |-> "sending", inv |-> i,
                                     attempt |-> delivery[i].attempts + 1,
                                     max |-> delivery[i].max]]

\* The memory store walks through the rows in any order until it has one to send,
\* and fails those it meets that have no attempt left or no address to write to.
\* It does not look at the invitation.
MemoryUnsendable(i) == Due(i) /\ (Spent(i) \/ Suppressed(i))

MemorySendable(i) == Due(i) /\ ~Spent(i) /\ ~Suppressed(i)

FailRows(rows) ==
    [i \in Invitations |->
       IF i \in rows THEN [delivery[i] EXCEPT !.status = "failed", !.locked = FALSE]
                     ELSE delivery[i]]

MemoryClaimDue(w) == \E met \in SUBSET {i \in Invitations : MemoryUnsendable(i)} :
    /\ worker[w].pc = "idle" /\ Outbox /\ ~Postgres
    /\ \/ \E i \in Invitations :
            /\ MemorySendable(i)
            /\ delivery' = [FailRows(met) EXCEPT ![i] = ClaimedRow(i)]
            /\ StartSending(w, i)
       \/ /\ \A i \in Invitations : ~MemorySendable(i)
          /\ met = {i \in Invitations : MemoryUnsendable(i)} /\ met # {}
          /\ delivery' = FailRows(met)
          /\ UNCHANGED worker
    /\ UNCHANGED <<deployment, calls, invitation, lapsed, suppressed, queue, request, faults, history>>

\* The Postgres store looks at the invitation and passes over what it cannot send.
PostgresSendable(i) == Due(i) /\ ~Spent(i) /\ Open(i) /\ ~Suppressed(i)

PostgresClaimDue(w) == \E i \in Invitations :
    /\ worker[w].pc = "idle" /\ Outbox /\ Postgres
    /\ PostgresSendable(i)
    /\ Write(i, ClaimedRow(i))
    /\ StartSending(w, i)
    /\ UNCHANGED <<deployment, calls, invitation, lapsed, suppressed, queue, request, faults, history>>

Deliver(w) ==
    /\ worker[w].pc = "sending" /\ Outbox
    /\ \E accepted \in BOOLEAN :
         /\ Transmit(worker[w].inv, accepted)
         /\ worker' = [worker EXCEPT ![w].pc = IF accepted THEN "sent" ELSE "unsent"]
    /\ UNCHANGED <<deployment, calls, invitation, lapsed, delivery, suppressed, queue, request, faults,
                   displaced, refused>>

\* The marks name the row and not the lock, so that whoever claimed it last loses it.
MarkInvitationEmailSent(i) ==
    Write(i, [delivery[i] EXCEPT !.status = "sent", !.locked = FALSE])

MarkInvitationEmailFailed(i, terminal) ==
    Write(i, [delivery[i] EXCEPT !.status = IF terminal THEN "failed" ELSE "pending",
                                 !.due = terminal /\ @, !.locked = FALSE])

\* A mark that fails is logged, and the row stays locked until its lock expires.
Mark(w) ==
    /\ \/ /\ worker[w].pc = "sent"
          /\ MarkInvitationEmailSent(worker[w].inv)
          /\ UNCHANGED faults
       \/ /\ worker[w].pc = "unsent"
          /\ MarkInvitationEmailFailed(worker[w].inv, worker[w].attempt >= worker[w].max)
          /\ UNCHANGED faults
       \/ /\ worker[w].pc \in {"sent", "unsent"}
          /\ Fault("store")
          /\ UNCHANGED delivery
    /\ worker' = [worker EXCEPT ![w] = IdleWorker]
    /\ displaced' = IF delivery' = delivery THEN displaced \ {w}
                                            ELSE (displaced \cup Busy(worker[w].inv)) \ {w}
    /\ UNCHANGED <<deployment, calls, invitation, lapsed, suppressed, queue, request, credit,
                   handedOver, refused>>

-----------------------------------------------------------------------------
(* Events of mail providers *)

\* mapProviderEmailEventType; a name it does not know is no event.
Known(raw) == raw \in {"delivered", "processed", "deferred", "bounce", "spamreport", "unsubscribe"}

EventType(raw) ==
    CASE raw \in {"delivered", "processed"} -> "delivered"
      [] raw \in {"deferred", "bounce"} -> "bounced"
      [] raw = "spamreport" -> "complaint"
      [] OTHER -> "dropped"   \* "unsubscribe"

\* The normalisers of the providers' payloads go through the items of a webhook call.
AppendEvent(events, item) ==
    IF Known(item.raw)
    THEN Append(events, [type |-> EventType(item.raw), inv |-> item.inv, named |-> item.named])
    ELSE events

WebhookEvents(items) ==
    LET events[k \in 0..Len(items)] ==
          IF k = 0 THEN <<>> ELSE AppendEvent(events[k - 1], items[k])
    IN events[Len(items)]

\* A call whose signature verifies is normalised as a whole. Providers report on
\* mail that was handed over to them.
InvitationEmailWebhook(r) == \E n \in 1..MaxItems : \E items \in [1..n -> Item] :
    /\ Begin(r)
    /\ \A k \in 1..n : items[k].inv \in handedOver
    /\ WebhookEvents(items) # <<>>
    /\ request' = [request EXCEPT ![r].pc = "events", ![r].events = WebhookEvents(items)]
    /\ UNCHANGED <<deployment, invitation, lapsed, delivery, suppressed, queue, worker, faults,
                   history>>

\* An event that names an outbox row must name the row of its invitation.
EventTargetFound(event) == event.named => delivery[event.inv] # NoDelivery

\* Faulty: a bounce does not suppress the address.
SuppressesInvitationEmailComplaints(type) == type \in {"complaint", "dropped"}

SuppressesInvitationEmail(type) == type \in {"bounced", "complaint", "dropped"}

\* The row takes the outcome and loses its lock, whatever a worker is doing with it.
RecordInvitationEmailEvent(event) == LET i == event.inv IN
    /\ IF event.named
       THEN /\ Write(i, [delivery[i] EXCEPT
                 !.status = IF event.type = "delivered" THEN "sent" ELSE "bounced",
                 !.locked = FALSE])
            /\ Unlock(i)
       ELSE UNCHANGED <<delivery, displaced>>
    /\ IF SuppressesInvitationEmail(event.type)
       THEN suppressed' = suppressed \cup {EmailOf[i]}
       ELSE UNCHANGED suppressed

Record(event) ==
    /\ EventTargetFound(event)
    /\ RecordInvitationEmailEvent(event)
    /\ refused' = IF event.type = "delivered" THEN refused ELSE refused \cup {EmailOf[event.inv]}

\* The events of one call are recorded one by one. The first that fails ends the
\* call and leaves those before it recorded.
RecordNext(r) == LET event == Head(request[r].events) IN
    /\ At(r, "events")
    /\ \/ /\ Record(event)
          /\ IF Len(request[r].events) = 1
             THEN Answer(r)
             ELSE request' = [request EXCEPT ![r].events = Tail(@)]
          /\ UNCHANGED faults
       \/ /\ ~EventTargetFound(event)
          /\ Answer(r)
          /\ UNCHANGED <<delivery, suppressed, displaced, refused, faults>>
       \/ /\ Fault("store")
          /\ Answer(r)
          /\ UNCHANGED <<delivery, suppressed, displaced, refused>>
    /\ UNCHANGED <<deployment, calls, invitation, lapsed, queue, worker, credit, handedOver>>

\* An administrator reports what became of a mail, with one call of the store.
RecordInvitationEmailEventByAdmin(r) == \E event \in Event :
    /\ Begin(r)
    /\ event.inv \in handedOver
    /\ Record(event)
    /\ UNCHANGED <<deployment, invitation, lapsed, queue, worker, request, faults, credit, handedOver>>

-----------------------------------------------------------------------------
(* Time and crashes *)

\* The invitation's expires_at passes.
Lapse(i) ==
    /\ invitation[i] = "pending"
    /\ i \notin lapsed
    /\ lapsed' = lapsed \cup {i}
    /\ UNCHANGED <<deployment, calls, invitation, delivery, suppressed, queue, worker, request, faults,
                   history>>

\* The lock is older than LockTTL, although its worker may still be sending.
LockExpires(i) ==
    /\ delivery[i].locked
    /\ Write(i, [delivery[i] EXCEPT !.locked = FALSE])
    /\ Unlock(i)
    /\ UNCHANGED <<deployment, calls, invitation, lapsed, suppressed, queue, worker, request, faults,
                   credit, handedOver, refused>>

\* The delay before the next attempt passes.
RetryDelayPasses(i) ==
    /\ delivery[i].status = "pending" /\ ~delivery[i].due
    /\ Write(i, [delivery[i] EXCEPT !.due = TRUE])
    /\ UNCHANGED <<deployment, calls, invitation, lapsed, suppressed, queue, worker, request, faults,
                   history>>

\* The control plane dies and restarts with what Postgres holds.
Crash ==
    /\ Fault("crash")
    /\ queue' = <<>>
    /\ worker' = [w \in Workers |-> IdleWorker]
    /\ request' = [r \in Requests |-> NoRequest]
    /\ displaced' = {}
    /\ UNCHANGED <<deployment, calls, invitation, lapsed, delivery, suppressed, credit, handedOver,
                   refused>>

-----------------------------------------------------------------------------

Handle(r) ==
    \/ \E i \in Invitations : CreateInvitation(r, i) \/ ResendInvitationEmail(r, i)
    \/ IsInvitationEmailSuppressed(r)
    \/ MemoryRequeue(r) \/ PostgresRequeueRead(r) \/ PostgresRequeueWrite(r)
    \/ SendInline(r) \/ SendToQueue(r)
    \/ MemoryEnqueue(r) \/ PostgresEnqueueCheck(r) \/ PostgresEnqueueInsert(r)
    \/ InvitationEmailWebhook(r) \/ RecordInvitationEmailEventByAdmin(r) \/ RecordNext(r)

Work(w) ==
    \/ TakeFromQueue(w) \/ DeliverFromQueue(w)
    \/ MemoryClaimDue(w) \/ PostgresClaimDue(w) \/ Deliver(w) \/ Mark(w)

Next ==
    \/ \E r \in Requests : Handle(r)
    \/ \E w \in Workers : Work(w)
    \/ \E i \in Invitations : AcceptInvitation(i) \/ Lapse(i) \/ LockExpires(i) \/ RetryDelayPasses(i)
    \/ \E e \in Emails : DeleteInvitationEmailSuppression(e)
    \/ Crash

Spec == Init /\ [][Next]_vars

\* Each worker goroutine keeps polling, and time passes.
FairSpec ==
    /\ Spec
    /\ \A w \in Workers : WF_vars(Work(w))
    /\ \A i \in Invitations : WF_vars(LockExpires(i) \/ RetryDelayPasses(i))

-----------------------------------------------------------------------------
(* Properties *)

TypeOK ==
    /\ deployment \in Deployments
    /\ invitation \in [Invitations -> {"none", "pending", "accepted", "expired"}]
    /\ lapsed \subseteq Invitations
    /\ delivery \in [Invitations -> Delivery]
    /\ suppressed \subseteq Emails
    /\ queue \in Seq(Invitations) /\ Len(queue) <= QueueSize
    /\ worker \in [Workers -> WorkerState]
    /\ request \in [Requests -> RequestState]
    /\ calls \in 0..MaxCalls
    /\ faults \in 0..MaxFaults
    /\ credit \in [Invitations -> Int]
    /\ displaced \subseteq Workers
    /\ handedOver \subseteq Invitations
    /\ refused \subseteq Emails

\* Expired locks, requeues in mid-delivery, marks of a displaced worker, failed
\* marks and crashes never make the mailer transmit an invitation more often than
\* its enqueueing (RetryAttempts) and its resends (one each) allow.
TriesWithinBudget == \A i \in Invitations : credit[i] >= 0

\* Two workers deliver the same invitation only after its row was unlocked under
\* the first: by the expiry of its lock, by a requeue, by a provider's event or by
\* the mark of a worker that had lost the row before.
OneWorkerPerLock ==
    Outbox => \A i \in Invitations : Cardinality(Busy(i) \ displaced) <= 1

\* Once a provider has reported a bounce or a complaint for an address, no worker
\* of the outbox starts another delivery to it, whichever invitation, request or
\* requeue it comes from, until the suppression is lifted.
NoDeliveryAfterComplaint ==
    [][\A w \in Workers :
         Outbox /\ worker[w].pc = "idle" /\ worker'[w].pc = "sending"
           => EmailOf[worker'[w].inv] \notin refused]_vars

\* The row of i still promises a delivery, or i is in the hands of the queue.
Unsettled(i) ==
    IF Outbox THEN delivery[i].status \in {"pending", "sending"}
              ELSE i \in ToSet(queue) \/ Busy(i) # {}

\* What the Postgres store leaves for ever: a row it passes over when it claims.
PassedOver(i) == Postgres /\ Outbox /\ (Spent(i) \/ ~Open(i) \/ Suppressed(i))

\* An invitation does not wait for its mail for ever: it is sent, failed, bounced or
\* given up, however the mail server behaves and whichever worker dies, or it is one
\* of those that the Postgres store passes over.
DeliverySettles ==
    \A i \in Invitations : Unsettled(i) ~> ~Unsettled(i) \/ PassedOver(i)
=============================================================================
