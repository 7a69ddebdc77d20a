------------------------ MODULE InvitationMailProofs ------------------------
(***************************************************************************)
(* Theorems about InvitationMail for every set of invitations, addresses   *)
(* and workers, every deployment and any number of requests and faults.    *)
(***************************************************************************)
EXTENDS InvitationMail, FiniteSetTheorems, SequenceTheorems, WellFoundedInduction, TLAPS

\* The workers that are about to transmit i.
Sending(i) == {w \in Workers : worker[w].pc = "sending" /\ worker[w].inv = i}

\* The places of i in the channel.
Queued(i) == {j \in DOMAIN queue : queue[j] = i}

\* The tries that the workers of the channel have left for i.
Left(i) == {t \in Workers \X (1..RetryAttempts) :
              t[1] \in Sending(i) /\ worker[t[1]].attempt <= t[2]}

QueueInv ==
    /\ deployment.mode # "memory" => queue = <<>>
    /\ \A w \in Workers : deployment.mode = "memory" /\ worker[w].pc # "idle" =>
          worker[w].pc = "sending" /\ worker[w].max = RetryAttempts

TriesInv ==
    /\ \A i \in Invitations : delivery[i].attempts <= delivery[i].max
    /\ \A w \in Workers :
          worker[w].pc # "idle" => worker[w].attempt \in 1..worker[w].max

\* What may still be transmitted covers what the row, the channel and the workers
\* still promise.
OutboxBudget(i) ==
    Outbox => credit[i] >= delivery[i].max - delivery[i].attempts + Cardinality(Sending(i))

QueueBudget(i) ==
    deployment.mode = "memory" =>
        credit[i] >= RetryAttempts * Cardinality(Queued(i)) + Cardinality(Left(i))

BudgetInv == \A i \in Invitations : OutboxBudget(i) /\ QueueBudget(i)

\* A row that is not locked is delivered by nobody but displaced workers, and one that
\* is by one other at most.
LockInv ==
    /\ Outbox => \A w \in displaced : worker[w].pc # "idle"
    /\ Outbox => \A v, w \in Workers \ displaced :
          worker[v].pc # "idle" /\ worker[w].pc # "idle" /\ worker[v].inv = worker[w].inv => v = w
    /\ Outbox => \A w \in Workers \ displaced :
          worker[w].pc # "idle" => delivery[worker[w].inv].locked

RefusedInv == refused \subseteq suppressed

\* A call of a webhook has events left to record.
EventsInv == \A r \in Requests : At(r, "events") => request[r].events # <<>>

IInv == TypeOK /\ EventsInv /\ QueueInv /\ TriesInv /\ BudgetInv /\ TriesWithinBudget /\ LockInv /\ RefusedInv

-----------------------------------------------------------------------------
(* The items of a webhook call *)

LEMMA SmallestElement ==
    ASSUME NEW T \in SUBSET Nat, T # {}
    PROVE  \E n \in T : \A m \in T : n <= m
  <1> DEFINE Less == {ss \in Nat \X Nat : ss[1] < ss[2]}
  <1>1. IsWellFoundedOn(Less, Nat)
    BY NatLessThanWellFounded DEF OpToRel
  <1>2. \E n \in T : \A m \in T : <<m, n>> \notin Less
    <2> HIDE DEF Less
    <2> QED
      BY <1>1, WFMin
  <1>3. PICK n \in T : \A m \in T : <<m, n>> \notin Less
    BY <1>2
  <1>4. \A m \in T : ~(m < n)
    BY <1>3
  <1> QED
    BY <1>4

\* f collects the events of the first m items.
Collects(f, items, m) ==
    f = [k \in 0..m |-> IF k = 0 THEN <<>> ELSE AppendEvent(f[k - 1], items[k])]

LEMMA AppendEventType ==
    ASSUME NEW events \in Seq(Event), NEW item \in Item
    PROVE  /\ AppendEvent(events, item) \in Seq(Event)
           /\ Len(AppendEvent(events, item)) <= Len(events) + 1
  <1>1. Known(item.raw) => EventType(item.raw) \in {"delivered", "bounced", "complaint", "dropped"}
    BY DEF Known, EventType
  <1>2. item.inv \in Invitations /\ item.named \in BOOLEAN
    BY DEF Item
  <1> DEFINE event == [type |-> EventType(item.raw), inv |-> item.inv, named |-> item.named]
  <1>3. Known(item.raw) => event \in Event
    BY <1>1, <1>2 DEF Event
  <1>4. AppendEvent(events, item) = IF Known(item.raw) THEN Append(events, event) ELSE events
    BY DEF AppendEvent
  <1> HIDE DEF event
  <1> QED
    BY <1>3, <1>4

\* The recursion of WebhookEvents is defined, by induction over the items.
LEMMA EventsDefined ==
    ASSUME NEW n \in Nat, NEW items
    PROVE  \E f : Collects(f, items, n)
  <1> DEFINE Bad == {m \in 0..n : ~\E f : Collects(f, items, m)}
  <1>1. SUFFICES ASSUME Bad # {}
                 PROVE  FALSE
    OBVIOUS
  <1>2. PICK m \in Bad : \A l \in Bad : m <= l
    <2>1. Bad \subseteq Nat
      OBVIOUS
    <2> HIDE DEF Bad
    <2> QED
      BY <1>1, <2>1, SmallestElement
  <1>3. m # 0
    <2>1. Collects([k \in 0..0 |-> <<>>], items, 0)
      BY DEF Collects
    <2> QED
      BY <2>1
  <1>4. PICK f : Collects(f, items, m - 1)
    BY <1>2, <1>3
  <1> DEFINE g == [k \in 0..m |-> IF k = m THEN AppendEvent(f[m - 1], items[m]) ELSE f[k]]
  <1>5. Collects(g, items, m)
    BY <1>3, <1>4 DEF Collects
  <1> QED
    BY <1>5

\* n items give n events at most.
LEMMA EventsCollected ==
    ASSUME NEW n \in Nat, NEW items \in [1..n -> Item], NEW f, Collects(f, items, n)
    PROVE  f[n] \in Seq(Event) /\ Len(f[n]) <= n
  <1> DEFINE Bad == {m \in 0..n : ~(f[m] \in Seq(Event) /\ Len(f[m]) <= m)}
  <1>1. SUFFICES ASSUME Bad # {}
                 PROVE  FALSE
    OBVIOUS
  <1>2. PICK m \in Bad : \A l \in Bad : m <= l
    <2>1. Bad \subseteq Nat
      OBVIOUS
    <2> HIDE DEF Bad
    <2> QED
      BY <1>1, <2>1, SmallestElement
  <1>3. m # 0
    BY DEF Collects
  <1>4. f[m - 1] \in Seq(Event) /\ Len(f[m - 1]) <= m - 1
    BY <1>2, <1>3
  <1>5. f[m] = AppendEvent(f[m - 1], items[m])
    BY <1>3 DEF Collects
  <1>6. items[m] \in Item
    BY <1>3
  <1>7. f[m] \in Seq(Event) /\ Len(f[m]) <= Len(f[m - 1]) + 1
    BY <1>4, <1>5, <1>6, AppendEventType
  <1>8. Len(f[m]) \in Nat /\ Len(f[m - 1]) \in Nat
    BY <1>4, <1>7
  <1> QED
    BY <1>4, <1>7, <1>8

LEMMA WebhookEventsType ==
    ASSUME NEW n \in 1..MaxItems, NEW items \in [1..n -> Item]
    PROVE  WebhookEvents(items) \in UNION {[1..m -> Event] : m \in 0..MaxItems}
  <1>1. MaxItems \in Nat /\ Len(items) = n
    BY BoundsAssumption
  <1> DEFINE f == CHOOSE g : Collects(g, items, n)
  <1>2. WebhookEvents(items) = f[n]
    BY <1>1, Zenon DEF WebhookEvents, Collects
  <1>3. Collects(f, items, n)
    BY EventsDefined
  <1>4. f[n] \in Seq(Event) /\ Len(f[n]) <= n
    <2> HIDE DEF f
    <2> QED
      BY <1>3, EventsCollected
  <1> HIDE DEF f
  <1> QED
    BY <1>1, <1>2, <1>4

-----------------------------------------------------------------------------
(* Types *)

Batches == UNION {[1..n -> Event] : n \in 0..MaxItems}

LEMMA ConstantsType ==
    /\ RetryAttempts \in Nat /\ RetryAttempts > 0 /\ MaxItems \in Nat /\ QueueSize \in Nat
    /\ MaxCalls \in Nat /\ MaxFaults \in Nat /\ Parallel \in Nat
    /\ EmailOf \in [Invitations -> Emails]
  BY BoundsAssumption, EmailsAssumption

LEMMA InitialTypes ==
    /\ NoDelivery \in Delivery
    /\ IdleWorker \in WorkerState
    /\ NoRequest \in RequestState
    /\ \A max \in 1..RetryAttempts : PendingDelivery(max) \in Delivery
  <1>1. (CHOOSE i \in Invitations : TRUE) \in Invitations
    BY SetsAssumption
  <1>2. <<>> \in Batches
    BY ConstantsType DEF Batches
  <1>3. NoRequest \in RequestState
    BY <1>1, <1>2 DEF NoRequest, RequestState, RequestPCs, Batches
  <1> QED
    BY <1>1, <1>3, ConstantsType DEF NoDelivery, Delivery, IdleWorker, WorkerState, PendingDelivery

LEMMA RequestGoes ==
    ASSUME TypeOK, NEW r \in Requests,
           Answer(r) \/ \E pc \in RequestPCs : Goto(r, pc)
    PROVE  request' \in [Requests -> RequestState]
  <1>1. RequestState = [pc : RequestPCs, resend : BOOLEAN, inv : Invitations, events : Batches]
    BY DEF RequestState, Batches
  <1>2. request \in [Requests -> RequestState]
    BY DEF TypeOK
  <1>3. ASSUME NEW pc \in RequestPCs
        PROVE  [request[r] EXCEPT !.pc = pc] \in RequestState
    BY <1>1, <1>2
  <1> QED
    BY <1>2, <1>3, InitialTypes DEF Answer, Goto

LEMMA FaultType ==
    ASSUME TypeOK, faults' = faults \/ \E kind : Fault(kind)
    PROVE  faults' \in 0..MaxFaults
  BY ConstantsType DEF TypeOK, Fault

LEMMA CallsType ==
    ASSUME TypeOK, NEW r \in Requests, Begin(r)
    PROVE  calls' \in 0..MaxCalls
  BY ConstantsType DEF TypeOK, Begin

\* The rows that the statements write.
LEMMA WriteType ==
    ASSUME TypeOK, NEW i \in Invitations, NEW row \in Delivery, Write(i, row)
    PROVE  delivery' \in [Invitations -> Delivery]
  BY DEF TypeOK, Write

LEMMA RowsType ==
    ASSUME TypeOK, NEW i \in Invitations
    PROVE  /\ [delivery[i] EXCEPT !.locked = FALSE] \in Delivery
           /\ [delivery[i] EXCEPT !.due = TRUE] \in Delivery
           /\ \A status \in {"sent", "failed", "bounced"} :
                 [delivery[i] EXCEPT !.status = status, !.locked = FALSE] \in Delivery
           /\ \A terminal \in BOOLEAN :
                 [delivery[i] EXCEPT !.status = IF terminal THEN "failed" ELSE "pending",
                                     !.due = terminal /\ @, !.locked = FALSE] \in Delivery
           /\ TriesInv /\ ~Spent(i) => ClaimedRow(i) \in Delivery
  <1>1. delivery[i] \in Delivery
    BY DEF TypeOK
  <1>2. ASSUME NEW terminal \in BOOLEAN
        PROVE  [delivery[i] EXCEPT !.status = IF terminal THEN "failed" ELSE "pending",
                                   !.due = terminal /\ @, !.locked = FALSE] \in Delivery
    <2>1. (terminal /\ delivery[i].due) \in BOOLEAN
      OBVIOUS
    <2> DEFINE due == terminal /\ delivery[i].due
    <2>2. [delivery[i] EXCEPT !.status = IF terminal THEN "failed" ELSE "pending",
                              !.due = due, !.locked = FALSE] \in Delivery
      <3> HIDE DEF due
      <3>1. due \in BOOLEAN
        BY <2>1 DEF due
      <3> QED
        BY <1>1, <3>1 DEF Delivery
    <2> QED
      BY <2>2
  <1>3. TriesInv /\ ~Spent(i) => ClaimedRow(i) \in Delivery
    <2>1. SUFFICES ASSUME TriesInv, ~Spent(i)
                   PROVE  ClaimedRow(i) \in Delivery
      OBVIOUS
    <2>2. delivery[i].attempts + 1 \in 0..RetryAttempts
      BY <1>1, <2>1, ConstantsType DEF Delivery, Spent
    <2> QED
      BY <1>1, <2>2 DEF Delivery, ClaimedRow
  <1> QED
    BY <1>1, <1>2, <1>3 DEF Delivery

LEMMA EntitleType ==
    ASSUME TypeOK, NEW i \in Invitations, NEW n \in Int, Entitle(i, n)
    PROVE  credit' \in [Invitations -> Int]
  BY DEF TypeOK, Entitle

LEMMA BusyType == \A i : Busy(i) \subseteq Workers
  BY DEF Busy

LEMMA RequestInvitation ==
    ASSUME TypeOK, NEW r \in Requests
    PROVE  request[r].inv \in Invitations
  BY DEF TypeOK, RequestState

LEMMA WorkerInvitation ==
    ASSUME TypeOK, NEW w \in Workers
    PROVE  worker[w].inv \in Invitations
  BY DEF TypeOK, WorkerState

\* A statement that resets or inserts the row of i, and an event on it.
LEMMA ResetType ==
    ASSUME TypeOK, NEW i \in Invitations, ResetDelivery(i)
    PROVE  /\ delivery' \in [Invitations -> Delivery]
           /\ credit' \in [Invitations -> Int]
           /\ displaced' \subseteq Workers
  <1>1. PendingDelivery(1) \in Delivery
    BY InitialTypes, ConstantsType
  <1> QED
    BY <1>1, WriteType, EntitleType, BusyType DEF ResetDelivery, Unlock, TypeOK

LEMMA InsertType ==
    ASSUME TypeOK, NEW i \in Invitations,
           InsertDelivery(i) \/ UNCHANGED <<delivery, credit>>
    PROVE  delivery' \in [Invitations -> Delivery] /\ credit' \in [Invitations -> Int]
  <1>1. PendingDelivery(RetryAttempts) \in Delivery /\ RetryAttempts \in Int
    BY InitialTypes, ConstantsType
  <1>2. CASE InsertDelivery(i) /\ delivery[i] = NoDelivery
    BY <1>1, <1>2, WriteType, EntitleType DEF InsertDelivery
  <1>3. CASE UNCHANGED <<delivery, credit>>
    BY <1>3 DEF TypeOK
  <1> QED
    BY <1>2, <1>3 DEF InsertDelivery

LEMMA RecordType ==
    ASSUME TypeOK, NEW event \in Event, Record(event)
    PROVE  /\ delivery' \in [Invitations -> Delivery]
           /\ displaced' \subseteq Workers
           /\ suppressed' \subseteq Emails
           /\ refused' \subseteq Emails
  <1>1. event.inv \in Invitations /\ EmailOf[event.inv] \in Emails
    BY ConstantsType DEF Event
  <1>2. suppressed' \subseteq Emails /\ refused' \subseteq Emails
    BY <1>1 DEF Record, RecordInvitationEmailEvent, TypeOK
  <1>3. ASSUME event.named
        PROVE  delivery' \in [Invitations -> Delivery] /\ displaced' \subseteq Workers
    <2> DEFINE row == [delivery[event.inv] EXCEPT
                         !.status = IF event.type = "delivered" THEN "sent" ELSE "bounced",
                         !.locked = FALSE]
    <2>1. row \in Delivery
      BY <1>1, RowsType
    <2>2. Write(event.inv, row) /\ Unlock(event.inv)
      BY <1>3 DEF Record, RecordInvitationEmailEvent
    <2> HIDE DEF row
    <2> QED
      BY <1>1, <2>1, <2>2, WriteType, BusyType DEF Unlock, TypeOK
  <1>4. ASSUME ~event.named
        PROVE  delivery' \in [Invitations -> Delivery] /\ displaced' \subseteq Workers
    BY <1>4 DEF Record, RecordInvitationEmailEvent, TypeOK
  <1> QED
    BY <1>2, <1>3, <1>4

\* RecordNext takes the first of the events that a call has left.
LEMMA EventBatch ==
    ASSUME TypeOK, NEW r \in Requests, request[r].events # <<>>
    PROVE  /\ Head(request[r].events) \in Event
           /\ Len(request[r].events) # 1 =>
                 Tail(request[r].events) \in Batches /\ Tail(request[r].events) # <<>>
  <1> DEFINE batch == request[r].events
  <1>0. batch \in Batches
    BY DEF TypeOK, RequestState, Batches
  <1>1. PICK n \in 0..MaxItems : batch \in [1..n -> Event]
    BY <1>0 DEF Batches
  <1>2. n # 0
    BY <1>1
  <1>3. batch \in Seq(Event) /\ Len(batch) = n /\ n \in Nat
    BY <1>1, ConstantsType
  <1> HIDE DEF batch
  <1>4. n # 1 => Tail(batch) \in [1..(n - 1) -> Event] /\ Tail(batch) # <<>>
    <2>1. n # 1 => Tail(batch) \in Seq(Event) /\ Len(Tail(batch)) = n - 1
      BY <1>2, <1>3
    <2> DEFINE tail == Tail(batch)
    <2> HIDE DEF tail
    <2>2. n # 1 => tail \in [1..Len(tail) -> Event]
      BY <2>1, LenProperties DEF tail
    <2>3. n # 1 => tail # <<>>
      BY <1>2, <1>3, <2>1 DEF tail
    <2> QED
      BY <2>1, <2>2, <2>3 DEF tail
  <1>5. n # 1 => n - 1 \in 0..MaxItems
    BY <1>1, <1>2, ConstantsType
  <1>6. Head(batch) \in Event
    BY <1>2, <1>3
  <1> QED
    BY <1>3, <1>4, <1>5, <1>6 DEF Batches, batch

LEMMA HandleTypes ==
    ASSUME TypeOK, EventsInv, NEW r \in Requests, Handle(r)
    PROVE  TypeOK'
  <1>r. request[r].inv \in Invitations /\ request[r].inv \in DOMAIN EmailOf
    BY RequestInvitation, ConstantsType
  <1>1. ASSUME NEW i \in Invitations, CreateInvitation(r, i) \/ ResendInvitationEmail(r, i)
        PROVE  TypeOK'
    <2>1. calls' \in 0..MaxCalls
      BY <1>1, CallsType DEF CreateInvitation, ResendInvitationEmail
    <2>2. invitation' \in [Invitations -> {"none", "pending", "accepted", "expired"}]
      BY <1>1 DEF CreateInvitation, ResendInvitationEmail, TypeOK
    <2>3. request' \in [Requests -> RequestState]
      <3>1. ASSUME NEW resend \in BOOLEAN
            PROVE  [request[r] EXCEPT !.pc = "check", !.inv = i, !.resend = resend] \in RequestState
        <4>1. RequestState = [pc : RequestPCs, resend : BOOLEAN, inv : Invitations, events : Batches]
          BY DEF RequestState, Batches
        <4>2. request[r] \in RequestState
          BY DEF TypeOK
        <4> QED
          BY <4>1, <4>2 DEF RequestPCs
      <3> QED
        BY <1>1, <3>1 DEF CreateInvitation, ResendInvitationEmail, TypeOK
    <2> QED
      BY <1>1, <2>1, <2>2, <2>3 DEF CreateInvitation, ResendInvitationEmail, TypeOK, history
  <1>2. CASE IsInvitationEmailSuppressed(r) \/ PostgresRequeueRead(r) \/ PostgresEnqueueCheck(r)
    <2>1. request' \in [Requests -> RequestState]
      BY <1>2, RequestGoes
         DEF IsInvitationEmailSuppressed, PostgresRequeueRead, PostgresEnqueueCheck, RequestPCs
    <2>2. faults' \in 0..MaxFaults
      BY <1>2, FaultType DEF IsInvitationEmailSuppressed, PostgresRequeueRead, PostgresEnqueueCheck
    <2> QED
      BY <1>2, <2>1, <2>2
         DEF IsInvitationEmailSuppressed, PostgresRequeueRead, PostgresEnqueueCheck, TypeOK, history
  <1>3. CASE MemoryRequeue(r) \/ PostgresRequeueWrite(r)
    <2>1. request' \in [Requests -> RequestState]
      BY <1>3, RequestGoes DEF MemoryRequeue, PostgresRequeueWrite, RequestPCs
    <2>2. faults' \in 0..MaxFaults
      BY <1>3, FaultType DEF MemoryRequeue, PostgresRequeueWrite
    <2>3. \/ ResetDelivery(request[r].inv)
          \/ UNCHANGED <<delivery, credit, displaced>>
      BY <1>3 DEF MemoryRequeue, PostgresRequeueWrite
    <2>4. /\ delivery' \in [Invitations -> Delivery] /\ credit' \in [Invitations -> Int]
          /\ displaced' \subseteq Workers
      BY <1>r, <2>3, ResetType DEF TypeOK
    <2> QED
      BY <1>3, <2>1, <2>2, <2>4 DEF MemoryRequeue, PostgresRequeueWrite, TypeOK
  <1>4. CASE SendInline(r)
    <2>1. request' \in [Requests -> RequestState]
      BY <1>4, RequestGoes DEF SendInline
    <2> QED
      BY <1>4, <1>r, <2>1 DEF SendInline, HandOver, TypeOK
  <1>5. CASE SendToQueue(r)
    <2>1. request' \in [Requests -> RequestState]
      BY <1>5, RequestGoes DEF SendToQueue
    <2>2. credit' \in [Invitations -> Int]
      BY <1>5, <1>r, EntitleType, ConstantsType DEF SendToQueue, TypeOK
    <2>3. queue' \in Seq(Invitations) /\ Len(queue') <= QueueSize
      <3>1. queue \in Seq(Invitations) /\ Len(queue) <= QueueSize /\ QueueSize \in Nat
        BY ConstantsType DEF TypeOK
      <3>2. \/ queue' = Append(queue, request[r].inv) /\ Len(queue) < QueueSize
            \/ queue' = queue
        BY <1>5 DEF SendToQueue
      <3> QED
        BY <1>r, <3>1, <3>2
    <2> QED
      BY <1>5, <2>1, <2>2, <2>3 DEF SendToQueue, TypeOK
  <1>6. CASE MemoryEnqueue(r) \/ PostgresEnqueueInsert(r)
    <2>1. request' \in [Requests -> RequestState]
      BY <1>6, RequestGoes DEF MemoryEnqueue, PostgresEnqueueInsert
    <2>2. faults' \in 0..MaxFaults
      BY <1>6, FaultType DEF MemoryEnqueue, PostgresEnqueueInsert
    <2>3. delivery' \in [Invitations -> Delivery] /\ credit' \in [Invitations -> Int]
      BY <1>6, <1>r, InsertType DEF MemoryEnqueue, PostgresEnqueueInsert
    <2> QED
      BY <1>6, <2>1, <2>2, <2>3 DEF MemoryEnqueue, PostgresEnqueueInsert, TypeOK
  <1>7. CASE InvitationEmailWebhook(r)
    <2>1. PICK n \in 1..MaxItems : \E items \in [1..n -> Item] :
              request' = [request EXCEPT ![r].pc = "events", ![r].events = WebhookEvents(items)]
      BY <1>7 DEF InvitationEmailWebhook
    <2>2. PICK items \in [1..n -> Item] :
              request' = [request EXCEPT ![r].pc = "events", ![r].events = WebhookEvents(items)]
      BY <2>1
    <2> DEFINE batch == WebhookEvents(items)
    <2>3. batch \in Batches
      BY WebhookEventsType DEF Batches
    <2>4. [request[r] EXCEPT !.pc = "events", !.events = batch] \in RequestState
      <3>1. RequestState = [pc : RequestPCs, resend : BOOLEAN, inv : Invitations, events : Batches]
        BY DEF RequestState, Batches
      <3> HIDE DEF batch
      <3> QED
        BY <2>3, <3>1 DEF TypeOK, RequestPCs
    <2>5. request' \in [Requests -> RequestState]
      BY <2>2, <2>4 DEF TypeOK
    <2>6. calls' \in 0..MaxCalls
      BY <1>7, CallsType DEF InvitationEmailWebhook
    <2> QED
      BY <1>7, <2>5, <2>6 DEF InvitationEmailWebhook, TypeOK, history
  <1>8. CASE RecordInvitationEmailEventByAdmin(r)
    <2>1. PICK event \in Event : Begin(r) /\ Record(event)
      BY <1>8 DEF RecordInvitationEmailEventByAdmin
    <2> QED
      BY <1>8, <2>1, RecordType, CallsType DEF RecordInvitationEmailEventByAdmin, TypeOK
  <1>9. CASE RecordNext(r)
    <2> DEFINE batch == request[r].events
    <2>1. batch \in Batches /\ batch # <<>>
      BY <1>9 DEF RecordNext, EventsInv, TypeOK, RequestState, Batches
    <2>2. Head(batch) \in Event /\ (Len(batch) # 1 => Tail(batch) \in Batches)
      BY <2>1, EventBatch
    <2>4. \/ Record(Head(batch))
          \/ UNCHANGED <<delivery, suppressed, displaced, refused>>
      BY <1>9 DEF RecordNext
    <2>5. /\ delivery' \in [Invitations -> Delivery] /\ displaced' \subseteq Workers
          /\ suppressed' \subseteq Emails /\ refused' \subseteq Emails
      BY <2>2, <2>4, RecordType DEF TypeOK
    <2>6. faults' \in 0..MaxFaults
      BY <1>9, FaultType DEF RecordNext
    <2>7. request' \in [Requests -> RequestState]
      <3>1. CASE Answer(r)
        BY <3>1, RequestGoes
      <3>2. CASE Len(batch) # 1 /\ request' = [request EXCEPT ![r].events = Tail(batch)]
        <4>1. RequestState = [pc : RequestPCs, resend : BOOLEAN, inv : Invitations, events : Batches]
          BY DEF RequestState, Batches
        <4>2. request[r] \in RequestState
          BY DEF TypeOK
        <4>3. ASSUME NEW tail \in Batches
              PROVE  [request[r] EXCEPT !.events = tail] \in RequestState
          BY <4>1, <4>2
        <4>4. request \in [Requests -> RequestState]
          BY DEF TypeOK
        <4> HIDE DEF batch
        <4> QED
          BY <2>2, <3>2, <4>3, <4>4, InitialTypes
      <3> QED
        BY <1>9, <3>1, <3>2 DEF RecordNext
    <2> QED
      BY <1>9, <2>5, <2>6, <2>7 DEF RecordNext, TypeOK
  <1> QED
    BY <1>1, <1>2, <1>3, <1>4, <1>5, <1>6, <1>7, <1>8, <1>9 DEF Handle

LEMMA StartSendingType ==
    ASSUME TypeOK, NEW w \in Workers, NEW i \in Invitations, ~Spent(i), StartSending(w, i)
    PROVE  /\ worker' \in [Workers -> WorkerState]
           /\ worker' = [worker EXCEPT ![w] = worker'[w]]
           /\ worker'[w].pc = "sending" /\ worker'[w].inv = i
           /\ worker'[w].attempt = delivery[i].attempts + 1 /\ worker'[w].max = delivery[i].max
           /\ worker'[w].attempt \in 1..worker'[w].max
  <1> DEFINE state == [pc |-> "sending", inv |-> i, attempt |-> delivery[i].attempts + 1,
                       max |-> delivery[i].max]
  <1>1. delivery[i] \in Delivery /\ worker \in [Workers -> WorkerState]
    BY DEF TypeOK
  <1>2. delivery[i].attempts + 1 \in 1..delivery[i].max /\ delivery[i].max \in 0..RetryAttempts
    BY <1>1, ConstantsType DEF Delivery, Spent
  <1>3. delivery[i].attempts + 1 \in 0..RetryAttempts
    BY <1>2, ConstantsType
  <1>4. state \in WorkerState
    BY <1>2, <1>3 DEF WorkerState
  <1>5. worker' = [worker EXCEPT ![w] = state]
    BY DEF StartSending
  <1>6. state.pc = "sending" /\ state.inv = i /\ state.max = delivery[i].max
        /\ state.attempt = delivery[i].attempts + 1
    OBVIOUS
  <1> HIDE DEF state
  <1> QED
    BY <1>1, <1>2, <1>4, <1>5, <1>6

LEMMA WorkTypes ==
    ASSUME TypeOK, QueueInv, TriesInv, NEW w \in Workers, Work(w)
    PROVE  TypeOK'
  <1>t. /\ worker \in [Workers -> WorkerState] /\ delivery \in [Invitations -> Delivery]
        /\ queue \in Seq(Invitations) /\ Len(queue) <= QueueSize
    BY DEF TypeOK
  <1>1. CASE TakeFromQueue(w)
    <2>1. Head(queue) \in Invitations /\ queue' \in Seq(Invitations) /\ Len(queue') <= QueueSize
      BY <1>1, <1>t, ConstantsType DEF TakeFromQueue
    <2>2. [pc |-> "sending", inv |-> Head(queue), attempt |-> 1, max |-> RetryAttempts]
            \in WorkerState
      BY <2>1, ConstantsType DEF WorkerState
    <2>3. worker' \in [Workers -> WorkerState]
      BY <1>1, <1>t, <2>2 DEF TakeFromQueue
    <2> QED
      BY <1>1, <2>1, <2>3 DEF TakeFromQueue, TypeOK, history
  <1>2. CASE DeliverFromQueue(w)
    <2>1. credit' \in [Invitations -> Int] /\ handedOver' \subseteq Invitations
      <3>1. \E accepted : Transmit(worker[w].inv, accepted)
        BY <1>2 DEF DeliverFromQueue
      <3> QED
        BY <3>1, WorkerInvitation, EntitleType DEF Transmit, HandOver, TypeOK
    <2>2. \/ worker' = [worker EXCEPT ![w] = IdleWorker]
          \/ /\ worker[w].attempt < worker[w].max
             /\ worker' = [worker EXCEPT ![w].attempt = @ + 1]
      <3>1. worker[w].attempt \in 0..RetryAttempts /\ worker[w].max \in 0..RetryAttempts
        BY <1>t DEF WorkerState
      <3> QED
        BY <1>2, <3>1, ConstantsType DEF DeliverFromQueue
    <2>3. worker' \in [Workers -> WorkerState]
      <3>1. CASE worker' = [worker EXCEPT ![w] = IdleWorker]
        BY <3>1, <1>t, InitialTypes
      <3>2. CASE worker[w].attempt < worker[w].max /\ worker' = [worker EXCEPT ![w].attempt = @ + 1]
        <4>1. worker[w] \in WorkerState
          BY <1>t
        <4>2. worker[w].attempt + 1 \in 0..RetryAttempts
          BY <3>2, <4>1, ConstantsType DEF WorkerState
        <4>3. [worker[w] EXCEPT !.attempt = worker[w].attempt + 1] \in WorkerState
          BY <4>1, <4>2 DEF WorkerState
        <4> QED
          BY <1>t, <3>2, <4>3
      <3> QED
        BY <2>2, <3>1, <3>2
    <2> QED
      BY <1>2, <2>1, <2>3 DEF DeliverFromQueue, Transmit, TypeOK
  <1>3. CASE MemoryClaimDue(w)
    <2>1. ASSUME NEW rows
          PROVE  FailRows(rows) \in [Invitations -> Delivery]
      BY RowsType DEF FailRows, TypeOK
    <2>2. /\ delivery' \in [Invitations -> Delivery]
          /\ worker' \in [Workers -> WorkerState]
      <3>1. PICK met : \/ \E i \in Invitations :
                            /\ MemorySendable(i)
                            /\ delivery' = [FailRows(met) EXCEPT ![i] = ClaimedRow(i)]
                            /\ StartSending(w, i)
                       \/ delivery' = FailRows(met) /\ UNCHANGED worker
        BY <1>3 DEF MemoryClaimDue
      <3>2. CASE delivery' = FailRows(met) /\ UNCHANGED worker
        BY <2>1, <3>2, <1>t
      <3>3. ASSUME NEW i \in Invitations, MemorySendable(i), StartSending(w, i),
                   delivery' = [FailRows(met) EXCEPT ![i] = ClaimedRow(i)]
            PROVE  delivery' \in [Invitations -> Delivery] /\ worker' \in [Workers -> WorkerState]
        BY <2>1, <3>3, RowsType, StartSendingType DEF MemorySendable
      <3> QED
        BY <3>1, <3>2, <3>3
    <2> QED
      BY <1>3, <2>2 DEF MemoryClaimDue, TypeOK, history
  <1>4. CASE PostgresClaimDue(w)
    <2>1. PICK i \in Invitations :
              PostgresSendable(i) /\ Write(i, ClaimedRow(i)) /\ StartSending(w, i)
      BY <1>4 DEF PostgresClaimDue
    <2>2. delivery' \in [Invitations -> Delivery] /\ worker' \in [Workers -> WorkerState]
      BY <2>1, RowsType, WriteType, StartSendingType DEF PostgresSendable
    <2> QED
      BY <1>4, <2>2 DEF PostgresClaimDue, TypeOK, history
  <1>5. CASE Deliver(w)
    <2>1. PICK accepted \in BOOLEAN :
              /\ Transmit(worker[w].inv, accepted)
              /\ worker' = [worker EXCEPT ![w].pc = IF accepted THEN "sent" ELSE "unsent"]
      BY <1>5 DEF Deliver
    <2>2. credit' \in [Invitations -> Int] /\ handedOver' \subseteq Invitations
      BY <2>1, WorkerInvitation, EntitleType DEF Transmit, HandOver, TypeOK
    <2>3. worker' \in [Workers -> WorkerState]
      BY <2>1, <1>t DEF WorkerState
    <2> QED
      BY <1>5, <2>2, <2>3 DEF Deliver, TypeOK
  <1>6. CASE Mark(w)
    <2>1. worker' \in [Workers -> WorkerState] /\ displaced' \subseteq Workers
      BY <1>6, <1>t, InitialTypes, BusyType DEF Mark, TypeOK
    <2>2. delivery' \in [Invitations -> Delivery]
      <3> DEFINE i == worker[w].inv
                 terminal == worker[w].attempt >= worker[w].max
      <3>1. \/ MarkInvitationEmailSent(i)
            \/ MarkInvitationEmailFailed(i, terminal)
            \/ UNCHANGED delivery
        BY <1>6 DEF Mark
      <3>2. i \in Invitations /\ terminal \in BOOLEAN
        BY WorkerInvitation
      <3> HIDE DEF i, terminal
      <3> QED
        BY <3>1, <3>2, <1>t, RowsType, WriteType
           DEF MarkInvitationEmailSent, MarkInvitationEmailFailed
    <2>3. faults' \in 0..MaxFaults
      BY <1>6, FaultType DEF Mark
    <2> QED
      BY <1>6, <2>1, <2>2, <2>3 DEF Mark, TypeOK
  <1> QED
    BY <1>1, <1>2, <1>3, <1>4, <1>5, <1>6 DEF Work

LEMMA TypesKept ==
    ASSUME TypeOK, EventsInv, QueueInv, TriesInv, [Next]_vars
    PROVE  TypeOK'
  <1>1. ASSUME NEW i \in Invitations,
               AcceptInvitation(i) \/ Lapse(i) \/ LockExpires(i) \/ RetryDelayPasses(i)
        PROVE  TypeOK'
    <2>1. CASE AcceptInvitation(i) \/ Lapse(i)
      BY <2>1 DEF AcceptInvitation, Lapse, TypeOK, history
    <2>2. CASE LockExpires(i)
      BY <2>2, RowsType, WriteType, BusyType DEF LockExpires, Unlock, TypeOK
    <2>3. CASE RetryDelayPasses(i)
      BY <2>3, RowsType, WriteType DEF RetryDelayPasses, TypeOK, history
    <2> QED
      BY <1>1, <2>1, <2>2, <2>3
  <1>2. ASSUME NEW e \in Emails, DeleteInvitationEmailSuppression(e)
        PROVE  TypeOK'
    BY <1>2 DEF DeleteInvitationEmailSuppression, TypeOK
  <1>3. CASE Crash
    <2>1. <<>> \in Seq(Invitations) /\ Len(<<>>) <= QueueSize
      BY ConstantsType
    <2> QED
      BY <1>3, <2>1, InitialTypes, FaultType DEF Crash, TypeOK
  <1>4. CASE UNCHANGED vars
    BY <1>4 DEF vars, history, TypeOK
  <1> QED
    BY <1>1, <1>2, <1>3, <1>4, HandleTypes, WorkTypes DEF Next

-----------------------------------------------------------------------------
(* The inductive invariant *)

CoreInv == QueueInv /\ TriesInv /\ BudgetInv /\ TriesWithinBudget /\ LockInv

LEMMA FiniteParts ==
    /\ \A S \in SUBSET Workers : IsFiniteSet(S) /\ Cardinality(S) \in Nat
    /\ \A S \in SUBSET (Workers \X (1..RetryAttempts)) : IsFiniteSet(S) /\ Cardinality(S) \in Nat
    /\ \A n \in Nat : \A S \in SUBSET (1..n) : IsFiniteSet(S) /\ Cardinality(S) \in Nat
  <1>1. IsFiniteSet(Workers) /\ IsFiniteSet(1..RetryAttempts)
    BY SetsAssumption, ConstantsType, FS_Interval
  <1>2. IsFiniteSet(Workers \X (1..RetryAttempts))
    BY <1>1, FS_Product
  <1>3. \A n \in Nat : IsFiniteSet(1..n)
    BY FS_Interval
  <1> QED
    BY <1>1, <1>2, <1>3, FS_Subset, FS_CardinalityType

LEMMA Counts ==
    ASSUME TypeOK, NEW i
    PROVE  /\ IsFiniteSet(Sending(i)) /\ Cardinality(Sending(i)) \in Nat
           /\ IsFiniteSet(Left(i)) /\ Cardinality(Left(i)) \in Nat
           /\ IsFiniteSet(Queued(i)) /\ Cardinality(Queued(i)) \in Nat
  <1>1. Sending(i) \subseteq Workers
    BY DEF Sending
  <1>2. Left(i) \subseteq Workers \X (1..RetryAttempts)
    BY DEF Left
  <1>3. Len(queue) \in Nat /\ DOMAIN queue = 1..Len(queue)
    BY DEF TypeOK
  <1>4. Queued(i) \subseteq 1..Len(queue)
    BY <1>3 DEF Queued
  <1> QED
    BY <1>1, <1>2, <1>3, <1>4, FiniteParts

LEMMA RowNumbers ==
    ASSUME TypeOK, NEW i \in Invitations
    PROVE  /\ delivery[i].attempts \in Nat /\ delivery[i].max \in Nat
           /\ delivery[i].locked \in BOOLEAN /\ credit[i] \in Int
  BY ConstantsType DEF TypeOK, Delivery

\* The rows keep their attempts and their locks.
LEMMA KeptRows ==
    ASSUME TypeOK, CoreInv, UNCHANGED <<deployment, queue, worker, credit, displaced>>,
           \A i \in Invitations : /\ delivery'[i].attempts = delivery[i].attempts
                                  /\ delivery'[i].max = delivery[i].max
                                  /\ delivery'[i].locked = delivery[i].locked
    PROVE  CoreInv'
  <1>1. QueueInv' /\ TriesInv' /\ TriesWithinBudget'
    BY DEF CoreInv, QueueInv, TriesInv, TriesWithinBudget
  <1>2. LockInv'
    BY WorkerInvitation DEF CoreInv, LockInv, Outbox
  <1>3. BudgetInv'
    <2>1. SUFFICES ASSUME NEW i \in Invitations
                   PROVE  OutboxBudget(i)' /\ QueueBudget(i)'
      BY DEF BudgetInv
    <2>2. Sending(i)' = Sending(i) /\ Queued(i)' = Queued(i) /\ Left(i)' = Left(i)
      BY DEF Sending, Queued, Left
    <2> QED
      BY <2>2 DEF CoreInv, BudgetInv, OutboxBudget, QueueBudget, Outbox
  <1> QED
    BY <1>1, <1>2, <1>3 DEF CoreInv

\* A statement writes the row of i: it allows n tries more, and it leaves the lock as it
\* is or takes it away.
LEMMA RowWritten ==
    ASSUME TypeOK, CoreInv, UNCHANGED <<deployment, queue, worker>>,
           NEW i \in Invitations, NEW row \in Delivery, NEW n \in Nat,
           Write(i, row), Entitle(i, n) \/ (n = 0 /\ UNCHANGED credit),
           row.attempts <= row.max,
           row.max - row.attempts <= delivery[i].max - delivery[i].attempts + n,
           \/ row.locked = delivery[i].locked /\ UNCHANGED displaced
           \/ ~row.locked /\ Unlock(i)
    PROVE  CoreInv'
  <1>1. /\ delivery \in [Invitations -> Delivery] /\ delivery'[i] = row
        /\ \A j \in Invitations \ {i} : delivery'[j] = delivery[j]
        /\ credit'[i] = credit[i] + n
        /\ \A j \in Invitations \ {i} : credit'[j] = credit[j]
    BY RowNumbers DEF TypeOK, Write, Entitle
  <1>2. QueueInv' /\ TriesInv' /\ TriesWithinBudget'
    <2>1. \A j \in Invitations : credit'[j] >= credit[j] /\ credit[j] \in Int /\ credit'[j] \in Int
      BY <1>1, RowNumbers
    <2> QED
      BY <1>1, <2>1 DEF CoreInv, QueueInv, TriesInv, TriesWithinBudget
  <1>3. LockInv'
    <2>1. CASE row.locked = delivery[i].locked /\ UNCHANGED displaced
      <3>1. \A j \in Invitations : delivery'[j].locked = delivery[j].locked
        BY <1>1, <2>1
      <3> QED
        BY <2>1, <3>1, WorkerInvitation DEF CoreInv, LockInv, Outbox
    <2>2. CASE ~row.locked /\ Unlock(i)
      <3>1. CASE delivery[i].locked
        <4>1. displaced' = displaced \cup Busy(i)
          BY <2>2, <3>1 DEF Unlock
        <4>2. \A w \in Workers \ displaced' :
                 w \notin displaced /\ (worker[w].pc # "idle" => worker[w].inv # i)
          BY <4>1 DEF Busy
        <4>3. Outbox => \A w \in displaced' : worker[w].pc # "idle"
          BY <4>1 DEF Busy, CoreInv, LockInv
        <4> QED
          BY <1>1, <4>2, <4>3, WorkerInvitation DEF CoreInv, LockInv, Outbox
      <3>2. CASE ~delivery[i].locked
        <4>1. displaced' = displaced
          BY <2>2, <3>2 DEF Unlock
        <4>2. \A j \in Invitations : delivery[j].locked => delivery'[j].locked
          BY <1>1, <3>2
        <4> QED
          BY <4>1, <4>2, WorkerInvitation DEF CoreInv, LockInv, Outbox
      <3> QED
        BY <3>1, <3>2
    <2> QED
      BY <2>1, <2>2
  <1>4. BudgetInv'
    <2>1. SUFFICES ASSUME NEW j \in Invitations
                   PROVE  OutboxBudget(j)' /\ QueueBudget(j)'
      BY DEF BudgetInv
    <2>2. Sending(j)' = Sending(j) /\ Queued(j)' = Queued(j) /\ Left(j)' = Left(j)
      BY DEF Sending, Queued, Left
    <2>3. Cardinality(Sending(j)) \in Nat
      BY Counts
    <2>4. OutboxBudget(j)'
      <3>1. Outbox => credit[j] >= delivery[j].max - delivery[j].attempts + Cardinality(Sending(j))
        BY DEF CoreInv, BudgetInv, OutboxBudget
      <3>2. row.max \in Int /\ row.attempts \in Int
        BY ConstantsType DEF Delivery
      <3> QED
        BY <1>1, <2>2, <2>3, <3>1, <3>2, RowNumbers DEF OutboxBudget, Outbox
    <2>5. QueueBudget(j)'
      <3> DEFINE owed == RetryAttempts * Cardinality(Queued(j)) + Cardinality(Left(j))
      <3>1. owed \in Int
        <4>1. Cardinality(Queued(j)) \in Nat /\ Cardinality(Left(j)) \in Nat
          BY Counts
        <4> QED
          BY <4>1, ConstantsType
      <3>2. deployment.mode = "memory" => credit[j] >= owed
        BY DEF CoreInv, BudgetInv, QueueBudget
      <3> HIDE DEF owed
      <3>3. deployment.mode = "memory" => credit'[j] >= owed
        BY <1>1, <3>1, <3>2, RowNumbers
      <3> QED
        BY <2>2, <3>3 DEF owed, QueueBudget
    <2> QED
      BY <2>4, <2>5
  <1> QED
    BY <1>2, <1>3, <1>4 DEF CoreInv

\* What the channel owes when one more invitation is in it.
LEMMA QueueGrows ==
    ASSUME NEW n \in Nat, NEW m, m = n + 1
    PROVE  RetryAttempts * m = RetryAttempts * n + RetryAttempts /\ RetryAttempts * n \in Int
  BY ConstantsType

\* SendToQueue puts an invitation into the channel.
LEMMA PutIntoQueue ==
    ASSUME TypeOK, CoreInv, UNCHANGED <<deployment, delivery, worker, displaced>>,
           NEW i \in Invitations, deployment.mode = "memory",
           queue' = Append(queue, i), Entitle(i, RetryAttempts)
    PROVE  CoreInv'
  <1>1. /\ credit'[i] = credit[i] + RetryAttempts
        /\ \A j \in Invitations \ {i} : credit'[j] = credit[j]
    BY DEF TypeOK, Entitle
  <1>2. QueueInv' /\ TriesInv' /\ LockInv'
    BY DEF CoreInv, QueueInv, TriesInv, LockInv, Outbox
  <1>3. TriesWithinBudget'
    BY <1>1, RowNumbers, ConstantsType DEF CoreInv, TriesWithinBudget
  <1>4. BudgetInv'
    <2>1. SUFFICES ASSUME NEW j \in Invitations
                   PROVE  QueueBudget(j)'
      BY DEF BudgetInv, OutboxBudget, Outbox
    <2>2. Left(j)' = Left(j)
      BY DEF Left, Sending
    <2>3. /\ queue \in Seq(Invitations) /\ Len(queue) \in Nat /\ DOMAIN queue = 1..Len(queue)
          /\ DOMAIN queue' = 1..(Len(queue) + 1)
          /\ \A k \in 1..Len(queue) : queue'[k] = queue[k]
          /\ queue'[Len(queue) + 1] = i
      BY DEF TypeOK
    <2>4. credit[j] >= RetryAttempts * Cardinality(Queued(j)) + Cardinality(Left(j))
      BY DEF CoreInv, BudgetInv, QueueBudget
    <2>5. CASE j # i
      <3>1. Queued(j)' = Queued(j)
        BY <2>3, <2>5 DEF Queued
      <3> QED
        BY <1>1, <2>2, <2>4, <2>5, <3>1 DEF QueueBudget
    <2>6. CASE j = i
      <3>1. Queued(j)' = Queued(j) \cup {Len(queue) + 1}
        BY <2>3, <2>6 DEF Queued
      <3>2. Len(queue) + 1 \notin Queued(j)
        BY <2>3 DEF Queued
      <3>3. Cardinality(Queued(j)') = Cardinality(Queued(j)) + 1
        BY <3>1, <3>2, Counts, FS_AddElement
      <3> DEFINE old == RetryAttempts * Cardinality(Queued(j))
                 new == RetryAttempts * Cardinality(Queued(j)')
      <3>4. new = old + RetryAttempts /\ old \in Int
        <4>1. Cardinality(Queued(j)) \in Nat
          BY Counts
        <4> QED
          BY <3>3, <4>1, QueueGrows
      <3> HIDE DEF old, new
      <3>5. credit'[j] >= new + Cardinality(Left(j))
        BY <1>1, <2>4, <2>6, <3>4, Counts, RowNumbers, ConstantsType DEF old
      <3> QED
        BY <2>2, <3>5 DEF new, QueueBudget
    <2> QED
      BY <2>5, <2>6
  <1> QED
    BY <1>2, <1>3, <1>4 DEF CoreInv

\* TakeFromQueue makes the tries that the channel owed the tries of a worker.
LEMMA TakenFromQueue ==
    ASSUME TypeOK, CoreInv, NEW w \in Workers, TakeFromQueue(w)
    PROVE  CoreInv'
  <1> DEFINE i == Head(queue)
             state == [pc |-> "sending", inv |-> i, attempt |-> 1, max |-> RetryAttempts]
  <1>1. /\ queue \in Seq(Invitations) /\ Len(queue) \in Nat /\ Len(queue) > 0
        /\ DOMAIN queue = 1..Len(queue) /\ queue[1] = i /\ i \in Invitations
        /\ DOMAIN queue' = 1..(Len(queue) - 1)
        /\ \A k \in 1..(Len(queue) - 1) : queue'[k] = queue[k + 1]
    BY DEF TakeFromQueue, TypeOK
  <1>2. /\ worker \in [Workers -> WorkerState] /\ worker[w].pc = "idle"
        /\ worker' = [worker EXCEPT ![w] = state]
        /\ UNCHANGED <<deployment, delivery, credit, displaced>>
    BY DEF TakeFromQueue, TypeOK, history
  <1>3. deployment.mode = "memory" /\ ~Outbox
    BY DEF CoreInv, QueueInv, TakeFromQueue, Outbox
  <1>s. /\ state.pc = "sending" /\ state.inv = i /\ state.attempt = 1 /\ state.max = RetryAttempts
    OBVIOUS
  <1> HIDE DEF i, state
  <1>4. QueueInv' /\ TriesInv' /\ LockInv' /\ TriesWithinBudget'
    BY <1>2, <1>3, <1>s, ConstantsType
       DEF CoreInv, QueueInv, TriesInv, LockInv, Outbox, TriesWithinBudget
  <1>5. BudgetInv'
    <2>1. SUFFICES ASSUME NEW j \in Invitations
                   PROVE  QueueBudget(j)'
      BY <1>2, <1>3 DEF BudgetInv, OutboxBudget, Outbox
    <2>2. credit[j] >= RetryAttempts * Cardinality(Queued(j)) + Cardinality(Left(j))
      BY <1>3 DEF CoreInv, BudgetInv, QueueBudget
    <2> DEFINE Shift == [k \in Queued(j)' |-> k + 1]
    <2>3. Cardinality(Queued(j)') = Cardinality(Queued(j) \ {1})
      <3>1. \A k \in Queued(j)' : k + 1 \in Queued(j) \ {1} /\ k \in Int
        BY <1>1 DEF Queued
      <3>2. \A m \in Queued(j) \ {1} : m - 1 \in Queued(j)' /\ m \in Int
        BY <1>1 DEF Queued
      <3>3. \A m \in Queued(j) \ {1} : \E k \in Queued(j)' : Shift[k] = m
        <4>1. TAKE m \in Queued(j) \ {1}
        <4>2. m - 1 \in Queued(j)' /\ Shift[m - 1] = m
          BY <3>2
        <4> QED
          BY <4>2
      <3>4. Shift \in Surjection(Queued(j)', Queued(j) \ {1})
        BY <3>1, <3>3 DEF Surjection
      <3>5. Shift \in Injection(Queued(j)', Queued(j) \ {1})
        BY <3>1 DEF Injection, IsInjective
      <3>6. IsFiniteSet(Queued(j) \ {1})
        BY Counts, FS_RemoveElement
      <3> HIDE DEF Shift
      <3> QED
        BY <3>4, <3>5, <3>6, FS_Injection
    <2>5. CASE j # i
      <3>1. Left(j)' = Left(j)
        BY <1>2, <1>s, <2>5 DEF Left, Sending
      <3>2. Queued(j) \ {1} = Queued(j)
        BY <1>1, <2>5 DEF Queued
      <3> QED
        BY <1>2, <2>2, <2>3, <3>1, <3>2 DEF QueueBudget
    <2>6. CASE j = i
      <3>1. 1 \in Queued(j)
        BY <1>1, <2>6 DEF Queued
      <3>2. Cardinality(Queued(j)') = Cardinality(Queued(j)) - 1
        BY <2>3, <3>1, Counts, FS_RemoveElement
      <3>3. Left(j)' = Left(j) \cup ({w} \X (1..RetryAttempts))
        BY <1>2, <1>s, <2>6, ConstantsType DEF Left, Sending
      <3>4. Left(j) \cap ({w} \X (1..RetryAttempts)) = {}
        BY <1>2 DEF Left, Sending
      <3>5. /\ IsFiniteSet({w} \X (1..RetryAttempts))
            /\ Cardinality({w} \X (1..RetryAttempts)) = RetryAttempts
        <4>1. IsFiniteSet({w}) /\ Cardinality({w}) = 1
          BY FS_Singleton
        <4>2. IsFiniteSet(1..RetryAttempts) /\ Cardinality(1..RetryAttempts) = RetryAttempts
          BY FS_Interval, ConstantsType
        <4>3. 1 * RetryAttempts = RetryAttempts
          BY ConstantsType
        <4>4. /\ IsFiniteSet({w} \X (1..RetryAttempts))
              /\ Cardinality({w} \X (1..RetryAttempts))
                   = Cardinality({w}) * Cardinality(1..RetryAttempts)
          BY <4>1, <4>2, FS_Product
        <4> QED
          BY <4>1, <4>2, <4>3, <4>4
      <3>6. Cardinality(Left(j)') = Cardinality(Left(j)) + RetryAttempts
        <4> DEFINE tries == {w} \X (1..RetryAttempts)
        <4> HIDE DEF tries
        <4>1. Cardinality(Left(j) \cap tries) = 0
          BY <3>4, FS_EmptySet DEF tries
        <4>2. IsFiniteSet(tries) /\ Cardinality(tries) = RetryAttempts
          BY <3>5 DEF tries
        <4>3. IsFiniteSet(Left(j)) /\ Cardinality(Left(j)) \in Nat
          BY Counts
        <4>4. Cardinality(Left(j) \cup tries)
                = Cardinality(Left(j)) + Cardinality(tries) - Cardinality(Left(j) \cap tries)
          BY <4>2, <4>3, FS_Union
        <4> QED
          BY <3>3, <4>1, <4>2, <4>3, <4>4, ConstantsType DEF tries
      <3> DEFINE old == RetryAttempts * Cardinality(Queued(j))
                 new == RetryAttempts * Cardinality(Queued(j)')
      <3>7. old = new + RetryAttempts /\ new \in Int
        <4>1. Cardinality(Queued(j)') \in Nat
          BY <2>3, Counts, FS_RemoveElement, FS_CardinalityType
        <4>2. Cardinality(Queued(j)) = Cardinality(Queued(j)') + 1
          BY <3>2, <4>1, Counts
        <4> QED
          BY <4>1, <4>2, QueueGrows
      <3> HIDE DEF old, new
      <3>8. credit[j] >= new + Cardinality(Left(j)')
        BY <2>2, <3>6, <3>7, Counts, RowNumbers, ConstantsType DEF old
      <3> QED
        BY <1>2, <3>8 DEF new, QueueBudget
    <2> QED
      BY <2>5, <2>6
  <1> QED
    BY <1>4, <1>5 DEF CoreInv

\* A transmission takes one try from the credit of i.
LEMMA Charged ==
    ASSUME TypeOK, NEW i \in Invitations, NEW accepted, Transmit(i, accepted)
    PROVE  /\ credit'[i] = credit[i] - 1
           /\ \A j \in Invitations \ {i} : credit'[j] = credit[j]
  BY DEF TypeOK, Transmit, Entitle

\* DeliverFromQueue uses a try that its worker had left.
LEMMA DeliveredFromQueue ==
    ASSUME TypeOK, CoreInv, NEW w \in Workers, DeliverFromQueue(w)
    PROVE  CoreInv'
  <1> DEFINE i == worker[w].inv
             used == worker[w].attempt
  <1>1. /\ worker \in [Workers -> WorkerState] /\ worker[w].pc = "sending" /\ i \in Invitations
        /\ deployment.mode = "memory" /\ ~Outbox /\ used \in Int
        /\ UNCHANGED <<deployment, delivery, queue, displaced>>
    BY WorkerInvitation DEF DeliverFromQueue, Outbox, TypeOK, WorkerState
  <1>2. used \in 1..RetryAttempts /\ worker[w].max = RetryAttempts
    BY <1>1 DEF CoreInv, QueueInv, TriesInv
  <1>3. \/ worker' = [worker EXCEPT ![w] = IdleWorker]
        \/ used + 1 \in 1..RetryAttempts /\ worker' = [worker EXCEPT ![w].attempt = used + 1]
    BY <1>1, <1>2, ConstantsType DEF DeliverFromQueue
  <1>4. \A j \in Invitations : credit'[j] = IF j = i THEN credit[j] - 1 ELSE credit[j]
    BY <1>1, Charged DEF DeliverFromQueue
  <1>5. LockInv'
    BY <1>1 DEF LockInv, Outbox
  <1>w. /\ \A v \in Workers \ {w} : worker'[v] = worker[v]
        /\ \/ worker'[w].pc = "idle"
           \/ /\ worker'[w].pc = "sending" /\ worker'[w].max = RetryAttempts
              /\ worker'[w].inv = i
              /\ worker'[w].attempt = used + 1 /\ used + 1 \in 1..RetryAttempts
    <2>1. CASE worker' = [worker EXCEPT ![w] = IdleWorker]
      BY <1>1, <2>1 DEF IdleWorker
    <2>2. CASE used + 1 \in 1..RetryAttempts /\ worker' = [worker EXCEPT ![w].attempt = used + 1]
      <3>1. worker'[w] = [worker[w] EXCEPT !.attempt = used + 1] /\ worker[w] \in WorkerState
        BY <1>1, <2>2
      <3>2. /\ worker'[w].pc = "sending" /\ worker'[w].max = RetryAttempts
            /\ worker'[w].inv = i /\ worker'[w].attempt = used + 1
        BY <1>1, <1>2, <3>1 DEF WorkerState
      <3> QED
        BY <1>1, <2>2, <3>2
    <2> QED
      BY <1>3, <2>1, <2>2
  <1>6. QueueInv' /\ TriesInv'
    BY <1>1, <1>w DEF CoreInv, QueueInv, TriesInv
  <1>7. \A j \in Invitations :
           /\ QueueBudget(j)'
           /\ credit'[j] >= 0
    <2>1. TAKE j \in Invitations
    <2>2. credit[j] >= RetryAttempts * Cardinality(Queued(j)) + Cardinality(Left(j))
      BY <1>1 DEF CoreInv, BudgetInv, QueueBudget
    <2>3. Queued(j)' = Queued(j)
      BY <1>1 DEF Queued
    <2>4. Left(j)' \subseteq Left(j)
      BY <1>1, <1>w DEF Left, Sending
    <2>5. j = i => <<w, used>> \in Left(j) /\ <<w, used>> \notin Left(j)'
      BY <1>1, <1>2, <1>w DEF Left, Sending
    <2>6. /\ Cardinality(Left(j)') \in Nat
          /\ Cardinality(Left(j)') <= Cardinality(Left(j))
          /\ j = i => Cardinality(Left(j)') <= Cardinality(Left(j)) - 1
      <3>1. IsFiniteSet(Left(j)) /\ Cardinality(Left(j)) \in Nat
        BY Counts
      <3>2. IsFiniteSet(Left(j) \ {<<w, used>>})
        BY <3>1, FS_RemoveElement
      <3>3. j = i => /\ Left(j)' \subseteq Left(j) \ {<<w, used>>}
                     /\ Cardinality(Left(j) \ {<<w, used>>}) = Cardinality(Left(j)) - 1
        <4>1. ASSUME NEW x, x \in Left(j)
              PROVE  Cardinality(Left(j) \ {x}) = Cardinality(Left(j)) - 1
          BY <3>1, <4>1, FS_RemoveElement
        <4> QED
          BY <2>4, <2>5, <4>1
      <3>4. Cardinality(Left(j)') <= Cardinality(Left(j)) /\ Cardinality(Left(j)') \in Nat
        BY <2>4, <3>1, FS_Subset, FS_CardinalityType
      <3>5. j = i => Cardinality(Left(j)') <= Cardinality(Left(j) \ {<<w, used>>})
        BY <3>2, <3>3, FS_Subset
      <3> QED
        BY <3>3, <3>4, <3>5
    <2> DEFINE owed == RetryAttempts * Cardinality(Queued(j))
    <2>7. owed \in Nat
      <3>1. Cardinality(Queued(j)) \in Nat
        BY Counts
      <3> QED
        BY <3>1, ConstantsType
    <2>8. credit'[j] >= owed + Cardinality(Left(j)') /\ credit'[j] >= 0
      <3>1. credit[j] >= owed + Cardinality(Left(j))
        BY <2>2
      <3>2. Cardinality(Left(j)) \in Nat /\ credit[j] \in Int
        BY Counts, RowNumbers
      <3> HIDE DEF owed
      <3> QED
        BY <1>4, <2>6, <2>7, <3>1, <3>2
    <2> QED
      BY <2>3, <2>8 DEF QueueBudget
  <1> QED
    BY <1>1, <1>5, <1>6, <1>7 DEF CoreInv, BudgetInv, OutboxBudget, TriesWithinBudget, Outbox

\* A worker of the outbox claims i. Rows that are failed on the way were not locked.
LEMMA Claimed ==
    ASSUME TypeOK, CoreInv, UNCHANGED <<deployment, queue, credit, displaced>>, Outbox,
           NEW w \in Workers, worker[w].pc = "idle",
           NEW i \in Invitations, Due(i), ~Spent(i), StartSending(w, i),
           delivery'[i] = ClaimedRow(i),
           \A j \in Invitations \ {i} : /\ delivery'[j].attempts = delivery[j].attempts
                                        /\ delivery'[j].max = delivery[j].max
                                        /\ delivery'[j].locked = delivery[j].locked
    PROVE  CoreInv'
  <1>1. /\ worker'[w].pc = "sending" /\ worker'[w].inv = i
        /\ worker'[w].attempt \in 1..worker'[w].max
    BY StartSendingType
  <1>2. \A v \in Workers \ {w} : worker'[v] = worker[v]
    BY DEF StartSending, TypeOK
  <1>3. /\ delivery'[i].attempts = delivery[i].attempts + 1 /\ delivery'[i].max = delivery[i].max
        /\ delivery'[i].locked /\ ~delivery[i].locked
        /\ delivery[i].attempts < delivery[i].max
    <2>1. delivery[i] \in Delivery
      BY DEF TypeOK
    <2> QED
      BY <2>1, RowNumbers DEF ClaimedRow, Due, Spent, Delivery
  <1>4. deployment.mode # "memory"
    BY DEF Outbox
  <1>5. QueueInv' /\ TriesInv' /\ TriesWithinBudget'
    <2>1. QueueInv' /\ TriesWithinBudget'
      BY <1>4 DEF CoreInv, QueueInv, TriesWithinBudget
    <2>2. \A j \in Invitations : delivery'[j].attempts <= delivery'[j].max
      <3>1. delivery'[i].attempts <= delivery'[i].max
        BY <1>3, RowNumbers
      <3> QED
        BY <3>1 DEF CoreInv, TriesInv
    <2>3. \A v \in Workers : worker'[v].pc # "idle" => worker'[v].attempt \in 1..worker'[v].max
      BY <1>1, <1>2 DEF CoreInv, TriesInv
    <2> QED
      BY <2>1, <2>2, <2>3 DEF TriesInv
  <1>6. LockInv'
    <2>1. w \notin displaced /\ \A v \in displaced : worker[v].pc # "idle"
      BY DEF CoreInv, LockInv
    <2>2. \A v \in displaced : worker'[v].pc # "idle"
      BY <1>2, <2>1 DEF TypeOK
    <2>3. \A v \in Workers \ displaced :
             v # w /\ worker'[v].pc # "idle" => worker[v].inv # i /\ delivery[worker[v].inv].locked
      BY <1>2, <1>3 DEF CoreInv, LockInv
    <2>4. \A u, v \in Workers \ displaced :
             worker'[u].pc # "idle" /\ worker'[v].pc # "idle" /\ worker'[u].inv = worker'[v].inv
               => u = v
      BY <1>1, <1>2, <2>3 DEF CoreInv, LockInv
    <2>5. \A v \in Workers \ displaced :
             worker'[v].pc # "idle" => delivery'[worker'[v].inv].locked
      BY <1>1, <1>2, <1>3, <2>3, WorkerInvitation
    <2> QED
      BY <2>2, <2>4, <2>5 DEF LockInv
  <1>7. BudgetInv'
    <2>1. SUFFICES ASSUME NEW j \in Invitations
                   PROVE  credit[j] >= delivery'[j].max - delivery'[j].attempts
                                         + Cardinality(Sending(j)')
      BY <1>4 DEF BudgetInv, OutboxBudget, QueueBudget
    <2>2. credit[j] >= delivery[j].max - delivery[j].attempts + Cardinality(Sending(j))
      BY DEF CoreInv, BudgetInv, OutboxBudget
    <2>3. CASE j # i
      <3>1. Sending(j)' = Sending(j)
        BY <1>1, <1>2, <2>3 DEF Sending
      <3> QED
        BY <2>2, <2>3, <3>1
    <2>4. CASE j = i
      <3>1. Sending(j)' = Sending(j) \cup {w} /\ w \notin Sending(j)
        BY <1>1, <1>2, <2>4 DEF Sending
      <3>2. Cardinality(Sending(j)') = Cardinality(Sending(j)) + 1
        BY <3>1, Counts, FS_AddElement
      <3>3. Cardinality(Sending(j)) \in Nat
        BY Counts
      <3> QED
        BY <1>3, <2>2, <2>4, <3>2, <3>3, RowNumbers
    <2> QED
      BY <2>3, <2>4
  <1> QED
    BY <1>5, <1>6, <1>7 DEF CoreInv

LEMMA MemoryClaimed ==
    ASSUME TypeOK, CoreInv, NEW w \in Workers, MemoryClaimDue(w)
    PROVE  CoreInv'
  <1>1. PICK met \in SUBSET {i \in Invitations : MemoryUnsendable(i)} :
              \/ \E i \in Invitations :
                    /\ MemorySendable(i)
                    /\ delivery' = [FailRows(met) EXCEPT ![i] = ClaimedRow(i)]
                    /\ StartSending(w, i)
              \/ delivery' = FailRows(met) /\ UNCHANGED worker
    BY DEF MemoryClaimDue
  <1>2. /\ worker[w].pc = "idle" /\ Outbox
        /\ UNCHANGED <<deployment, queue, credit, displaced>>
    BY DEF MemoryClaimDue, history
  <1>3. ASSUME NEW j \in Invitations
        PROVE  /\ FailRows(met)[j].attempts = delivery[j].attempts
               /\ FailRows(met)[j].max = delivery[j].max
               /\ FailRows(met)[j].locked = delivery[j].locked
    <2>1. delivery[j] \in Delivery
      BY DEF TypeOK
    <2>2. FailRows(met)[j] = IF j \in met THEN [delivery[j] EXCEPT !.status = "failed",
                                                                   !.locked = FALSE]
                                          ELSE delivery[j]
      BY DEF FailRows
    <2>3. j \in met => delivery[j].locked = FALSE
      BY RowNumbers DEF MemoryUnsendable, Due
    <2> QED
      BY <2>1, <2>2, <2>3 DEF Delivery
  <1>4. CASE delivery' = FailRows(met) /\ UNCHANGED worker
    BY <1>2, <1>3, <1>4, KeptRows
  <1>5. ASSUME NEW i \in Invitations, MemorySendable(i), StartSending(w, i),
               delivery' = [FailRows(met) EXCEPT ![i] = ClaimedRow(i)]
        PROVE  CoreInv'
    <2>1. delivery'[i] = ClaimedRow(i) /\ \A j \in Invitations \ {i} : delivery'[j] = FailRows(met)[j]
      BY <1>5 DEF FailRows
    <2> QED
      BY <1>2, <1>3, <1>5, <2>1, Claimed DEF MemorySendable
  <1> QED
    BY <1>1, <1>4, <1>5

LEMMA PostgresClaimed ==
    ASSUME TypeOK, CoreInv, NEW w \in Workers, PostgresClaimDue(w)
    PROVE  CoreInv'
  <1>1. PICK i \in Invitations :
            PostgresSendable(i) /\ Write(i, ClaimedRow(i)) /\ StartSending(w, i)
    BY DEF PostgresClaimDue
  <1>2. /\ worker[w].pc = "idle" /\ Outbox
        /\ UNCHANGED <<deployment, queue, credit, displaced>>
    BY DEF PostgresClaimDue, history
  <1>3. delivery'[i] = ClaimedRow(i) /\ \A j \in Invitations \ {i} : delivery'[j] = delivery[j]
    BY <1>1 DEF Write, TypeOK
  <1> QED
    BY <1>1, <1>2, <1>3, Claimed DEF PostgresSendable

\* Deliver uses the try that its claim has counted.
LEMMA Delivered ==
    ASSUME TypeOK, CoreInv, NEW w \in Workers, Deliver(w)
    PROVE  CoreInv'
  <1> DEFINE i == worker[w].inv
  <1>1. PICK accepted \in BOOLEAN :
            /\ Transmit(i, accepted)
            /\ worker' = [worker EXCEPT ![w].pc = IF accepted THEN "sent" ELSE "unsent"]
    BY DEF Deliver
  <1>2. /\ worker[w].pc = "sending" /\ Outbox /\ deployment.mode # "memory" /\ i \in Invitations
        /\ UNCHANGED <<deployment, delivery, queue, displaced>>
    BY WorkerInvitation DEF Deliver, Outbox
  <1>3. /\ \A v \in Workers \ {w} : worker'[v] = worker[v]
        /\ worker'[w].pc \in {"sent", "unsent"} /\ worker'[w].inv = i
        /\ worker'[w].attempt = worker[w].attempt /\ worker'[w].max = worker[w].max
    BY <1>1 DEF TypeOK, WorkerState
  <1>4. \A j \in Invitations : credit'[j] = IF j = i THEN credit[j] - 1 ELSE credit[j]
    BY <1>1, <1>2, Charged
  <1>5. QueueInv' /\ TriesInv'
    BY <1>2, <1>3 DEF CoreInv, QueueInv, TriesInv
  <1>6. LockInv'
    <2>1. \A v \in Workers : /\ worker'[v].inv = worker[v].inv
                             /\ worker'[v].pc # "idle" <=> worker[v].pc # "idle"
      BY <1>2, <1>3
    <2>2. displaced \subseteq Workers
      BY DEF TypeOK
    <2> QED
      BY <1>2, <2>1, <2>2 DEF CoreInv, LockInv, Outbox
  <1>7. \A j \in Invitations : OutboxBudget(j)' /\ credit'[j] >= 0
    <2>1. TAKE j \in Invitations
    <2>2. credit[j] >= delivery[j].max - delivery[j].attempts + Cardinality(Sending(j))
      BY <1>2 DEF CoreInv, BudgetInv, OutboxBudget
    <2>3. delivery[j].max - delivery[j].attempts >= 0
      BY RowNumbers DEF CoreInv, TriesInv
    <2>4. IsFiniteSet(Sending(j)) /\ Cardinality(Sending(j)) \in Nat
      BY Counts
    <2>5. CASE j # i
      <3>1. Sending(j)' = Sending(j)
        BY <1>3, <2>5 DEF Sending
      <3> QED
        BY <1>2, <1>4, <2>2, <2>3, <2>4, <2>5, <3>1, RowNumbers DEF OutboxBudget
    <2>6. CASE j = i
      <3>1. Sending(j)' = Sending(j) \ {w} /\ w \in Sending(j)
        BY <1>2, <1>3, <2>6 DEF Sending
      <3>2. Cardinality(Sending(j)') = Cardinality(Sending(j)) - 1
        BY <2>4, <3>1, FS_RemoveElement
      <3>3. Cardinality(Sending(j)') \in Nat
        BY <2>4, <3>1, FS_RemoveElement, FS_CardinalityType
      <3> QED
        BY <1>2, <1>4, <2>2, <2>3, <2>4, <2>6, <3>2, <3>3, RowNumbers DEF OutboxBudget
    <2> QED
      BY <2>5, <2>6
  <1> QED
    BY <1>2, <1>5, <1>6, <1>7 DEF CoreInv, BudgetInv, QueueBudget, TriesWithinBudget

\* Mark takes the lock from the row, whoever holds it, and frees its worker.
LEMMA Marked ==
    ASSUME TypeOK, CoreInv, NEW w \in Workers, Mark(w)
    PROVE  CoreInv'
  <1> DEFINE i == worker[w].inv
  <1>1. /\ worker[w].pc \in {"sent", "unsent"} /\ i \in Invitations
        /\ UNCHANGED <<deployment, queue, credit>>
        /\ deployment.mode # "memory"
    BY WorkerInvitation DEF Mark, CoreInv, QueueInv
  <1>2. worker'[w].pc = "idle" /\ \A v \in Workers \ {w} : worker'[v] = worker[v]
    BY DEF Mark, TypeOK, IdleWorker
  <1>3. \/ UNCHANGED delivery
        \/ /\ ~delivery'[i].locked
           /\ delivery'[i].attempts = delivery[i].attempts /\ delivery'[i].max = delivery[i].max
           /\ \A j \in Invitations \ {i} : delivery'[j] = delivery[j]
    <2>1. delivery[i] \in Delivery /\ delivery \in [Invitations -> Delivery]
      BY <1>1 DEF TypeOK
    <2>2. CASE MarkInvitationEmailSent(i)
      BY <1>1, <2>1, <2>2 DEF MarkInvitationEmailSent, Write, Delivery
    <2>3. ASSUME NEW terminal \in BOOLEAN, MarkInvitationEmailFailed(i, terminal)
          PROVE  /\ ~delivery'[i].locked
                 /\ delivery'[i].attempts = delivery[i].attempts /\ delivery'[i].max = delivery[i].max
                 /\ \A j \in Invitations \ {i} : delivery'[j] = delivery[j]
      <3> DEFINE status == IF terminal THEN "failed" ELSE "pending"
                 due == terminal /\ delivery[i].due
                 row == [delivery[i] EXCEPT !.status = status, !.due = due, !.locked = FALSE]
      <3>1. delivery' = [delivery EXCEPT ![i] = row]
        BY <2>3 DEF MarkInvitationEmailFailed, Write
      <3>2. /\ ~row.locked /\ row.attempts = delivery[i].attempts
            /\ row.max = delivery[i].max
        <4> HIDE DEF status, due
        <4> QED
          BY <2>1 DEF Delivery
      <3> HIDE DEF row
      <3> QED
        BY <1>1, <2>1, <3>1, <3>2
    <2> DEFINE exhausted == worker[w].attempt >= worker[w].max
    <2>4. \/ MarkInvitationEmailSent(i) \/ MarkInvitationEmailFailed(i, exhausted)
          \/ UNCHANGED delivery
      BY DEF Mark
    <2>5. exhausted \in BOOLEAN
      OBVIOUS
    <2> HIDE DEF exhausted
    <2> QED
      BY <2>2, <2>3, <2>4, <2>5
  <1>4. displaced' = IF delivery' = delivery THEN displaced \ {w} ELSE (displaced \cup Busy(i)) \ {w}
    BY DEF Mark
  <1> HIDE DEF i
  <1>5. QueueInv' /\ TriesInv' /\ TriesWithinBudget'
    <2>1. \A j \in Invitations : delivery'[j].attempts <= delivery'[j].max
      BY <1>1, <1>3 DEF CoreInv, TriesInv
    <2> QED
      BY <1>1, <1>2, <2>1 DEF CoreInv, QueueInv, TriesInv, TriesWithinBudget
  <1>6. LockInv'
    <2>1. SUFFICES ASSUME Outbox
                   PROVE  LockInv'
      BY <1>1 DEF LockInv, Outbox
    <2>2. \A v \in displaced' : worker'[v].pc # "idle"
      BY <1>1, <1>2, <1>4, <2>1 DEF CoreInv, LockInv, Busy, TypeOK
    <2>3. \A v \in Workers \ displaced' :
             worker'[v].pc # "idle" => v # w /\ v \notin displaced /\ worker'[v] = worker[v]
      BY <1>2, <1>4
    <2>4. \A u, v \in Workers \ displaced' :
             worker'[u].pc # "idle" /\ worker'[v].pc # "idle" /\ worker'[u].inv = worker'[v].inv
               => u = v
      BY <2>1, <2>3 DEF CoreInv, LockInv
    <2>5. \A v \in Workers \ displaced' :
             worker'[v].pc # "idle" => delivery'[worker'[v].inv].locked
      <3>1. SUFFICES ASSUME NEW v \in Workers \ displaced', worker'[v].pc # "idle"
                     PROVE  delivery'[worker[v].inv].locked
        BY <2>3
      <3>2. v # w /\ v \notin displaced /\ worker[v].pc # "idle"
        BY <2>3, <3>1
      <3>3. delivery[worker[v].inv].locked /\ worker[v].inv \in Invitations
        BY <2>1, <3>2, WorkerInvitation DEF CoreInv, LockInv
      <3>4. delivery' = delivery \/ worker[v].inv # i
        BY <1>4, <3>1, <3>2 DEF Busy
      <3> QED
        BY <1>3, <3>3, <3>4
    <2> QED
      BY <2>2, <2>4, <2>5 DEF LockInv
  <1>7. BudgetInv'
    <2>1. SUFFICES ASSUME NEW j \in Invitations, Outbox
                   PROVE  credit[j] >= delivery'[j].max - delivery'[j].attempts
                                         + Cardinality(Sending(j)')
      BY <1>1 DEF BudgetInv, OutboxBudget, QueueBudget, Outbox
    <2>2. credit[j] >= delivery[j].max - delivery[j].attempts + Cardinality(Sending(j))
      BY <2>1 DEF CoreInv, BudgetInv, OutboxBudget
    <2>3. Sending(j)' = Sending(j)
      BY <1>1, <1>2 DEF Sending
    <2>4. delivery'[j].max = delivery[j].max /\ delivery'[j].attempts = delivery[j].attempts
      BY <1>1, <1>3
    <2> QED
      BY <2>2, <2>3, <2>4
  <1> QED
    BY <1>5, <1>6, <1>7 DEF CoreInv

\* What the row promises stays within its credit when the workers are gone.
LEMMA Crashed ==
    ASSUME TypeOK, CoreInv, Crash
    PROVE  CoreInv'
  <1>1. /\ UNCHANGED <<deployment, delivery, credit>> /\ queue' = <<>> /\ displaced' = {}
        /\ \A w \in Workers : worker'[w].pc = "idle"
    BY DEF Crash, IdleWorker
  <1>2. QueueInv' /\ TriesInv' /\ LockInv' /\ TriesWithinBudget'
    BY <1>1 DEF CoreInv, QueueInv, TriesInv, LockInv, TriesWithinBudget
  <1>3. ASSUME NEW j \in Invitations
        PROVE  OutboxBudget(j)' /\ QueueBudget(j)'
    <2>1. Sending(j)' = {} /\ Left(j)' = {} /\ Queued(j)' = {}
      BY <1>1 DEF Sending, Left, Queued
    <2>2. /\ Cardinality(Sending(j)') = 0 /\ Cardinality(Left(j)') = 0
          /\ Cardinality(Queued(j)') = 0
      BY <2>1, FS_EmptySet
    <2>3. credit[j] >= 0 /\ credit[j] \in Int
      BY RowNumbers DEF CoreInv, TriesWithinBudget
    <2>4. OutboxBudget(j)'
      <3>1. Outbox => credit[j] >= delivery[j].max - delivery[j].attempts + Cardinality(Sending(j))
        BY DEF CoreInv, BudgetInv, OutboxBudget
      <3>2. Cardinality(Sending(j)) \in Nat
        BY Counts
      <3> QED
        BY <1>1, <2>2, <2>3, <3>1, <3>2, RowNumbers DEF OutboxBudget, Outbox
    <2>5. QueueBudget(j)'
      BY <1>1, <2>2, <2>3, ConstantsType DEF QueueBudget
    <2> QED
      BY <2>4, <2>5
  <1> QED
    BY <1>2, <1>3 DEF CoreInv, BudgetInv

\* The statements that write one row.
LEMMA ResetKeeps ==
    ASSUME TypeOK, CoreInv, NEW i \in Invitations, ResetDelivery(i),
           UNCHANGED <<deployment, queue, worker>>
    PROVE  CoreInv'
  <1> DEFINE row == PendingDelivery(1)
  <1>1. row \in Delivery
    BY InitialTypes, ConstantsType
  <1>2. row.attempts = 0 /\ row.max = 1 /\ ~row.locked
    BY DEF PendingDelivery
  <1>3. Write(i, row) /\ Entitle(i, 1) /\ Unlock(i)
    BY DEF ResetDelivery
  <1>4. delivery[i].attempts <= delivery[i].max
    BY DEF CoreInv, TriesInv
  <1> HIDE DEF row
  <1>5. row.max - row.attempts <= delivery[i].max - delivery[i].attempts + 1
    BY <1>2, <1>4, RowNumbers
  <1>6. row.attempts <= row.max
    BY <1>2
  <1> QED
    BY <1>1, <1>2, <1>3, <1>5, <1>6, RowWritten

LEMMA InsertKeeps ==
    ASSUME TypeOK, CoreInv, NEW i \in Invitations,
           InsertDelivery(i) \/ UNCHANGED <<delivery, credit>>,
           UNCHANGED <<deployment, queue, worker, displaced>>
    PROVE  CoreInv'
  <1>1. CASE UNCHANGED <<delivery, credit>>
    BY <1>1, KeptRows
  <1>2. CASE InsertDelivery(i) /\ delivery[i] = NoDelivery
    <2> DEFINE row == PendingDelivery(RetryAttempts)
    <2>1. row \in Delivery
      BY InitialTypes, ConstantsType
    <2>2. row.attempts = 0 /\ row.max = RetryAttempts /\ row.locked = FALSE
      BY DEF PendingDelivery
    <2>3. Write(i, row) /\ Entitle(i, RetryAttempts)
      BY <1>2 DEF InsertDelivery
    <2>4. delivery[i].attempts = 0 /\ delivery[i].max = 0 /\ delivery[i].locked = FALSE
      BY <1>2 DEF NoDelivery
    <2> HIDE DEF row
    <2>5. row.max - row.attempts <= delivery[i].max - delivery[i].attempts + RetryAttempts
      BY <2>2, <2>4, ConstantsType
    <2>6. row.attempts <= row.max
      BY <2>2, ConstantsType
    <2>7. row.locked = delivery[i].locked
      BY <2>2, <2>4
    <2> QED
      BY <2>1, <2>3, <2>5, <2>6, <2>7, RowWritten, ConstantsType
  <1> QED
    BY <1>1, <1>2 DEF InsertDelivery

\* A statement that leaves the attempts of the row alone.
LEMMA StatusKeeps ==
    ASSUME TypeOK, CoreInv, NEW i \in Invitations, NEW row \in Delivery, Write(i, row),
           row.attempts = delivery[i].attempts, row.max = delivery[i].max,
           \/ row.locked = delivery[i].locked /\ UNCHANGED displaced
           \/ ~row.locked /\ Unlock(i),
           UNCHANGED <<deployment, queue, worker, credit>>
    PROVE  CoreInv'
  <1>1. delivery[i].attempts <= delivery[i].max
    BY DEF CoreInv, TriesInv
  <1>2. /\ row.attempts <= row.max
        /\ row.max - row.attempts <= delivery[i].max - delivery[i].attempts + 0
    BY <1>1, RowNumbers
  <1>3. 0 \in Nat
    OBVIOUS
  <1> QED
    BY <1>2, <1>3, RowWritten

LEMMA RecordKeeps ==
    ASSUME TypeOK, CoreInv, NEW event \in Event, Record(event),
           UNCHANGED <<deployment, queue, worker, credit>>
    PROVE  CoreInv'
  <1> DEFINE i == event.inv
             status == IF event.type = "delivered" THEN "sent" ELSE "bounced"
             row == [delivery[i] EXCEPT !.status = status, !.locked = FALSE]
  <1>1. i \in Invitations
    BY DEF Event
  <1>2. CASE ~event.named
    BY <1>2, KeptRows DEF Record, RecordInvitationEmailEvent
  <1>3. CASE event.named
    <2>1. Write(i, row) /\ Unlock(i)
      BY <1>3 DEF Record, RecordInvitationEmailEvent
    <2>2. row \in Delivery
      BY <1>1, RowsType
    <2>3. delivery[i] \in Delivery
      BY <1>1 DEF TypeOK
    <2>4. row.attempts = delivery[i].attempts /\ row.max = delivery[i].max /\ ~row.locked
      <3> HIDE DEF status
      <3> QED
        BY <2>3 DEF Delivery
    <2> HIDE DEF row
    <2> QED
      BY <1>1, <2>1, <2>2, <2>4, StatusKeeps
  <1> QED
    BY <1>2, <1>3

LEMMA HandleKeeps ==
    ASSUME TypeOK, EventsInv, CoreInv, NEW r \in Requests, Handle(r)
    PROVE  CoreInv'
  <1>r. request[r].inv \in Invitations
    BY RequestInvitation
  <1>1. CASE \/ \E i \in Invitations : CreateInvitation(r, i) \/ ResendInvitationEmail(r, i)
             \/ IsInvitationEmailSuppressed(r) \/ PostgresRequeueRead(r) \/ SendInline(r)
             \/ PostgresEnqueueCheck(r) \/ InvitationEmailWebhook(r)
    BY <1>1, KeptRows
       DEF CreateInvitation, ResendInvitationEmail, IsInvitationEmailSuppressed, history,
           PostgresRequeueRead, SendInline, PostgresEnqueueCheck, InvitationEmailWebhook
  <1>2. CASE MemoryRequeue(r) \/ PostgresRequeueWrite(r)
    <2>1. \/ ResetDelivery(request[r].inv)
          \/ UNCHANGED <<delivery, credit, displaced>>
      BY <1>2 DEF MemoryRequeue, PostgresRequeueWrite
    <2>2. UNCHANGED <<deployment, queue, worker>>
      BY <1>2 DEF MemoryRequeue, PostgresRequeueWrite
    <2> QED
      BY <1>r, <2>1, <2>2, ResetKeeps, KeptRows
  <1>3. CASE SendToQueue(r)
    <2>1. \/ queue' = Append(queue, request[r].inv) /\ Entitle(request[r].inv, RetryAttempts)
          \/ UNCHANGED <<queue, credit>>
      BY <1>3 DEF SendToQueue
    <2>2. deployment.mode = "memory" /\ UNCHANGED <<deployment, delivery, worker, displaced>>
      BY <1>3 DEF SendToQueue
    <2> QED
      BY <1>r, <2>1, <2>2, PutIntoQueue, KeptRows
  <1>4. CASE MemoryEnqueue(r) \/ PostgresEnqueueInsert(r)
    <2>1. InsertDelivery(request[r].inv) \/ UNCHANGED <<delivery, credit>>
      BY <1>4 DEF MemoryEnqueue, PostgresEnqueueInsert
    <2>2. UNCHANGED <<deployment, queue, worker, displaced>>
      BY <1>4 DEF MemoryEnqueue, PostgresEnqueueInsert
    <2> QED
      BY <1>r, <2>1, <2>2, InsertKeeps
  <1>5. CASE RecordInvitationEmailEventByAdmin(r)
    BY <1>5, RecordKeeps DEF RecordInvitationEmailEventByAdmin
  <1>6. CASE RecordNext(r)
    <2>1. Head(request[r].events) \in Event
      BY <1>6, EventBatch DEF RecordNext, EventsInv
    <2>2. UNCHANGED <<deployment, queue, worker, credit>>
      BY <1>6 DEF RecordNext
    <2>3. Record(Head(request[r].events)) \/ UNCHANGED <<delivery, displaced>>
      BY <1>6 DEF RecordNext
    <2> QED
      BY <2>1, <2>2, <2>3, RecordKeeps, KeptRows
  <1> QED
    BY <1>1, <1>2, <1>3, <1>4, <1>5, <1>6 DEF Handle

LEMMA CoreKept ==
    ASSUME TypeOK, EventsInv, CoreInv, [Next]_vars
    PROVE  CoreInv'
  <1>1. ASSUME NEW w \in Workers, Work(w)
        PROVE  CoreInv'
    BY <1>1, TakenFromQueue, DeliveredFromQueue, MemoryClaimed, PostgresClaimed, Delivered, Marked
       DEF Work
  <1>2. ASSUME NEW i \in Invitations,
               AcceptInvitation(i) \/ Lapse(i) \/ LockExpires(i) \/ RetryDelayPasses(i)
        PROVE  CoreInv'
    <2>1. CASE AcceptInvitation(i) \/ Lapse(i)
      BY <2>1, KeptRows DEF AcceptInvitation, Lapse, history
    <2>2. CASE LockExpires(i)
      <3> DEFINE row == [delivery[i] EXCEPT !.locked = FALSE]
      <3>0. delivery[i] \in Delivery /\ row \in Delivery
        BY RowsType DEF TypeOK
      <3>1. row.attempts = delivery[i].attempts /\ row.max = delivery[i].max
            /\ ~row.locked
        BY <3>0 DEF Delivery
      <3> HIDE DEF row
      <3>2. Write(i, row) /\ Unlock(i) /\ UNCHANGED <<deployment, queue, worker, credit>>
        BY <2>2 DEF LockExpires, row
      <3> QED
        BY <3>0, <3>1, <3>2, StatusKeeps
    <2>3. CASE RetryDelayPasses(i)
      <3> DEFINE row == [delivery[i] EXCEPT !.due = TRUE]
      <3>0. delivery[i] \in Delivery /\ row \in Delivery
        BY RowsType DEF TypeOK
      <3>1. row.attempts = delivery[i].attempts /\ row.max = delivery[i].max
            /\ row.locked = delivery[i].locked
        BY <3>0 DEF Delivery
      <3> HIDE DEF row
      <3>2. /\ Write(i, row)
            /\ UNCHANGED <<deployment, queue, worker, credit, displaced>>
        BY <2>3 DEF RetryDelayPasses, row, history
      <3> QED
        BY <3>0, <3>1, <3>2, StatusKeeps
    <2> QED
      BY <1>2, <2>1, <2>2, <2>3
  <1>3. ASSUME NEW e \in Emails, DeleteInvitationEmailSuppression(e)
        PROVE  CoreInv'
    BY <1>3, KeptRows DEF DeleteInvitationEmailSuppression
  <1>4. CASE UNCHANGED vars
    BY <1>4, KeptRows DEF vars, history
  <1> QED
    BY <1>1, <1>2, <1>3, <1>4, HandleKeeps, Crashed DEF Next

LEMMA EventsKept ==
    ASSUME TypeOK, EventsInv, [Next]_vars
    PROVE  EventsInv'
  <1>1. ASSUME UNCHANGED request
        PROVE  EventsInv'
    BY <1>1 DEF EventsInv, At
  <1>2. ASSUME NEW r \in Requests, NEW state, request' = [request EXCEPT ![r] = state],
               state.pc = "events" => state.events # <<>>
        PROVE  EventsInv'
    BY <1>2 DEF EventsInv, At, TypeOK
  <1>3. ASSUME NEW r \in Requests, Answer(r)
        PROVE  EventsInv'
    <2>1. NoRequest.pc # "events"
      BY DEF NoRequest
    <2> QED
      BY <1>2, <1>3, <2>1 DEF Answer
  <1>4. ASSUME NEW r \in Requests, NEW pc, Goto(r, pc), pc # "events"
        PROVE  EventsInv'
    <2>1. \A q \in Requests : request'[q].pc = "events" =>
             request[q].pc = "events" /\ request'[q].events = request[q].events
      BY <1>4 DEF Goto, TypeOK, RequestState
    <2> QED
      BY <2>1 DEF EventsInv, At
  <1>5. ASSUME NEW r \in Requests, Handle(r)
        PROVE  EventsInv'
    <2>1. ASSUME NEW i \in Invitations, CreateInvitation(r, i) \/ ResendInvitationEmail(r, i)
          PROVE  EventsInv'
      <3>1. \A q \in Requests \ {r} : request'[q] = request[q]
        BY <2>1 DEF CreateInvitation, ResendInvitationEmail, TypeOK
      <3>2. request'[r].pc = "check"
        BY <2>1 DEF CreateInvitation, ResendInvitationEmail, TypeOK, RequestState
      <3> QED
        BY <3>1, <3>2 DEF EventsInv, At
    <2>2. CASE \/ IsInvitationEmailSuppressed(r) \/ MemoryRequeue(r) \/ PostgresRequeueRead(r)
               \/ PostgresRequeueWrite(r) \/ SendInline(r) \/ SendToQueue(r)
               \/ MemoryEnqueue(r) \/ PostgresEnqueueCheck(r) \/ PostgresEnqueueInsert(r)
      <3>1. Answer(r) \/ \E pc : pc # "events" /\ Goto(r, pc)
        BY <2>2
           DEF IsInvitationEmailSuppressed, MemoryRequeue, PostgresRequeueRead,
               PostgresRequeueWrite, SendInline, SendToQueue, MemoryEnqueue,
               PostgresEnqueueCheck, PostgresEnqueueInsert
      <3> QED
        BY <3>1, <1>3, <1>4
    <2>3. CASE InvitationEmailWebhook(r)
      <3>1. PICK items : /\ WebhookEvents(items) # <<>>
                         /\ request' = [request EXCEPT ![r].pc = "events",
                                                       ![r].events = WebhookEvents(items)]
        BY <2>3 DEF InvitationEmailWebhook
      <3> DEFINE batch == WebhookEvents(items)
      <3> HIDE DEF batch
      <3>2. request' = [request EXCEPT ![r] = [request[r] EXCEPT !.pc = "events", !.events = batch]]
        BY <3>1 DEF batch, TypeOK
      <3>3. [request[r] EXCEPT !.pc = "events", !.events = batch].events # <<>>
        BY <3>1 DEF batch, TypeOK, RequestState
      <3> QED
        BY <1>2, <3>2, <3>3
    <2>4. CASE RecordInvitationEmailEventByAdmin(r)
      BY <1>1, <2>4 DEF RecordInvitationEmailEventByAdmin
    <2>5. CASE RecordNext(r)
      <3>1. CASE Answer(r)
        BY <1>3, <3>1
      <3>2. CASE /\ Len(request[r].events) # 1
                 /\ request' = [request EXCEPT ![r].events = Tail(request[r].events)]
        <4> DEFINE batch == Tail(request[r].events)
        <4>1. batch # <<>>
          BY <2>5, <3>2, EventBatch DEF RecordNext, EventsInv
        <4>2. request' = [request EXCEPT ![r] = [request[r] EXCEPT !.events = batch]]
          BY <3>2 DEF TypeOK
        <4> HIDE DEF batch
        <4>3. [request[r] EXCEPT !.events = batch].events # <<>>
          BY <4>1 DEF TypeOK, RequestState
        <4> QED
          BY <1>2, <4>2, <4>3
      <3> QED
        BY <2>5, <3>1, <3>2 DEF RecordNext
    <2> QED
      BY <1>5, <2>1, <2>2, <2>3, <2>4, <2>5 DEF Handle
  <1>6. CASE Crash
    BY <1>6 DEF Crash, EventsInv, At, NoRequest
  <1>7. CASE \/ \E w \in Workers : Work(w)
             \/ \E i \in Invitations : \/ AcceptInvitation(i) \/ Lapse(i) \/ LockExpires(i)
                                       \/ RetryDelayPasses(i)
             \/ \E e \in Emails : DeleteInvitationEmailSuppression(e)
             \/ UNCHANGED vars
    <2>1. UNCHANGED request
      BY <1>7
         DEF Work, TakeFromQueue, DeliverFromQueue, MemoryClaimDue, PostgresClaimDue, Deliver, Mark,
             AcceptInvitation, Lapse, LockExpires, RetryDelayPasses,
             DeleteInvitationEmailSuppression, vars
    <2> QED
      BY <1>1, <2>1
  <1> QED
    BY <1>5, <1>6, <1>7 DEF Next

LEMMA RefusedKept ==
    ASSUME TypeOK, EventsInv, RefusedInv, [Next]_vars
    PROVE  RefusedInv'
  <1>1. ASSUME NEW event \in Event, Record(event)
        PROVE  RefusedInv'
    <2>1. event.type # "delivered" => SuppressesInvitationEmail(event.type)
      BY DEF Event, SuppressesInvitationEmail
    <2> QED
      BY <1>1, <2>1 DEF Record, RecordInvitationEmailEvent, RefusedInv
  <1>2. ASSUME UNCHANGED <<suppressed, refused>>
        PROVE  RefusedInv'
    BY <1>2 DEF RefusedInv
  <1>3. ASSUME NEW r \in Requests, Handle(r)
        PROVE  RefusedInv'
    <2>1. CASE RecordInvitationEmailEventByAdmin(r)
      BY <1>1, <2>1 DEF RecordInvitationEmailEventByAdmin
    <2>2. CASE RecordNext(r)
      <3>1. Head(request[r].events) \in Event
        BY <2>2, EventBatch DEF RecordNext, EventsInv
      <3>2. Record(Head(request[r].events)) \/ UNCHANGED <<suppressed, refused>>
        BY <2>2 DEF RecordNext
      <3> QED
        BY <1>1, <1>2, <3>1, <3>2
    <2>3. CASE ~RecordInvitationEmailEventByAdmin(r) /\ ~RecordNext(r)
      <3>1. UNCHANGED <<suppressed, refused>>
        BY <1>3, <2>3
           DEF Handle, CreateInvitation, ResendInvitationEmail, IsInvitationEmailSuppressed, history,
               MemoryRequeue, PostgresRequeueRead, PostgresRequeueWrite, SendInline, SendToQueue,
               MemoryEnqueue, PostgresEnqueueCheck, PostgresEnqueueInsert, InvitationEmailWebhook
      <3> QED
        BY <1>2, <3>1
    <2> QED
      BY <2>1, <2>2, <2>3
  <1>4. ASSUME NEW e \in Emails, DeleteInvitationEmailSuppression(e)
        PROVE  RefusedInv'
    BY <1>4 DEF DeleteInvitationEmailSuppression, RefusedInv
  <1>5. CASE \/ \E w \in Workers : Work(w)
             \/ \E i \in Invitations : \/ AcceptInvitation(i) \/ Lapse(i) \/ LockExpires(i)
                                       \/ RetryDelayPasses(i)
             \/ Crash \/ UNCHANGED vars
    <2>1. UNCHANGED <<suppressed, refused>>
      BY <1>5
         DEF Work, TakeFromQueue, DeliverFromQueue, MemoryClaimDue, PostgresClaimDue, Deliver, Mark,
             AcceptInvitation, Lapse, LockExpires, RetryDelayPasses, Crash, vars, history
    <2> QED
      BY <1>2, <2>1
  <1> QED
    BY <1>3, <1>4, <1>5 DEF Next

LEMMA InitialInvariant ==
    ASSUME Init
    PROVE  IInv
  <1>1. TypeOK
    <2>1. <<>> \in Seq(Invitations) /\ Len(<<>>) <= QueueSize
      BY ConstantsType
    <2>2. /\ invitation \in [Invitations -> {"none", "pending", "accepted", "expired"}]
          /\ delivery \in [Invitations -> Delivery]
          /\ worker \in [Workers -> WorkerState]
          /\ request \in [Requests -> RequestState]
          /\ credit \in [Invitations -> Int]
      BY InitialTypes DEF Init
    <2> QED
      BY <2>1, <2>2, ConstantsType DEF Init, TypeOK
  <1>2. /\ \A w \in Workers : worker[w].pc = "idle"
        /\ \A r \in Requests : request[r].pc = "idle"
        /\ \A i \in Invitations : /\ delivery[i].attempts = 0 /\ delivery[i].max = 0
                                  /\ credit[i] = 0
        /\ queue = <<>> /\ displaced = {} /\ refused = {}
    BY DEF Init, IdleWorker, NoRequest, NoDelivery
  <1>3. /\ EventsInv /\ QueueInv /\ TriesInv /\ TriesWithinBudget /\ LockInv /\ RefusedInv
    BY <1>2
       DEF EventsInv, At, QueueInv, TriesInv, TriesWithinBudget, LockInv, RefusedInv
  <1>4. ASSUME NEW i \in Invitations
        PROVE  OutboxBudget(i) /\ QueueBudget(i)
    <2>1. Sending(i) = {} /\ Left(i) = {} /\ Queued(i) = {}
      BY <1>2 DEF Sending, Left, Queued
    <2>2. Cardinality(Sending(i)) = 0 /\ Cardinality(Left(i)) = 0 /\ Cardinality(Queued(i)) = 0
      BY <2>1, FS_EmptySet
    <2> QED
      BY <1>2, <2>2, ConstantsType DEF OutboxBudget, QueueBudget
  <1> QED
    BY <1>1, <1>3, <1>4 DEF IInv, BudgetInv

\* A worker of the outbox starts to send what its claim found not suppressed.
LEMMA ClaimsAreAllowed ==
    ASSUME IInv, [Next]_vars, NEW w \in Workers, Outbox, worker[w].pc = "idle",
           worker'[w].pc = "sending"
    PROVE  EmailOf[worker'[w].inv] \notin refused
  <1>1. ASSUME NEW i \in Invitations, StartSending(w, i), ~Suppressed(i)
        PROVE  EmailOf[worker'[w].inv] \notin refused
    BY <1>1 DEF StartSending, Suppressed, IInv, RefusedInv, TypeOK
  <1>2. PICK v \in Workers : Work(v)
    <2>1. CASE \/ \E r \in Requests : Handle(r)
               \/ \E i \in Invitations : \/ AcceptInvitation(i) \/ Lapse(i) \/ LockExpires(i)
                                         \/ RetryDelayPasses(i)
               \/ \E e \in Emails : DeleteInvitationEmailSuppression(e)
               \/ UNCHANGED vars
      <3>1. UNCHANGED worker
        BY <2>1
           DEF Handle, CreateInvitation, ResendInvitationEmail, IsInvitationEmailSuppressed,
               MemoryRequeue, PostgresRequeueRead, PostgresRequeueWrite, SendInline, SendToQueue,
               MemoryEnqueue, PostgresEnqueueCheck, PostgresEnqueueInsert, InvitationEmailWebhook,
               RecordInvitationEmailEventByAdmin, RecordNext, AcceptInvitation, Lapse, LockExpires,
               RetryDelayPasses, DeleteInvitationEmailSuppression, vars
      <3> QED
        BY <3>1
    <2>2. CASE Crash
      BY <2>2 DEF Crash, IdleWorker
    <2> QED
      BY <2>1, <2>2 DEF Next
  <1>3. v = w
    BY <1>2
       DEF Work, TakeFromQueue, DeliverFromQueue, MemoryClaimDue, PostgresClaimDue, Deliver, Mark,
           StartSending, IInv, TypeOK
  <1>4. ~TakeFromQueue(w)
    BY DEF IInv, QueueInv, Outbox, TakeFromQueue
  <1>5. MemoryClaimDue(w) \/ PostgresClaimDue(w)
    BY <1>2, <1>3, <1>4 DEF Work, DeliverFromQueue, Deliver, Mark
  <1>6. PICK i \in Invitations : StartSending(w, i) /\ ~Suppressed(i)
    BY <1>5 DEF MemoryClaimDue, PostgresClaimDue, MemorySendable, PostgresSendable
  <1> QED
    BY <1>1, <1>6

\* One worker at most has not lost the row that it delivers.
LEMMA OneHolder ==
    ASSUME TypeOK, LockInv
    PROVE  OneWorkerPerLock
  <1>1. SUFFICES ASSUME Outbox, NEW i \in Invitations
                 PROVE  Cardinality(Busy(i) \ displaced) <= 1
    BY DEF OneWorkerPerLock
  <1>2. CASE Busy(i) \ displaced = {}
    BY <1>2, FS_EmptySet
  <1>3. CASE Busy(i) \ displaced # {}
    <2>1. PICK w : w \in Busy(i) \ displaced
      BY <1>3
    <2>2. Busy(i) \ displaced = {w}
      BY <1>1, <2>1 DEF LockInv, Busy
    <2> QED
      BY <2>2, FS_Singleton
  <1> QED
    BY <1>2, <1>3

-----------------------------------------------------------------------------
(* Theorems *)

LEMMA InvariantHolds == Spec => []IInv
  <1>1. Init => IInv
    BY InitialInvariant
  <1>2. IInv /\ [Next]_vars => IInv'
    <2>1. SUFFICES ASSUME IInv, [Next]_vars
                   PROVE  IInv'
      OBVIOUS
    <2>2. TypeOK' /\ CoreInv' /\ EventsInv' /\ RefusedInv'
      BY <2>1, TypesKept, CoreKept, EventsKept, RefusedKept DEF IInv, CoreInv
    <2> QED
      BY <2>2 DEF IInv, CoreInv
  <1> QED
    BY <1>1, <1>2, PTL DEF Spec

\* Every request, row, worker and event keeps its form, through every handler of
\* invitationEmail requests, every claim and mark of the stores and every crash.
THEOREM MailTypeCorrect == Spec => []TypeOK
  <1>1. IInv => TypeOK
    BY DEF IInv
  <1> QED
    BY <1>1, InvariantHolds, PTL

\* RequeueInvitationEmail and EnqueueInvitationEmail entitle the mailer to as many
\* transmissions as RetryAttempts and the resends allow, and deliver and the workers
\* of the outbox never use more.
THEOREM TriesKept == Spec => []TriesWithinBudget
  <1>1. IInv => TriesWithinBudget
    BY DEF IInv
  <1> QED
    BY <1>1, InvariantHolds, PTL

\* ClaimDueInvitationEmailDeliveries hands a row to a second worker only after the
\* first has lost its lock.
THEOREM OneWorker == Spec => []OneWorkerPerLock
  <1>1. IInv => OneWorkerPerLock
    BY OneHolder DEF IInv
  <1> QED
    BY <1>1, InvariantHolds, PTL

\* RecordInvitationEmailEvent suppresses the address of a bounce or a complaint, and
\* no claim of the outbox picks a row of that address until the suppression is deleted.
THEOREM NoMailAfterComplaint == Spec => NoDeliveryAfterComplaint
  <1>1. IInv /\ [Next]_vars =>
          [\A w \in Workers :
             Outbox /\ worker[w].pc = "idle" /\ worker'[w].pc = "sending"
               => EmailOf[worker'[w].inv] \notin refused]_vars
    BY ClaimsAreAllowed
  <1> QED
    BY <1>1, InvariantHolds, PTL DEF Spec, NoDeliveryAfterComplaint
=============================================================================
