------------------------- MODULE EventStreamProofs -------------------------
(***************************************************************************)
(* Theorems about EventStream for every set of writers, readers, replicas  *)
(* and deployments, and any number of events, disconnections and faults.   *)
(***************************************************************************)
EXTENDS EventStream, FiniteSetTheorems, SequenceTheorems, WellFoundedInduction, TLAPS

-----------------------------------------------------------------------------
(* What a browser makes of the events it receives *)

LEMMA SmallestElement ==
    ASSUME NEW T \in SUBSET Nat, T # {}
    PROVE  \E n \in T : \A m \in T : n <= m
  <1> DEFINE Less == {ss \in Nat \X Nat : ss[1] < ss[2]}
  <1>1. IsWellFoundedOn(Less, Nat)
    BY NatLessThanWellFounded DEF OpToRel
  <1>2. \E n \in T : \A m \in T : <<m, n>> \notin Less
    <2> HIDE DEF Less
    <2> QED
      BY <1>1, WFMin
  <1>3. PICK n \in T : \A m \in T : <<m, n>> \notin Less
    BY <1>2
  <1>4. \A m \in T : ~(m < n)
    BY <1>3
  <1> QED
    BY <1>4

\* f applies the first m events one after the other.
Applies(f, seen, events, m) ==
    f = [k \in 0..m |-> IF k = 0 THEN seen ELSE MarkSeen(f[k - 1], events[k])]

\* The recursion of Applied is defined.
LEMMA AppliedDefined ==
    ASSUME NEW n \in Nat, NEW seen, NEW events
    PROVE  \E f : Applies(f, seen, events, n)
  <1> DEFINE Bad == {m \in 0..n : ~\E f : Applies(f, seen, events, m)}
  <1>1. SUFFICES ASSUME Bad # {}
                 PROVE  FALSE
    OBVIOUS
  <1>2. PICK m \in Bad : \A l \in Bad : m <= l
    <2>1. Bad \subseteq Nat
      OBVIOUS
    <2> HIDE DEF Bad
    <2> QED
      BY <1>1, <2>1, SmallestElement
  <1>3. m # 0
    <2>1. Applies([k \in 0..0 |-> seen], seen, events, 0)
      BY DEF Applies
    <2> QED
      BY <2>1
  <1>4. PICK f : Applies(f, seen, events, m - 1)
    BY <1>2, <1>3
  <1> DEFINE g == [k \in 0..m |-> IF k = m THEN MarkSeen(f[m - 1], events[m]) ELSE f[k]]
  <1>5. Applies(g, seen, events, m)
    BY <1>3, <1>4 DEF Applies
  <1> QED
    BY <1>5

\* Induction over the events: T holds what has been applied after each of them.
LEMMA AppliedInduction ==
    ASSUME NEW seen, NEW events, NEW n \in Nat, n = Len(events), NEW T,
           <<0, seen>> \in T,
           \A k \in 1..n : \A s : <<k - 1, s>> \in T => <<k, MarkSeen(s, events[k])>> \in T
    PROVE  <<n, Applied(seen, events)>> \in T
  <1> DEFINE f == CHOOSE g : Applies(g, seen, events, n)
  <1>1. Applied(seen, events) = f[n]
    BY Zenon DEF Applied, Applies
  <1>2. Applies(f, seen, events, n)
    BY AppliedDefined
  <1> HIDE DEF f
  <1> DEFINE Bad == {m \in 0..n : <<m, f[m]>> \notin T}
  <1>3. Bad = {}
    <2>1. SUFFICES ASSUME Bad # {}
                   PROVE  FALSE
      OBVIOUS
    <2>2. PICK m \in Bad : \A l \in Bad : m <= l
      <3>1. Bad \subseteq Nat
        OBVIOUS
      <3> HIDE DEF Bad
      <3> QED
        BY <2>1, <3>1, SmallestElement
    <2>3. m # 0
      BY <1>2 DEF Applies
    <2>4. <<m - 1, f[m - 1]>> \in T /\ m \in 1..n
      BY <2>2, <2>3
    <2>5. f[m] = MarkSeen(f[m - 1], events[m])
      BY <1>2, <2>3 DEF Applies
    <2> QED
      BY <2>4, <2>5
  <1> QED
    BY <1>1, <1>3

Increasing(s) == \A i, j \in DOMAIN s : i < j => s[i] < s[j]

\* Nothing but the first Len(s) events, each in its place.
Prefix(s) == \A j \in DOMAIN s : s[j] = j

Holds(s, n) == \E i \in DOMAIN s : s[i] = n

LEMMA MarkSeenKeeps ==
    ASSUME NEW s \in Seq(Seqs), Increasing(s), NEW event \in Seqs
    PROVE  /\ MarkSeen(s, event) \in Seq(Seqs)
           /\ Increasing(MarkSeen(s, event))
           /\ \A n : Holds(s, n) => Holds(MarkSeen(s, event), n)
           /\ event > LastOf(s) => Holds(MarkSeen(s, event), event)
           /\ LastOf(s) \in Nat
           /\ LastOf(MarkSeen(s, event)) = IF event > LastOf(s) THEN event ELSE LastOf(s)
  <1>0. MaxEvents \in Nat /\ Seqs = 1..MaxEvents
    BY BoundsAssumption DEF Seqs
  <1>1. LastOf(s) \in Nat
    BY <1>0 DEF LastOf
  <1>2. CASE ~(event > LastOf(s))
    BY <1>1, <1>2 DEF MarkSeen
  <1>3. CASE event > LastOf(s)
    <2> DEFINE t == Append(s, event)
    <2>1. MarkSeen(s, event) = t
      BY <1>3 DEF MarkSeen
    <2>2. /\ t \in Seq(Seqs) /\ DOMAIN t = 1..(Len(s) + 1) /\ Len(t) = Len(s) + 1
          /\ \A j \in 1..Len(s) : t[j] = s[j]
          /\ t[Len(s) + 1] = event /\ DOMAIN s = 1..Len(s) /\ Len(s) \in Nat
      OBVIOUS
    <2> HIDE DEF t
    <2>3. ASSUME NEW j \in 1..Len(s)
          PROVE  s[j] <= LastOf(s) /\ s[j] \in Nat
      <3>1. LastOf(s) = s[Len(s)] /\ Len(s) \in 1..Len(s)
        BY <2>2 DEF LastOf
      <3>2. s[j] \in Nat /\ s[Len(s)] \in Nat
        BY <1>0, <3>1
      <3> DEFINE n == Len(s)
      <3>3. n \in Nat /\ j \in 1..n /\ n \in DOMAIN s /\ j \in DOMAIN s
        BY <2>2, <3>1
      <3> HIDE DEF n
      <3>4. j = n \/ j < n
        BY <3>3
      <3>5. j < n => s[j] < s[n]
        BY <3>3 DEF Increasing
      <3> QED
        BY <3>1, <3>2, <3>4, <3>5 DEF n
    <2>4. Increasing(t)
      <3>1. SUFFICES ASSUME NEW i \in 1..(Len(s) + 1), NEW j \in 1..(Len(s) + 1), i < j
                     PROVE  t[i] < t[j]
        BY <2>2 DEF Increasing
      <3>2. i \in 1..Len(s) /\ t[i] = s[i]
        BY <2>2, <3>1
      <3>3. CASE j = Len(s) + 1
        BY <1>0, <1>1, <1>3, <2>2, <2>3, <3>2, <3>3
      <3>4. CASE j \in 1..Len(s)
        BY <2>2, <3>1, <3>2, <3>4 DEF Increasing
      <3> QED
        BY <2>2, <3>3, <3>4
    <2>5. \A n : Holds(s, n) => Holds(t, n)
      BY <2>2 DEF Holds
    <2>6. Holds(t, event) /\ LastOf(t) = event
      BY <2>2 DEF Holds, LastOf
    <2> QED
      BY <1>0, <1>1, <1>3, <2>1, <2>2, <2>4, <2>5, <2>6
  <1> QED
    BY <1>2, <1>3

\* AppliedOnce survives whatever a browser receives, and nothing applied is lost.
LEMMA AppliedKeeps ==
    ASSUME NEW seen \in Seq(Seqs), Increasing(seen), NEW events \in Seq(Seqs)
    PROVE  /\ Applied(seen, events) \in Seq(Seqs)
           /\ Increasing(Applied(seen, events))
           /\ \A n : Holds(seen, n) => Holds(Applied(seen, events), n)
  <1> DEFINE T == {t \in Nat \X Seq(Seqs) : /\ Increasing(t[2])
                                            /\ \A n : Holds(seen, n) => Holds(t[2], n)}
             n == Len(events)
  <1>1. n \in Nat /\ \A k \in 1..n : events[k] \in Seqs
    OBVIOUS
  <1>2. <<0, seen>> \in T
    OBVIOUS
  <1>3. ASSUME NEW k \in 1..n, NEW s, <<k - 1, s>> \in T
        PROVE  <<k, MarkSeen(s, events[k])>> \in T
    <2>1. s \in Seq(Seqs) /\ Increasing(s) /\ \A m : Holds(seen, m) => Holds(s, m)
      BY <1>3
    <2>2. events[k] \in Seqs
      BY <1>1
    <2> DEFINE t == MarkSeen(s, events[k])
    <2>3. t \in Seq(Seqs) /\ Increasing(t) /\ \A m : Holds(s, m) => Holds(t, m)
      BY <2>1, <2>2, MarkSeenKeeps
    <2> HIDE DEF t
    <2> QED
      BY <1>1, <2>1, <2>3 DEF t
  <1> HIDE DEF T
  <1>4. <<n, Applied(seen, events)>> \in T
    BY <1>1, <1>2, <1>3, AppliedInduction
  <1> QED
    BY <1>4 DEF T

\* What a replay lists after the given event is applied as far as it is new.
LEMMA AppliedListed ==
    ASSUME NEW seen \in Seq(Seqs), Increasing(seen), NEW a \in Nat, NEW k \in Nat,
           a + k <= MaxEvents
    PROVE  /\ Listed(a, k) \in Seq(Seqs) /\ Len(Listed(a, k)) = k
           /\ k > 0 => LastOf(Listed(a, k)) = a + k
           /\ \A n \in (a + 1)..(a + k) :
                 n > LastOf(seen) => Holds(Applied(seen, Listed(a, k)), n)
  <1> DEFINE events == Listed(a, k)
  <1>0. MaxEvents \in Nat /\ Seqs = 1..MaxEvents
    BY BoundsAssumption DEF Seqs
  <1>1. events = [i \in 1..k |-> a + i]
    BY DEF Listed
  <1>2. /\ events \in Seq(Seqs) /\ Len(events) = k
        /\ \A i \in 1..k : events[i] = a + i /\ events[i] \in Seqs
    BY <1>0, <1>1
  <1>3. k > 0 => LastOf(events) = a + k
    BY <1>1, <1>2 DEF LastOf
  <1> HIDE DEF events
  <1> DEFINE T == {t \in Nat \X Seq(Seqs) :
                     /\ Increasing(t[2])
                     /\ LastOf(t[2]) <= LastOf(seen) \/ LastOf(t[2]) <= a + t[1]
                     /\ \A n \in (a + 1)..(a + t[1]) : n > LastOf(seen) => Holds(t[2], n)}
  <1>4. LastOf(seen) \in Nat
    BY <1>0 DEF LastOf
  <1>5. <<0, seen>> \in T
    <2>1. (a + 1)..(a + 0) = {}
      OBVIOUS
    <2> QED
      BY <1>4, <2>1
  <1>6. ASSUME NEW i \in 1..k, NEW s, <<i - 1, s>> \in T
        PROVE  <<i, MarkSeen(s, events[i])>> \in T
    <2>1. /\ s \in Seq(Seqs) /\ Increasing(s)
          /\ LastOf(s) <= LastOf(seen) \/ LastOf(s) <= a + (i - 1)
          /\ \A n \in (a + 1)..(a + (i - 1)) : n > LastOf(seen) => Holds(s, n)
      BY <1>6
    <2>2. events[i] = a + i /\ a + i \in Seqs
      BY <1>2
    <2> DEFINE t == MarkSeen(s, events[i])
    <2>3. /\ t \in Seq(Seqs) /\ Increasing(t) /\ \A m : Holds(s, m) => Holds(t, m)
          /\ a + i > LastOf(s) => Holds(t, a + i)
          /\ LastOf(s) \in Nat
          /\ LastOf(t) = IF a + i > LastOf(s) THEN a + i ELSE LastOf(s)
      BY <2>1, <2>2, MarkSeenKeeps
    <2> HIDE DEF t
    <2>4. LastOf(t) <= LastOf(seen) \/ LastOf(t) <= a + i
      BY <1>4, <2>1, <2>3
    <2>5. ASSUME NEW n \in (a + 1)..(a + i), n > LastOf(seen)
          PROVE  Holds(t, n)
      <3>1. CASE n = a + i
        BY <1>4, <2>1, <2>3, <2>5, <3>1
      <3>2. CASE n # a + i
        <4>1. n \in (a + 1)..(a + (i - 1))
          BY <3>2
        <4> QED
          BY <2>1, <2>3, <2>5, <4>1
      <3> QED
        BY <3>1, <3>2
    <2> QED
      BY <2>3, <2>4, <2>5 DEF t
  <1> HIDE DEF T
  <1>7. <<k, Applied(seen, events)>> \in T
    BY <1>2, <1>5, <1>6, AppliedInduction
  <1>8. \A n \in (a + 1)..(a + k) : n > LastOf(seen) => Holds(Applied(seen, events), n)
    BY <1>7 DEF T
  <1> QED
    BY <1>2, <1>3, <1>8 DEF events

\* A replay that starts no later than after the last event applied skips none.
LEMMA AppliedPrefix ==
    ASSUME NEW seen \in Seq(Seqs), Prefix(seen), NEW a \in Nat, NEW k \in Nat,
           a + k <= MaxEvents, a <= Len(seen)
    PROVE  LET after == Applied(seen, Listed(a, k))
           IN /\ after \in Seq(Seqs) /\ Prefix(after)
              /\ Len(after) = IF a + k > Len(seen) THEN a + k ELSE Len(seen)
  <1> DEFINE events == Listed(a, k)
  <1>0. MaxEvents \in Nat /\ Seqs = 1..MaxEvents
    BY BoundsAssumption DEF Seqs
  <1>1. events = [i \in 1..k |-> a + i]
    BY DEF Listed
  <1>2. Len(events) = k /\ \A i \in 1..k : events[i] = a + i /\ a + i \in Seqs
    BY <1>0, <1>1
  <1> HIDE DEF events
  <1> DEFINE n == Len(seen)
             T == {t \in Nat \X Seq(Seqs) :
                     /\ Prefix(t[2])
                     /\ Len(t[2]) = IF a + t[1] > n THEN a + t[1] ELSE n}
  <1>3. n \in Nat
    OBVIOUS
  <1>4. <<0, seen>> \in T
    BY <1>3
  <1>5. ASSUME NEW i \in 1..k, NEW s, <<i - 1, s>> \in T
        PROVE  <<i, MarkSeen(s, events[i])>> \in T
    <2>1. /\ s \in Seq(Seqs) /\ Prefix(s)
          /\ Len(s) = IF a + (i - 1) > n THEN a + (i - 1) ELSE n
      BY <1>5
    <2>2. LastOf(s) = Len(s) /\ Len(s) \in Nat /\ DOMAIN s = 1..Len(s)
      BY <2>1 DEF LastOf, Prefix
    <2> DEFINE t == MarkSeen(s, events[i])
    <2>3. CASE a + i > Len(s)
      <3>1. a + i = Len(s) + 1
        BY <1>3, <2>1, <2>2, <2>3
      <3>2. t = Append(s, Len(s) + 1) /\ Len(s) + 1 \in Seqs
        BY <1>2, <2>2, <2>3, <3>1 DEF MarkSeen
      <3>3. t \in Seq(Seqs) /\ Len(t) = Len(s) + 1
        BY <2>1, <3>2
      <3>4. Prefix(t)
        BY <2>1, <2>2, <3>2 DEF Prefix
      <3> HIDE DEF t
      <3>5. Len(t) = IF a + i > n THEN a + i ELSE n
        BY <1>3, <2>1, <2>2, <3>1, <3>3
      <3> QED
        BY <3>3, <3>4, <3>5 DEF t
    <2>4. CASE ~(a + i > Len(s))
      <3>1. t = s
        BY <1>2, <2>2, <2>4 DEF MarkSeen
      <3> HIDE DEF t
      <3>2. Len(t) = IF a + i > n THEN a + i ELSE n
        BY <1>3, <2>1, <2>2, <2>4, <3>1
      <3> QED
        BY <2>1, <3>1, <3>2 DEF t
    <2> QED
      BY <2>3, <2>4
  <1> HIDE DEF T
  <1>6. <<k, Applied(seen, events)>> \in T
    BY <1>2, <1>4, <1>5, AppliedInduction
  <1> QED
    BY <1>6 DEF T, events

LEMMA AppliedOne ==
    ASSUME NEW seen, NEW event
    PROVE  Applied(seen, <<event>>) = MarkSeen(seen, event)
  <1> DEFINE T == {<<0, seen>>, <<1, MarkSeen(seen, event)>>}
             events == <<event>>
  <1>1. Len(events) = 1 /\ events[1] = event
    OBVIOUS
  <1> HIDE DEF events
  <1>2. \A k \in 1..1 : \A s : <<k - 1, s>> \in T => <<k, MarkSeen(s, events[k])>> \in T
    BY <1>1
  <1>3. <<0, seen>> \in T
    OBVIOUS
  <1> HIDE DEF T
  <1>4. <<1, Applied(seen, events)>> \in T
    BY <1>1, <1>2, <1>3, AppliedInduction
  <1> QED
    BY <1>4 DEF T, events

-----------------------------------------------------------------------------
(* The records of readers and writers *)

ReaderPCs == {"new", "closed", "replay", "subscribe", "nudges", "last", "replayAgain", "live"}
Subscriptions == {"none", "local", "fanout"}
Counts == 0..MaxEvents
Log == Seq(Seqs)
Dues == SUBSET Seqs

LEMMA ReaderForm ==
    Reader = [pc : ReaderPCs, at : Replicas, url : Counts, lastID : Counts, seen : Log,
              afterSeq : Counts, subscription : Subscriptions, channel : Log, nudges : Log,
              lastSeq : Counts, batch : Log, out : Log, due : Dues]
  BY DEF Reader, ReaderPCs, Counts, Log, Subscriptions, Dues

LEMMA ReaderFields ==
    ASSUME NEW c \in Reader
    PROVE  /\ c.pc \in ReaderPCs /\ c.at \in Replicas /\ c.subscription \in Subscriptions
           /\ c.url \in Nat /\ c.lastID \in Nat /\ c.afterSeq \in Nat /\ c.lastSeq \in Nat
           /\ c.url \in Counts /\ c.lastID \in Counts /\ c.afterSeq \in Counts
           /\ c.lastSeq \in Counts
           /\ c.seen \in Log /\ c.channel \in Log /\ c.nudges \in Log /\ c.batch \in Log
           /\ c.out \in Log /\ c.due \in Dues
  BY ReaderForm DEF Counts

LEMMA ConstantsType ==
    /\ MaxEvents \in Nat /\ Seqs = 1..MaxEvents /\ Counts = 0..MaxEvents
    /\ MaxFaults \in Nat /\ MaxDisconnects \in Nat /\ OutSize \in Nat
  BY BoundsAssumption DEF Seqs, Counts

LEMMA DeploymentType ==
    ASSUME TypeOK
    PROVE  /\ deployment.writersAt \subseteq Replicas /\ deployment.readersAt \subseteq Replicas
           /\ deployment.writers \subseteq Writers
           /\ deployment.events \in 0..MaxEvents /\ deployment.bufferSize \in Nat \ {0}
           /\ seq \in Nat /\ seq <= deployment.events /\ seq <= MaxEvents
  <1>1. deployment \in Deployment
    BY DeploymentsAssumption DEF TypeOK
  <1>2. seq \in 0..deployment.events
    BY DEF TypeOK
  <1> QED
    BY <1>1, <1>2, ConstantsType DEF Deployment

LEMMA LastOfType ==
    ASSUME NEW s \in Log
    PROVE  LastOf(s) \in Counts /\ LastOf(s) \in Nat
  BY ConstantsType DEF Log, LastOf

\* The steps of a reader replace its record. What follows says which fields change.
Becomes(r, d) == reader' = [reader EXCEPT ![r] = d]

\* The browser connects.
Connects(c, d) ==
    /\ d.pc = "replay" /\ d.at \in deployment.readersAt /\ d.seen = c.seen
    /\ \/ d.url = c.url /\ d.lastID = c.lastID
       \/ d.url = LastOf(c.seen) /\ d.lastID = 0
    /\ d.afterSeq \in {d.url, d.lastID}
    /\ d.due = {n \in Seqs : n > d.afterSeq /\ n > LastOf(d.seen) /\ n <= seq}
    /\ d.subscription = c.subscription /\ d.channel = c.channel /\ d.lastSeq = c.lastSeq
    /\ d.batch = c.batch /\ d.out = c.out

LEMMA ConnectForm ==
    ASSUME TypeOK, NEW c \in Reader, NEW p \in deployment.readersAt
    PROVE  Connect(c, p) \in Reader /\ Connects(c, Connect(c, p))
  <1> DEFINE after == AfterParam(c)
             due == {n \in Seqs : n > after /\ n > LastOf(c.seen) /\ n <= seq}
             d == [c EXCEPT !.pc = "replay", !.at = p, !.afterSeq = after, !.due = due]
  <1>1. Connect(c, p) = d
    BY DEF Connect
  <1>2. after \in Counts /\ after \in {c.url, c.lastID} /\ due \in Dues /\ p \in Replicas
    BY ReaderFields, DeploymentType DEF AfterParam, Dues
  <1>3. "replay" \in ReaderPCs
    BY DEF ReaderPCs
  <1>4. d \in Reader
    <2> HIDE DEF after, due
    <2> QED
      BY <1>2, <1>3, ReaderForm
  <1>5. /\ d.pc = "replay" /\ d.at = p /\ d.seen = c.seen /\ d.url = c.url /\ d.lastID = c.lastID
        /\ d.afterSeq = after /\ d.due = due /\ d.subscription = c.subscription
        /\ d.channel = c.channel /\ d.lastSeq = c.lastSeq /\ d.batch = c.batch /\ d.out = c.out
    <2> HIDE DEF after, due
    <2> QED
      BY ReaderForm
  <1> HIDE DEF d, after
  <1> QED
    BY <1>1, <1>2, <1>4, <1>5 DEF Connects

LEMMA Connected ==
    ASSUME TypeOK, NEW r \in Readers, OpenEvents(r) \/ Reconnect(r)
    PROVE  \E d \in Reader : Becomes(r, d) /\ Connects(reader[r], d)
  <1>1. reader[r] \in Reader
    BY DEF TypeOK
  <1>2. CASE OpenEvents(r)
    <2> DEFINE url == LastOf(reader[r].seen)
               c == [reader[r] EXCEPT !.url = url, !.lastID = 0]
    <2>1. url \in Counts /\ 0 \in Counts
      BY <1>1, ReaderFields, LastOfType, ConstantsType
    <2>2. c \in Reader
      <3> HIDE DEF url
      <3> QED
        BY <1>1, <2>1, ReaderForm
    <2>3. /\ c.seen = reader[r].seen /\ c.url = url /\ c.lastID = 0
          /\ c.subscription = reader[r].subscription /\ c.channel = reader[r].channel
          /\ c.lastSeq = reader[r].lastSeq /\ c.batch = reader[r].batch /\ c.out = reader[r].out
      <3> HIDE DEF url
      <3> QED
        BY <1>1, ReaderForm
    <2>4. PICK p \in deployment.readersAt : Becomes(r, Connect(c, p))
      BY <1>2 DEF OpenEvents, Becomes
    <2> HIDE DEF c
    <2>5. Connect(c, p) \in Reader /\ Connects(c, Connect(c, p))
      BY <2>2, ConnectForm
    <2>6. Connects(reader[r], Connect(c, p))
      BY <2>3, <2>5 DEF Connects
    <2> QED
      BY <2>4, <2>5, <2>6
  <1>3. CASE Reconnect(r)
    <2>1. PICK p \in deployment.readersAt : Becomes(r, Connect(reader[r], p))
      BY <1>3 DEF Reconnect, Becomes
    <2> QED
      BY <1>1, <2>1, ConnectForm
  <1> QED
    BY <1>2, <1>3

\* The handler returns.
Closes(c, d) ==
    /\ d.pc = "closed" /\ d.at = c.at /\ d.seen = c.seen /\ d.url = c.url /\ d.lastID = c.lastID
    /\ d.afterSeq = c.afterSeq /\ d.subscription = "none" /\ d.channel = <<>>
    /\ d.lastSeq = 0 /\ d.batch = <<>> /\ d.out = <<>>

LEMMA ClosedForm ==
    ASSUME NEW c \in Reader
    PROVE  Closed(c) \in Reader /\ Closes(c, Closed(c))
  <1> DEFINE none == <<>>
             d == [c EXCEPT !.pc = "closed", !.subscription = "none", !.channel = none,
                            !.nudges = none, !.batch = none, !.out = none, !.lastSeq = 0]
  <1>1. Closed(c) = d
    BY DEF Closed
  <1>2. /\ "closed" \in ReaderPCs /\ "none" \in Subscriptions /\ none \in Log /\ 0 \in Counts
    BY ConstantsType DEF ReaderPCs, Subscriptions, Log
  <1>3. d \in Reader
    <2> HIDE DEF none
    <2> QED
      BY <1>2, ReaderForm
  <1>4. /\ d.pc = "closed" /\ d.at = c.at /\ d.seen = c.seen /\ d.url = c.url /\ d.lastID = c.lastID
        /\ d.afterSeq = c.afterSeq /\ d.subscription = "none" /\ d.channel = none
        /\ d.lastSeq = 0 /\ d.batch = none /\ d.out = none
    <2> HIDE DEF none
    <2> QED
      BY ReaderForm
  <1> HIDE DEF d
  <1> QED
    BY <1>1, <1>3, <1>4 DEF Closes

\* The browser receives events a + 1, ..., a + k.
Receives(c, d, a, k) ==
    /\ d.seen = Applied(c.seen, Listed(a, k))
    /\ d.lastID = IF k > 0 THEN a + k ELSE c.lastID
    /\ d.pc = c.pc /\ d.at = c.at /\ d.url = c.url /\ d.afterSeq = c.afterSeq
    /\ d.subscription = c.subscription /\ d.channel = c.channel
    /\ d.lastSeq = c.lastSeq /\ d.batch = c.batch /\ d.out = c.out /\ d.due = c.due

LEMMA ReceiveForm ==
    ASSUME NEW c \in Reader, Increasing(c.seen), NEW a \in Nat, NEW k \in Nat, a + k <= MaxEvents
    PROVE  /\ Receive(c, Listed(a, k)) \in Reader
           /\ Receives(c, Receive(c, Listed(a, k)), a, k)
  <1> DEFINE seen == Applied(c.seen, Listed(a, k))
             id == IF k > 0 THEN a + k ELSE c.lastID
             d == [c EXCEPT !.seen = seen, !.lastID = id]
  <1>1. c.seen \in Seq(Seqs) /\ c.lastID \in Counts
    BY ReaderFields DEF Log
  <1>2. /\ Listed(a, k) \in Seq(Seqs) /\ Len(Listed(a, k)) = k
        /\ k > 0 => LastOf(Listed(a, k)) = a + k
    BY <1>1, AppliedListed
  <1>3. Receive(c, Listed(a, k)) = d
    <2>1. (Listed(a, k) = <<>>) <=> ~(k > 0)
      BY <1>2
    <2>2. (IF Listed(a, k) = <<>> THEN c.lastID ELSE LastOf(Listed(a, k))) = id
      BY <1>2, <2>1
    <2> HIDE DEF id
    <2> QED
      BY <2>2 DEF Receive
  <1>4. seen \in Log /\ id \in Counts
    BY <1>1, <1>2, AppliedKeeps, ConstantsType DEF Log
  <1> HIDE DEF seen, id
  <1>5. d \in Reader
    BY <1>4, ReaderForm
  <1>6. /\ d.seen = seen /\ d.lastID = id
        /\ d.pc = c.pc /\ d.at = c.at /\ d.url = c.url /\ d.afterSeq = c.afterSeq
        /\ d.subscription = c.subscription /\ d.channel = c.channel
        /\ d.lastSeq = c.lastSeq /\ d.batch = c.batch /\ d.out = c.out /\ d.due = c.due
    BY ReaderForm
  <1> QED
    BY <1>3, <1>5, <1>6 DEF Receives, seen, id

\* The connection of r ends, and writers do not send to it any more.
Leaves(r) ==
    /\ disconnects' \in 0..MaxDisconnects
    /\ writer' = [w \in Writers |-> [writer[w] EXCEPT !.subscribers = @ \ {r}]]

LEMMA BrokenForm ==
    ASSUME TypeOK, NEW r \in Readers, NEW c \in Reader, Broken(r, c)
    PROVE  Leaves(r) /\ \E d \in Reader : Becomes(r, d) /\ Closes(c, d)
  <1>1. disconnects' \in 0..MaxDisconnects
    BY ConstantsType DEF Broken, TypeOK
  <1> QED
    BY <1>1, ClosedForm DEF Broken, Leaves, Becomes

\* All that was listed is written, and the handler goes on.
Replays(c, d, rows) ==
    /\ d.seen = Applied(c.seen, Listed(c.afterSeq, rows))
    /\ d.lastID = IF rows > 0 THEN c.afterSeq + rows ELSE c.lastID
    /\ d.afterSeq = c.afterSeq + rows /\ d.pc = AfterReplay(c.pc)
    /\ d.at = c.at /\ d.url = c.url /\ d.due = c.due
    /\ d.subscription = c.subscription /\ d.channel = c.channel
    /\ d.lastSeq = c.lastSeq /\ d.batch = c.batch /\ d.out = c.out

LEMMA Replayed ==
    ASSUME TypeOK, NEW r \in Readers, Increasing(reader[r].seen), Replay(r)
    PROVE  \E rows \in 0..(seq - reader[r].afterSeq) :
             /\ ListEvents(reader[r].afterSeq, rows)
             /\ \/ /\ \E d \in Reader : Becomes(r, d) /\ Replays(reader[r], d, rows)
                   /\ UNCHANGED <<writer, disconnects>>
                \/ /\ \E written \in 0..(rows - 1) : \E b, d \in Reader :
                         /\ Receives(reader[r], b, reader[r].afterSeq, written)
                         /\ Closes(b, d) /\ Becomes(r, d)
                   /\ Leaves(r)
  <1> DEFINE c == reader[r]
             a == c.afterSeq
  <1>1. PICK rows \in 0..(seq - a) :
          /\ ListEvents(a, rows)
          /\ \/ /\ reader' = [reader EXCEPT ![r] =
                     [Receive(c, Listed(a, rows)) EXCEPT
                        !.afterSeq = @ + rows, !.pc = AfterReplay(c.pc)]]
                /\ UNCHANGED <<writer, disconnects>>
             \/ \E written \in 0..(rows - 1) : Broken(r, Receive(c, Listed(a, written)))
    BY DEF Replay
  <1>2. c \in Reader /\ c.pc \in {"replay", "replayAgain"}
    BY DEF TypeOK, Replay
  <1>3. a \in Nat /\ seq \in Nat /\ seq <= MaxEvents /\ rows \in Nat /\ a + rows <= MaxEvents
    BY <1>2, ReaderFields, DeploymentType, ConstantsType
  <1>4. ASSUME NEW k \in 0..rows
        PROVE  /\ Receive(c, Listed(a, k)) \in Reader
               /\ Receives(c, Receive(c, Listed(a, k)), a, k)
    BY <1>2, <1>3, ReceiveForm, ConstantsType
  <1>5. CASE \E written \in 0..(rows - 1) : Broken(r, Receive(c, Listed(a, written)))
    <2>1. PICK written \in 0..(rows - 1) : Broken(r, Receive(c, Listed(a, written)))
      BY <1>5
    <2> DEFINE b == Receive(c, Listed(a, written))
    <2>2. b \in Reader /\ Receives(c, b, a, written)
      BY <1>3, <1>4
    <2> HIDE DEF b
    <2>3. Leaves(r) /\ \E d \in Reader : Becomes(r, d) /\ Closes(b, d)
      BY <2>1, <2>2, BrokenForm DEF b
    <2> QED
      BY <1>1, <2>2, <2>3
  <1>6. CASE /\ reader' = [reader EXCEPT ![r] =
                    [Receive(c, Listed(a, rows)) EXCEPT
                       !.afterSeq = @ + rows, !.pc = AfterReplay(c.pc)]]
             /\ UNCHANGED <<writer, disconnects>>
    <2> DEFINE b == Receive(c, Listed(a, rows))
               after == b.afterSeq + rows
               pc == AfterReplay(c.pc)
               d == [b EXCEPT !.afterSeq = after, !.pc = pc]
    <2>1. Becomes(r, d)
      BY <1>6 DEF Becomes
    <2>2. b \in Reader /\ Receives(c, b, a, rows)
      BY <1>3, <1>4
    <2> HIDE DEF b
    <2>3. after = a + rows /\ after \in Counts
      BY <1>3, <2>2, ConstantsType DEF Receives
    <2>4. pc \in ReaderPCs
      BY DEF ReaderPCs, AfterReplay
    <2> HIDE DEF after, pc
    <2>5. d \in Reader
      BY <2>2, <2>3, <2>4, ReaderForm
    <2>6. /\ d.afterSeq = after /\ d.pc = pc
          /\ d.seen = b.seen /\ d.lastID = b.lastID /\ d.at = b.at /\ d.url = b.url
          /\ d.due = b.due /\ d.subscription = b.subscription /\ d.channel = b.channel
          /\ d.lastSeq = b.lastSeq /\ d.batch = b.batch /\ d.out = b.out
      BY <2>2, ReaderForm
    <2> HIDE DEF d
    <2>7. Replays(c, d, rows)
      BY <2>2, <2>3, <2>6 DEF Receives, Replays, pc
    <2> QED
      BY <1>1, <1>6, <2>1, <2>5, <2>7
  <1> QED
    BY <1>1, <1>5, <1>6

\* A step of the subscription, which the browser does not see.
Stays(c, d) ==
    /\ d.seen = c.seen /\ d.lastID = c.lastID /\ d.url = c.url /\ d.afterSeq = c.afterSeq
    /\ d.at = c.at /\ d.due = c.due

Subscribes(c, d) ==
    /\ Stays(c, d)
    /\ d.channel = c.channel /\ d.batch = c.batch /\ d.out = c.out
    /\ \/ /\ c.pc = "subscribe" /\ d.pc \in {"nudges", "replayAgain"}
          /\ d.subscription = "local" /\ d.lastSeq = c.lastSeq
       \/ /\ c.pc = "nudges" /\ d.pc = "last"
          /\ d.subscription = "fanout" /\ d.lastSeq = c.lastSeq
       \/ /\ c.pc = "nudges" /\ d.pc = "replayAgain"
          /\ d.subscription = c.subscription /\ d.lastSeq = c.lastSeq
       \/ /\ c.pc = "last" /\ d.pc = "replayAgain" /\ d.subscription = c.subscription
          /\ d.lastSeq \in 0..seq /\ ListEvents(0, d.lastSeq)

LEMMA Subscribed ==
    ASSUME TypeOK, NEW r \in Readers, SubscribeLocal(r) \/ SubscribeNudges(r) \/ ReadLastSeq(r)
    PROVE  \E d \in Reader : Becomes(r, d) /\ Subscribes(reader[r], d)
  <1> DEFINE c == reader[r]
  <1>1. c \in Reader
    BY DEF TypeOK
  <1>2. ASSUME NEW pc \in ReaderPCs, NEW subscription \in Subscriptions
        PROVE  LET d == [c EXCEPT !.subscription = subscription, !.pc = pc]
               IN d \in Reader /\ Stays(c, d) /\ d.pc = pc /\ d.subscription = subscription
                  /\ d.lastSeq = c.lastSeq
                  /\ d.channel = c.channel /\ d.batch = c.batch /\ d.out = c.out
    BY <1>1, ReaderForm DEF Stays
  <1>3. ASSUME NEW pc \in ReaderPCs
        PROVE  LET d == [c EXCEPT !.pc = pc]
               IN d \in Reader /\ Stays(c, d) /\ d.pc = pc /\ d.subscription = c.subscription
                  /\ d.lastSeq = c.lastSeq
                  /\ d.channel = c.channel /\ d.batch = c.batch /\ d.out = c.out
    BY <1>1, ReaderForm DEF Stays
  <1>4. ASSUME NEW pc \in ReaderPCs, NEW rows \in Counts
        PROVE  LET d == [c EXCEPT !.lastSeq = rows, !.pc = pc]
               IN d \in Reader /\ Stays(c, d) /\ d.pc = pc /\ d.subscription = c.subscription
                  /\ d.lastSeq = rows
                  /\ d.channel = c.channel /\ d.batch = c.batch /\ d.out = c.out
    BY <1>1, ReaderForm DEF Stays
  <1>5. /\ {"nudges", "last", "replayAgain"} \subseteq ReaderPCs
        /\ {"local", "fanout"} \subseteq Subscriptions
        /\ AfterSubscribe = "replayAgain"
    BY DEF ReaderPCs, Subscriptions, AfterSubscribe
  <1>6. CASE SubscribeLocal(r)
    <2> DEFINE pc == IF deployment.fanout = "redis" THEN "nudges" ELSE AfterSubscribe
               d == [c EXCEPT !.subscription = "local", !.pc = pc]
    <2>1. Becomes(r, d) /\ c.pc = "subscribe"
      BY <1>6 DEF SubscribeLocal, Becomes, TypeOK
    <2>2. pc \in {"nudges", "replayAgain"}
      BY <1>5
    <2>0. pc \in ReaderPCs /\ "local" \in Subscriptions
      BY <1>5, <2>2
    <2> HIDE DEF pc
    <2>3. /\ d \in Reader /\ Stays(c, d) /\ d.pc = pc /\ d.subscription = "local"
          /\ d.lastSeq = c.lastSeq
          /\ d.channel = c.channel /\ d.batch = c.batch /\ d.out = c.out
      BY <1>2, <2>0
    <2> HIDE DEF d
    <2> QED
      BY <2>1, <2>2, <2>3 DEF Subscribes
  <1>7. CASE SubscribeNudges(r)
    <2>1. CASE reader' = [reader EXCEPT ![r].subscription = "fanout", ![r].pc = "last"]
      <3> DEFINE d == [c EXCEPT !.subscription = "fanout", !.pc = "last"]
      <3>1. Becomes(r, d) /\ c.pc = "nudges"
        BY <1>7, <2>1 DEF SubscribeNudges, Becomes, TypeOK
      <3>3. /\ d \in Reader /\ Stays(c, d) /\ d.pc = "last" /\ d.subscription = "fanout"
            /\ d.lastSeq = c.lastSeq
            /\ d.channel = c.channel /\ d.batch = c.batch /\ d.out = c.out
        BY <1>2, <1>5
      <3> HIDE DEF d
      <3> QED
        BY <3>1, <3>3 DEF Subscribes
    <2>2. CASE reader' = [reader EXCEPT ![r].pc = AfterSubscribe]
      <3> DEFINE d == [c EXCEPT !.pc = "replayAgain"]
      <3>1. Becomes(r, d) /\ c.pc = "nudges"
        BY <1>5, <1>7, <2>2 DEF SubscribeNudges, Becomes, TypeOK
      <3>3. /\ d \in Reader /\ Stays(c, d) /\ d.pc = "replayAgain"
            /\ d.subscription = c.subscription /\ d.lastSeq = c.lastSeq
            /\ d.channel = c.channel /\ d.batch = c.batch /\ d.out = c.out
        BY <1>3, <1>5
      <3> HIDE DEF d
      <3> QED
        BY <3>1, <3>3 DEF Subscribes
    <2> QED
      BY <1>7, <2>1, <2>2 DEF SubscribeNudges
  <1>8. CASE ReadLastSeq(r)
    <2>1. PICK rows \in 0..seq :
             /\ ListEvents(0, rows)
             /\ reader' = [reader EXCEPT ![r].lastSeq = rows, ![r].pc = AfterSubscribe]
      BY <1>8 DEF ReadLastSeq
    <2> DEFINE d == [c EXCEPT !.lastSeq = rows, !.pc = "replayAgain"]
    <2>2. Becomes(r, d) /\ c.pc = "last"
      BY <1>5, <1>8, <2>1 DEF ReadLastSeq, Becomes, TypeOK
    <2>3. rows \in Counts
      BY DeploymentType, ConstantsType
    <2>4. /\ d \in Reader /\ Stays(c, d) /\ d.pc = "replayAgain"
          /\ d.subscription = c.subscription /\ d.lastSeq = rows
          /\ d.channel = c.channel /\ d.batch = c.batch /\ d.out = c.out
      BY <1>4, <1>5, <2>3
    <2> HIDE DEF d
    <2> QED
      BY <2>1, <2>2, <2>4 DEF Subscribes
  <1> QED
    BY <1>6, <1>7, <1>8

\* A step of the goroutine of FanoutRepository.Subscribe.
Forwards(c, d) ==
    /\ Stays(c, d) /\ d.pc = c.pc /\ d.subscription = c.subscription
    /\ \/ /\ c.subscription = "fanout" /\ c.pc \in {"replayAgain", "live"}
          /\ c.batch = <<>> /\ c.channel # <<>> /\ d.channel = Tail(c.channel)
          /\ d.batch = IF Head(c.channel) > c.lastSeq THEN <<Head(c.channel)>> ELSE <<>>
          /\ d.lastSeq = c.lastSeq /\ d.out = c.out
       \/ /\ c.subscription = "fanout" /\ c.pc \in {"replayAgain", "live"}
          /\ c.batch = <<>> /\ d.channel = c.channel
          /\ \/ d.batch = <<>>
             \/ \E rows \in 0..(seq - c.lastSeq) :
                  ListEvents(c.lastSeq, rows) /\ d.batch = Listed(c.lastSeq, rows)
          /\ d.lastSeq = c.lastSeq /\ d.out = c.out
       \/ /\ c.batch # <<>> /\ d.channel = c.channel
          /\ d.batch = Tail(c.batch) /\ d.lastSeq = Head(c.batch)
          /\ d.out = Append(c.out, Head(c.batch))

LEMMA TailType ==
    ASSUME NEW s \in Log, s # <<>>
    PROVE  /\ Head(s) \in Seqs /\ Head(s) \in Counts /\ Head(s) = s[1] /\ 1 \in DOMAIN s
           /\ Tail(s) \in Log /\ Len(Tail(s)) = Len(s) - 1 /\ Len(s) \in Nat /\ Len(s) > 0
           /\ \A j \in DOMAIN Tail(s) : Tail(s)[j] = s[j + 1] /\ j + 1 \in DOMAIN s
  <1>1. /\ Head(s) \in Seqs /\ Head(s) = s[1] /\ 1 \in DOMAIN s
        /\ Tail(s) \in Log /\ Len(Tail(s)) = Len(s) - 1 /\ Len(s) \in Nat /\ Len(s) > 0
    BY DEF Log
  <1>2. \A j \in DOMAIN Tail(s) : Tail(s)[j] = s[j + 1] /\ j + 1 \in DOMAIN s
    BY DEF Log
  <1> QED
    BY <1>1, <1>2, ConstantsType

LEMMA LogTypes ==
    /\ <<>> \in Log
    /\ \A e \in Seqs : <<e>> \in Log
    /\ \A e \in Seqs, s \in Log : Append(s, e) \in Log
    /\ \A a \in Nat : \A k \in Nat : a + k <= MaxEvents => Listed(a, k) \in Log
  <1>1. ASSUME NEW a \in Nat, NEW k \in Nat, a + k <= MaxEvents
        PROVE  Listed(a, k) \in Log
    <2>1. \A i \in 1..k : a + i \in Seqs
      BY <1>1, ConstantsType
    <2> QED
      BY <2>1 DEF Listed, Log
  <1> QED
    BY <1>1 DEF Log

LEMMA Forwarded ==
    ASSUME TypeOK, NEW r \in Readers, ForwarderStep(r)
    PROVE  \E d \in Reader : Becomes(r, d) /\ Forwards(reader[r], d)
  <1> DEFINE c == reader[r]
  <1>1. c \in Reader
    BY DEF TypeOK
  <1>2. CASE FanoutLocal(r)
    <2> DEFINE channel == Tail(c.channel)
               batch == IF Head(c.channel) > c.lastSeq THEN <<Head(c.channel)>> ELSE <<>>
               d == [c EXCEPT !.channel = channel, !.batch = batch]
    <2>1. /\ c.subscription = "fanout" /\ c.pc \in {"replayAgain", "live"}
          /\ c.batch = <<>> /\ c.channel # <<>>
      BY <1>2 DEF FanoutLocal, Forwarding
    <2>2. Becomes(r, d)
      BY <1>2 DEF FanoutLocal, Becomes, TypeOK
    <2>3. channel \in Log /\ batch \in Log
      BY <1>1, <2>1, ReaderFields, TailType, LogTypes
    <2> HIDE DEF channel, batch
    <2>4. d \in Reader
      BY <1>1, <2>3, ReaderForm
    <2>5. /\ d.channel = channel /\ d.batch = batch /\ d.lastSeq = c.lastSeq /\ d.out = c.out
          /\ Stays(c, d) /\ d.pc = c.pc /\ d.subscription = c.subscription
      BY <1>1, ReaderForm DEF Stays
    <2> HIDE DEF d
    <2> QED
      BY <2>1, <2>2, <2>4, <2>5 DEF Forwards, channel, batch
  <1>3. CASE FanoutNudge(r)
    <2>1. /\ c.subscription = "fanout" /\ c.pc \in {"replayAgain", "live"}
          /\ c.batch = <<>> /\ c.nudges # <<>>
      BY <1>3 DEF FanoutNudge, Forwarding
    <2> DEFINE nudges == Tail(c.nudges)
    <2>2. nudges \in Log
      BY <1>1, <2>1, ReaderFields, TailType
    <2>3. CASE reader' = [reader EXCEPT ![r].nudges = Tail(@)]
      <3> DEFINE d == [c EXCEPT !.nudges = nudges]
      <3>1. Becomes(r, d)
        BY <2>3 DEF Becomes, TypeOK
      <3> HIDE DEF nudges
      <3>2. d \in Reader
        BY <1>1, <2>2, ReaderForm
      <3>3. /\ d.channel = c.channel /\ d.batch = c.batch /\ d.lastSeq = c.lastSeq
            /\ d.out = c.out /\ Stays(c, d) /\ d.pc = c.pc /\ d.subscription = c.subscription
        BY <1>1, ReaderForm DEF Stays
      <3> HIDE DEF d
      <3> QED
        BY <2>1, <3>1, <3>2, <3>3 DEF Forwards
    <2>4. CASE \E rows \in 0..(seq - c.lastSeq) :
                 /\ ListEvents(c.lastSeq, rows)
                 /\ reader' = [reader EXCEPT ![r].nudges = Tail(@),
                                             ![r].batch = Listed(c.lastSeq, rows)]
      <3>1. PICK rows \in 0..(seq - c.lastSeq) :
                 /\ ListEvents(c.lastSeq, rows)
                 /\ reader' = [reader EXCEPT ![r].nudges = Tail(@),
                                             ![r].batch = Listed(c.lastSeq, rows)]
        BY <2>4
      <3> DEFINE batch == Listed(c.lastSeq, rows)
                 d == [c EXCEPT !.nudges = nudges, !.batch = batch]
      <3>2. Becomes(r, d)
        BY <3>1 DEF Becomes, TypeOK
      <3>3. batch \in Log
        BY <1>1, ReaderFields, DeploymentType, LogTypes, ConstantsType
      <3> HIDE DEF nudges, batch
      <3>4. d \in Reader
        BY <1>1, <2>2, <3>3, ReaderForm
      <3>5. /\ d.channel = c.channel /\ d.batch = batch /\ d.lastSeq = c.lastSeq
            /\ d.out = c.out /\ Stays(c, d) /\ d.pc = c.pc /\ d.subscription = c.subscription
        BY <1>1, ReaderForm DEF Stays
      <3> HIDE DEF d
      <3>6. \E k \in 0..(seq - c.lastSeq) :
               ListEvents(c.lastSeq, k) /\ d.batch = Listed(c.lastSeq, k)
        BY <3>1, <3>5 DEF batch
      <3> QED
        BY <2>1, <3>2, <3>4, <3>5, <3>6 DEF Forwards
    <2> QED
      BY <1>3, <2>3, <2>4 DEF FanoutNudge
  <1>4. CASE ForwardEvent(r)
    <2> DEFINE head == Head(c.batch)
               out == Append(c.out, head)
               batch == Tail(c.batch)
               d == [c EXCEPT !.out = out, !.batch = batch, !.lastSeq = head]
    <2>1. c.batch # <<>>
      BY <1>4 DEF ForwardEvent
    <2>2. Becomes(r, d)
      BY <1>4 DEF ForwardEvent, Becomes, TypeOK
    <2>3. head \in Counts /\ out \in Log /\ batch \in Log
      BY <1>1, <2>1, ReaderFields, TailType, LogTypes
    <2> HIDE DEF head, out, batch
    <2>4. d \in Reader
      BY <1>1, <2>3, ReaderForm
    <2>5. /\ d.channel = c.channel /\ d.batch = batch /\ d.lastSeq = head /\ d.out = out
          /\ Stays(c, d) /\ d.pc = c.pc /\ d.subscription = c.subscription
      BY <1>1, ReaderForm DEF Stays
    <2> HIDE DEF d
    <2> QED
      BY <2>1, <2>2, <2>4, <2>5 DEF Forwards, head, out, batch
  <1> QED
    BY <1>2, <1>3, <1>4 DEF ForwarderStep

\* The handler takes an event from its channel and writes it if it is new.
Takes(c, d, event) ==
    /\ c.pc = "live" /\ d.pc = c.pc /\ d.at = c.at /\ d.url = c.url /\ d.due = c.due
    /\ d.subscription = c.subscription /\ d.batch = c.batch /\ d.lastSeq = c.lastSeq
    /\ \/ /\ c.subscription = "fanout" /\ c.out # <<>> /\ event = Head(c.out)
          /\ d.out = Tail(c.out) /\ d.channel = c.channel
       \/ /\ c.subscription # "fanout" /\ c.channel # <<>> /\ event = Head(c.channel)
          /\ d.channel = Tail(c.channel) /\ d.out = c.out
    /\ IF event > c.afterSeq
       THEN d.seen = MarkSeen(c.seen, event) /\ d.lastID = event /\ d.afterSeq = event
       ELSE d.seen = c.seen /\ d.lastID = c.lastID /\ d.afterSeq = c.afterSeq

LEMMA Taken ==
    ASSUME TypeOK, NEW r \in Readers, Increasing(reader[r].seen), WriteLive(r)
    PROVE  \E event \in Seqs : \E d \in Reader : Becomes(r, d) /\ Takes(reader[r], d, event)
  <1> DEFINE c == reader[r]
             events == IF c.subscription = "fanout" THEN c.out ELSE c.channel
             event == Head(events)
             rest == IF c.subscription = "fanout" THEN [c EXCEPT !.out = Tail(@)]
                                                  ELSE [c EXCEPT !.channel = Tail(@)]
  <1>1. c \in Reader
    BY DEF TypeOK
  <1>2. c.pc = "live" /\ events # <<>>
    BY DEF WriteLive
  <1>3. Becomes(r, IF event > c.afterSeq
                   THEN [Receive(rest, <<event>>) EXCEPT !.afterSeq = event] ELSE rest)
    BY DEF WriteLive, Becomes
  <1>4. events \in Log /\ event \in Seqs /\ event \in Counts /\ Tail(events) \in Log
    BY <1>1, <1>2, ReaderFields, TailType
  <1>5. /\ rest \in Reader
        /\ rest.pc = c.pc /\ rest.at = c.at /\ rest.url = c.url /\ rest.due = c.due
        /\ rest.subscription = c.subscription /\ rest.batch = c.batch /\ rest.lastSeq = c.lastSeq
        /\ rest.seen = c.seen /\ rest.lastID = c.lastID /\ rest.afterSeq = c.afterSeq
        /\ \/ /\ c.subscription = "fanout" /\ c.out # <<>> /\ event = Head(c.out)
              /\ rest.out = Tail(c.out) /\ rest.channel = c.channel
           \/ /\ c.subscription # "fanout" /\ c.channel # <<>> /\ event = Head(c.channel)
              /\ rest.channel = Tail(c.channel) /\ rest.out = c.out
    <2>1. CASE c.subscription = "fanout"
      <3> DEFINE out == Tail(c.out)
      <3>1. rest = [c EXCEPT !.out = out] /\ out \in Log /\ event = Head(c.out) /\ c.out # <<>>
        BY <1>2, <1>4, <2>1
      <3> HIDE DEF rest, event, out, events
      <3> QED
        BY <1>1, <2>1, <3>1, ReaderForm DEF out
    <2>2. CASE c.subscription # "fanout"
      <3> DEFINE channel == Tail(c.channel)
      <3>1. /\ rest = [c EXCEPT !.channel = channel] /\ channel \in Log
            /\ event = Head(c.channel) /\ c.channel # <<>>
        BY <1>2, <1>4, <2>2
      <3> HIDE DEF rest, event, channel, events
      <3> QED
        BY <1>1, <2>2, <3>1, ReaderForm DEF channel
    <2> QED
      BY <2>1, <2>2
  <1> HIDE DEF events, event, rest
  <1>6. CASE ~(event > c.afterSeq)
    <2>1. Becomes(r, rest)
      BY <1>3, <1>6
    <2> QED
      BY <1>2, <1>4, <1>5, <1>6, <2>1 DEF Takes
  <1>7. CASE event > c.afterSeq
    <2> DEFINE b == Receive(rest, <<event>>)
               seen == MarkSeen(c.seen, event)
               d == [b EXCEPT !.afterSeq = event]
    <2>1. Becomes(r, d)
      BY <1>3, <1>7
    <2>2. seen \in Log
      BY <1>1, <1>4, ReaderFields, MarkSeenKeeps DEF Log
    <2>3. b = [rest EXCEPT !.seen = seen, !.lastID = event]
      <3>1. LastOf(<<event>>) = event /\ <<event>> # <<>>
        BY DEF LastOf
      <3>2. Applied(rest.seen, <<event>>) = seen
        BY <1>5, AppliedOne
      <3> HIDE DEF seen
      <3> QED
        BY <3>1, <3>2 DEF Receive
    <2> HIDE DEF seen, b
    <2>4. /\ b \in Reader /\ b.seen = seen /\ b.lastID = event
          /\ b.pc = rest.pc /\ b.at = rest.at /\ b.url = rest.url /\ b.due = rest.due
          /\ b.subscription = rest.subscription /\ b.batch = rest.batch
          /\ b.lastSeq = rest.lastSeq /\ b.out = rest.out /\ b.channel = rest.channel
      BY <1>4, <1>5, <2>2, <2>3, ReaderForm
    <2>5. /\ d \in Reader /\ d.afterSeq = event /\ d.seen = b.seen /\ d.lastID = b.lastID
          /\ d.pc = b.pc /\ d.at = b.at /\ d.url = b.url /\ d.due = b.due
          /\ d.subscription = b.subscription /\ d.batch = b.batch
          /\ d.lastSeq = b.lastSeq /\ d.out = b.out /\ d.channel = b.channel
      BY <1>4, <2>4, ReaderForm
    <2> HIDE DEF d
    <2>6. Takes(c, d, event)
      BY <1>2, <1>5, <1>7, <2>4, <2>5 DEF Takes, seen
    <2> QED
      BY <1>4, <2>1, <2>5, <2>6
  <1> QED
    BY <1>6, <1>7

-----------------------------------------------------------------------------
(* The inductive invariant *)

\* One writer sends every event on one control plane, and no channel overflows.
Single ==
    /\ "commit" \notin deployment.failing
    /\ \E w \in Writers : deployment.writers = {w}
    /\ \E p \in Replicas : deployment.writersAt = {p}
    /\ deployment.bufferSize >= deployment.events

\* What a reader has, by where its handler is.
Shape(c) ==
    /\ c.at \in deployment.readersAt
    /\ c.pc \in {"new", "closed", "replay", "subscribe"} <=> c.subscription = "none"
    /\ c.pc = "nudges" => c.subscription = "local"
    /\ c.pc = "last" => c.subscription = "fanout"
    /\ c.subscription = "none" => c.channel = <<>>
    /\ c.pc \notin {"replayAgain", "live"} => c.batch = <<>> /\ c.out = <<>> /\ c.lastSeq = 0
    /\ c.subscription # "fanout" => c.batch = <<>> /\ c.out = <<>>

\* The first replay starts before all that is due, and has written it when it ends.
DueOK(c, last) == "list" \notin deployment.failing =>
    /\ c.pc = "replay" => \A n \in c.due : n > c.afterSeq /\ n > LastOf(c.seen) /\ n <= last
    /\ c.pc \in {"subscribe", "nudges", "last", "replayAgain", "live"} =>
           \A n \in c.due : Holds(c.seen, n)

\* The browser has a prefix of the log, and nothing it asks for lies beyond.
PlaceOK(c, last) ==
    /\ Prefix(c.seen) /\ Len(c.seen) <= last
    /\ c.url <= Len(c.seen) /\ c.lastID <= Len(c.seen) /\ c.afterSeq <= Len(c.seen)

\* out, lastSeq and batch are consecutive, and out follows what has been written.
ForwardOK(c, last) ==
    /\ \A j \in DOMAIN c.out : c.out[j] = c.lastSeq - Len(c.out) + j
    /\ \A j \in DOMAIN c.batch : c.batch[j] = c.lastSeq + j
    /\ c.lastSeq + Len(c.batch) <= last
    /\ c.subscription = "fanout" /\ c.pc = "live" => c.lastSeq - Len(c.out) <= c.afterSeq

\* A subscription that receives the events of its own control plane.
Near(c) == Single /\ c.subscription # "none" /\ c.at \in deployment.writersAt

\* Its channel has the events before the one it is to receive next, without a gap to
\* what has been written or forwarded.
ChannelOK(c, coming) ==
    IF Near(c)
    THEN /\ \A j \in DOMAIN c.channel : c.channel[j] = coming - Len(c.channel) + j - 1
         /\ c.subscription = "local" /\ c.pc = "live" =>
                coming - Len(c.channel) <= c.afterSeq + 1
         /\ c.subscription = "fanout" /\ c.pc \in {"replayAgain", "live"} =>
                coming - Len(c.channel) <= c.lastSeq + 1 + Len(c.batch)
    ELSE c.channel = <<>>

ReaderOK(c, last, coming) ==
    /\ Shape(c) /\ Increasing(c.seen) /\ DueOK(c, last)
    /\ InOrder => PlaceOK(c, last) /\ ForwardOK(c, last) /\ ChannelOK(c, coming)

\* The event a reader receives next: the last one, if it has yet to be sent to it.
Coming(r) ==
    IF \E w \in Writers : \/ writer[w].pc = "publish"
                          \/ writer[w].pc = "send" /\ r \in writer[w].subscribers
    THEN seq ELSE seq + 1

WriterOK(w) ==
    LET c == writer[w] IN
    /\ c.at \in deployment.writersAt
    /\ c.pc # "idle" => w \in deployment.writers /\ c.event \in Seqs /\ c.event <= seq
    /\ \A r \in c.subscribers :
          c.pc = "send" /\ reader[r].subscription # "none" /\ reader[r].at = c.at
    /\ Single /\ c.pc \in {"publish", "send"} => c.event = seq

IInv ==
    /\ TypeOK
    /\ \A w \in Writers : WriterOK(w)
    /\ \A r \in Readers : ReaderOK(reader[r], seq, Coming(r))

-----------------------------------------------------------------------------
(* What the steps of a reader keep *)

LEMMA ListedAll ==
    ASSUME "list" \notin deployment.failing, NEW after, NEW rows, ListEvents(after, rows)
    PROVE  rows = seq - after
  BY DEF ListEvents, Fault

LEMMA Empty ==
    /\ DOMAIN <<>> = {} /\ Len(<<>>) = 0
  OBVIOUS

LEMMA ConnectKeeps ==
    ASSUME TypeOK, NEW c \in Reader, NEW d \in Reader, NEW k,
           ReaderOK(c, seq, k), c.pc \in {"new", "closed"}, Connects(c, d)
    PROVE  ReaderOK(d, seq, k)
  <1>1. c.subscription = "none" /\ c.channel = <<>> /\ c.batch = <<>> /\ c.out = <<>> /\ c.lastSeq = 0
    BY DEF ReaderOK, Shape
  <1>2. Shape(d)
    BY <1>1 DEF Connects, Shape
  <1>3. Increasing(d.seen)
    BY DEF ReaderOK, Connects
  <1>4. DueOK(d, seq)
    BY DEF DueOK, Connects
  <1>5. ASSUME InOrder
        PROVE  PlaceOK(d, seq) /\ ForwardOK(d, seq) /\ ChannelOK(d, k)
    <2>1. PlaceOK(c, seq)
      BY <1>5 DEF ReaderOK
    <2>2. LastOf(c.seen) = Len(c.seen) /\ Len(c.seen) \in Nat
      <3>1. c.seen \in Seq(Seqs)
        BY ReaderFields DEF Log
      <3>2. c.seen # <<>> => Len(c.seen) \in DOMAIN c.seen
        BY <3>1
      <3>3. c.seen = <<>> => Len(c.seen) = 0
        OBVIOUS
      <3>4. c.seen # <<>> => c.seen[Len(c.seen)] = Len(c.seen)
        BY <2>1, <3>2 DEF PlaceOK, Prefix
      <3> QED
        BY <3>1, <3>3, <3>4 DEF LastOf
    <2>3. PlaceOK(d, seq)
      BY <2>1, <2>2 DEF PlaceOK, Connects
    <2>4. ForwardOK(d, seq)
      BY <1>1, <1>2, Empty, DeploymentType DEF ForwardOK, Connects, Shape
    <2>5. ChannelOK(d, k)
      BY <1>1 DEF ChannelOK, Near, Connects
    <2> QED
      BY <2>3, <2>4, <2>5
  <1> QED
    BY <1>2, <1>3, <1>4, <1>5 DEF ReaderOK

LEMMA CloseKeeps ==
    ASSUME TypeOK, NEW c \in Reader, NEW d \in Reader, NEW k,
           c.at \in deployment.readersAt, Increasing(c.seen), InOrder => PlaceOK(c, seq),
           Closes(c, d)
    PROVE  ReaderOK(d, seq, k)
  <1>1. Shape(d)
    BY DEF Closes, Shape
  <1>2. Increasing(d.seen)
    BY DEF Closes
  <1>3. DueOK(d, seq)
    BY DEF DueOK, Closes
  <1>4. ASSUME InOrder
        PROVE  PlaceOK(d, seq) /\ ForwardOK(d, seq) /\ ChannelOK(d, k)
    <2>1. PlaceOK(d, seq)
      BY <1>4 DEF PlaceOK, Closes
    <2>2. ForwardOK(d, seq)
      BY Empty, DeploymentType DEF ForwardOK, Closes
    <2>3. ChannelOK(d, k)
      BY DEF ChannelOK, Near, Closes
    <2> QED
      BY <2>1, <2>2, <2>3
  <1> QED
    BY <1>1, <1>2, <1>3, <1>4 DEF ReaderOK

\* The browser is no worse off for a part of what a replay lists.
LEMMA ReceiveKeeps ==
    ASSUME TypeOK, NEW c \in Reader, NEW d \in Reader, NEW n \in Nat,
           n <= seq - c.afterSeq,
           Increasing(c.seen), d.seen = Applied(c.seen, Listed(c.afterSeq, n)),
           d.lastID = IF n > 0 THEN c.afterSeq + n ELSE c.lastID, d.url = c.url,
           d.afterSeq \in {c.afterSeq, c.afterSeq + n}
    PROVE  /\ Increasing(d.seen)
           /\ \A m : Holds(c.seen, m) => Holds(d.seen, m)
           /\ \A m \in (c.afterSeq + 1)..(c.afterSeq + n) :
                 m > LastOf(c.seen) => Holds(d.seen, m)
           /\ PlaceOK(c, seq) => PlaceOK(d, seq)
  <1> DEFINE a == c.afterSeq
  <1>1. a \in Nat /\ a + n <= MaxEvents /\ c.seen \in Seq(Seqs)
    <2>1. a \in Nat /\ seq \in Nat /\ seq <= MaxEvents /\ MaxEvents \in Nat
      BY ReaderFields, DeploymentType, ConstantsType
    <2>2. c.seen \in Seq(Seqs)
      BY ReaderFields DEF Log
    <2> QED
      BY <2>1, <2>2
  <1>2. /\ Increasing(d.seen)
        /\ \A m : Holds(c.seen, m) => Holds(d.seen, m)
        /\ \A m \in (a + 1)..(a + n) : m > LastOf(c.seen) => Holds(d.seen, m)
    BY <1>1, AppliedListed, AppliedKeeps
  <1>3. ASSUME PlaceOK(c, seq)
        PROVE  PlaceOK(d, seq)
    <2>1. Prefix(c.seen) /\ a <= Len(c.seen) /\ Len(c.seen) \in Nat
      BY <1>1, <1>3 DEF PlaceOK
    <2>2. Prefix(d.seen) /\ Len(d.seen) = IF a + n > Len(c.seen) THEN a + n ELSE Len(c.seen)
      <3> HIDE DEF a
      <3>1. /\ Prefix(Applied(c.seen, Listed(a, n)))
            /\ Len(Applied(c.seen, Listed(a, n))) =
                  IF a + n > Len(c.seen) THEN a + n ELSE Len(c.seen)
        BY <1>1, <2>1, AppliedPrefix
      <3> QED
        BY <3>1 DEF a
    <2>3. c.url \in Nat /\ c.lastID \in Nat /\ seq \in Nat
      BY ReaderFields, DeploymentType
    <2> QED
      BY <1>1, <1>3, <2>1, <2>2, <2>3 DEF PlaceOK
  <1> QED
    BY <1>2, <1>3

LEMMA ReplayKeeps ==
    ASSUME TypeOK, NEW c \in Reader, NEW d \in Reader, NEW k \in {seq, seq + 1},
           NEW rows \in 0..(seq - c.afterSeq), ListEvents(c.afterSeq, rows),
           ReaderOK(c, seq, k), c.pc \in {"replay", "replayAgain"}, Replays(c, d, rows)
    PROVE  ReaderOK(d, seq, k)
  <1>0. /\ c.afterSeq \in Nat /\ seq \in Nat /\ c.lastSeq \in Nat /\ rows \in Nat
        /\ rows <= seq - c.afterSeq
    BY ReaderFields, DeploymentType
  <1>1. Increasing(c.seen)
    BY DEF ReaderOK
  <1>2. d.pc = IF c.pc = "replay" THEN "subscribe" ELSE "live"
    BY DEF Replays, AfterReplay
  <1>3. /\ Increasing(d.seen)
        /\ \A m : Holds(c.seen, m) => Holds(d.seen, m)
        /\ \A m \in (c.afterSeq + 1)..(c.afterSeq + rows) :
                 m > LastOf(c.seen) => Holds(d.seen, m)
        /\ PlaceOK(c, seq) => PlaceOK(d, seq)
    BY <1>0, <1>1, ReceiveKeeps DEF Replays
  <1>4. Shape(d)
    BY <1>2 DEF Replays, Shape, ReaderOK
  <1>5. ASSUME "list" \notin deployment.failing, NEW n \in d.due
        PROVE  Holds(d.seen, n)
    <2>1. n \in c.due /\ n \in Nat
      BY <1>5, ReaderFields, ConstantsType DEF Replays, Dues
    <2>2. CASE c.pc = "replay"
      <3>1. n > c.afterSeq /\ n > LastOf(c.seen) /\ n <= seq
        BY <1>5, <2>1, <2>2 DEF ReaderOK, DueOK
      <3>2. rows = seq - c.afterSeq
        BY <1>5, ListedAll
      <3>3. n \in (c.afterSeq + 1)..(c.afterSeq + rows)
        BY <1>0, <2>1, <3>1, <3>2
      <3> QED
        BY <1>3, <3>1, <3>3
    <2>3. CASE c.pc = "replayAgain"
      BY <1>3, <1>5, <2>1, <2>3 DEF ReaderOK, DueOK
    <2> QED
      BY <2>2, <2>3
  <1>6. DueOK(d, seq)
    BY <1>2, <1>5 DEF DueOK
  <1>7. ASSUME InOrder
        PROVE  PlaceOK(d, seq) /\ ForwardOK(d, seq) /\ ChannelOK(d, k)
    <2>1. d.afterSeq = seq
      BY <1>0, <1>7, ListedAll DEF InOrder, Replays
    <2>2. PlaceOK(d, seq)
      BY <1>3, <1>7 DEF ReaderOK
    <2>3. ForwardOK(c, seq) /\ ChannelOK(c, k)
      BY <1>7 DEF ReaderOK
    <2>4. Len(c.out) \in Nat /\ Len(c.batch) \in Nat /\ Len(c.channel) \in Nat
      BY ReaderFields DEF Log
    <2>5. ForwardOK(d, seq)
      BY <1>0, <2>1, <2>3, <2>4 DEF ForwardOK, Replays
    <2>6. ChannelOK(d, k)
      <3>1. Near(d) <=> Near(c)
        BY DEF Near, Replays
      <3>2. CASE ~Near(c)
        BY <2>3, <3>1, <3>2 DEF ChannelOK, Replays
      <3>3. CASE Near(c)
        <4>1. k - Len(d.channel) <= seq + 1
          <5>1. d.channel = c.channel
            BY DEF Replays
          <5> DEFINE n == Len(d.channel)
          <5>2. n \in Nat
            BY <2>4, <5>1
          <5> HIDE DEF n
          <5>3. k - n <= seq + 1
            BY <1>0, <5>2
          <5> QED
            BY <5>3 DEF n
        <4>2. c.subscription = "fanout" /\ d.pc = "live" => c.pc = "replayAgain"
          BY <1>2
        <4>3. d.pc # "replayAgain"
          BY <1>2
        <4>4. /\ \A j \in DOMAIN c.channel : c.channel[j] = k - Len(c.channel) + j - 1
              /\ c.subscription = "fanout" /\ c.pc = "replayAgain" =>
                    k - Len(c.channel) <= c.lastSeq + 1 + Len(c.batch)
          BY <2>3, <3>3 DEF ChannelOK
        <4> QED
          BY <1>2, <2>1, <3>1, <3>3, <4>1, <4>2, <4>3, <4>4 DEF ChannelOK, Replays
      <3> QED
        BY <3>2, <3>3
    <2> QED
      BY <2>2, <2>5, <2>6
  <1> QED
    BY <1>3, <1>4, <1>6, <1>7 DEF ReaderOK

LEMMA SubscribeKeeps ==
    ASSUME TypeOK, NEW c \in Reader, NEW d \in Reader, NEW k \in {seq, seq + 1},
           ReaderOK(c, seq, k), Subscribes(c, d)
    PROVE  ReaderOK(d, seq, k)
  <1>0. seq \in Nat /\ c.lastSeq \in Nat /\ d.lastSeq \in Nat
    BY ReaderFields, DeploymentType
  <1>1. Shape(c) /\ c.pc \in {"subscribe", "nudges", "last"}
    BY DEF ReaderOK, Subscribes
  <1>2. Shape(d) /\ d.pc \in {"nudges", "last", "replayAgain"}
    BY <1>1 DEF Subscribes, Stays, Shape
  <1>3. Increasing(d.seen) /\ DueOK(d, seq)
    BY <1>1, <1>2 DEF ReaderOK, Subscribes, Stays, DueOK
  <1>4. c.batch = <<>> /\ c.out = <<>> /\ c.lastSeq = 0 /\ d.batch = <<>> /\ d.out = <<>>
    BY <1>1 DEF Shape, Subscribes
  <1>5. d.lastSeq <= seq
    BY <1>0, <1>4 DEF Subscribes
  <1>6. ASSUME InOrder
        PROVE  PlaceOK(d, seq) /\ ForwardOK(d, seq) /\ ChannelOK(d, k)
    <2>1. PlaceOK(d, seq)
      BY <1>6 DEF ReaderOK, Subscribes, Stays, PlaceOK
    <2>2. ForwardOK(d, seq)
      BY <1>0, <1>2, <1>4, <1>5, Empty DEF ForwardOK
    <2>3. ChannelOK(c, k)
      BY <1>6 DEF ReaderOK
    <2>4. d.channel = c.channel /\ d.at = c.at
      BY DEF Subscribes, Stays
    <2>5. CASE c.pc = "subscribe"
      <3>1. d.channel = <<>> /\ d.subscription = "local"
        BY <1>1, <2>4, <2>5 DEF Shape, Subscribes
      <3> QED
        BY <1>2, <2>1, <2>2, <3>1, Empty DEF ChannelOK
    <2>6. CASE c.pc # "subscribe"
      <3>1. c.subscription # "none" /\ d.subscription # "none"
        BY <1>1, <2>6 DEF Shape, Subscribes
      <3>2. Near(d) <=> Near(c)
        BY <2>4, <3>1 DEF Near
      <3>3. CASE ~Near(c)
        BY <2>1, <2>2, <2>3, <2>4, <3>2, <3>3 DEF ChannelOK
      <3>4. CASE Near(c)
        <4>1. \A j \in DOMAIN d.channel : d.channel[j] = k - Len(d.channel) + j - 1
          BY <2>3, <2>4, <3>4 DEF ChannelOK
        <4>2. d.subscription = "fanout" /\ d.pc = "replayAgain" => d.lastSeq = seq
          BY <1>0, <1>1, <1>6, ListedAll DEF Subscribes, InOrder, Shape
        <4>3. Len(d.channel) \in Nat
          BY ReaderFields DEF Log
        <4>4. k - Len(d.channel) <= seq + 1 + Len(<<>>)
          <5> DEFINE n == Len(d.channel)
          <5>1. n \in Nat
            BY <4>3
          <5> HIDE DEF n
          <5>2. k - n <= seq + 1 + Len(<<>>)
            BY <1>0, <5>1, Empty
          <5> QED
            BY <5>2 DEF n
        <4>5. ChannelOK(d, k)
          BY <1>2, <1>4, <3>2, <3>4, <4>1, <4>2, <4>4 DEF ChannelOK
        <4> QED
          BY <2>1, <2>2, <4>5
      <3> QED
        BY <3>3, <3>4
    <2> QED
      BY <2>5, <2>6
  <1> QED
    BY <1>2, <1>3, <1>6 DEF ReaderOK

LEMMA ListedBatch ==
    ASSUME NEW a \in Nat, NEW n \in Nat
    PROVE  /\ Len(Listed(a, n)) = n
           /\ \A j \in DOMAIN Listed(a, n) : Listed(a, n)[j] = a + j
  BY DEF Listed

LEMMA AppendType ==
    ASSUME NEW s \in Log, NEW e \in Seqs
    PROVE  /\ Append(s, e) \in Log /\ Len(Append(s, e)) = Len(s) + 1 /\ Len(s) \in Nat
           /\ DOMAIN s = 1..Len(s) /\ DOMAIN Append(s, e) = 1..(Len(s) + 1)
           /\ Append(s, e)[Len(s) + 1] = e
           /\ \A j \in 1..Len(s) : Append(s, e)[j] = s[j]
  BY DEF Log

LEMMA ForwardKeepsOrder ==
    ASSUME TypeOK, NEW c \in Reader, NEW d \in Reader, NEW k \in {seq, seq + 1},
           ReaderOK(c, seq, k), Forwards(c, d), InOrder
    PROVE  ForwardOK(d, seq) /\ ChannelOK(d, k)
  <1>0. seq \in Nat /\ c.lastSeq \in Nat /\ c.afterSeq \in Nat /\ d.afterSeq = c.afterSeq
    BY ReaderFields, DeploymentType DEF Forwards, Stays
  <1>1. c.out \in Log /\ c.batch \in Log /\ c.channel \in Log
    BY ReaderFields
  <1>2. ForwardOK(c, seq) /\ ChannelOK(c, k)
    BY DEF ReaderOK
  <1>3. Near(d) <=> Near(c)
    BY DEF Near, Forwards, Stays
  <1>4. /\ c.lastSeq - Len(c.out) <= c.afterSeq \/ ~(c.subscription = "fanout" /\ c.pc = "live")
        /\ c.lastSeq + Len(c.batch) <= seq
        /\ \A j \in DOMAIN c.out : c.out[j] = c.lastSeq - Len(c.out) + j
        /\ \A j \in DOMAIN c.batch : c.batch[j] = c.lastSeq + j
    BY <1>2 DEF ForwardOK
  <1>5. ASSUME Near(c)
        PROVE  /\ \A j \in DOMAIN c.channel : c.channel[j] = k - Len(c.channel) + j - 1
               /\ c.subscription = "local" /\ c.pc = "live" =>
                     k - Len(c.channel) <= c.afterSeq + 1
               /\ c.subscription = "fanout" /\ c.pc \in {"replayAgain", "live"} =>
                     k - Len(c.channel) <= c.lastSeq + 1 + Len(c.batch)
    BY <1>2, <1>5 DEF ChannelOK
  <1>6. d.pc = c.pc /\ d.subscription = c.subscription
    BY DEF Forwards
  <1>7. CASE /\ c.subscription = "fanout" /\ c.pc \in {"replayAgain", "live"}
             /\ c.batch = <<>> /\ c.channel # <<>> /\ d.channel = Tail(c.channel)
             /\ d.batch = IF Head(c.channel) > c.lastSeq THEN <<Head(c.channel)>> ELSE <<>>
             /\ d.lastSeq = c.lastSeq /\ d.out = c.out
    <2> DEFINE head == Head(c.channel)
               n == Len(c.channel)
               m == Len(c.out)
    <2>1. /\ head \in Seqs /\ head = c.channel[1] /\ 1 \in DOMAIN c.channel
          /\ n \in Nat /\ n > 0 /\ Len(d.channel) = n - 1 /\ m \in Nat
          /\ \A j \in DOMAIN d.channel : d.channel[j] = c.channel[j + 1] /\ j + 1 \in DOMAIN c.channel
      BY <1>1, <1>7, TailType, LenProperties DEF Log
    <2>2. Near(c)
      BY <1>2, <1>7 DEF ChannelOK
    <2>3. head = k - n /\ k - n <= c.lastSeq + 1
      BY <1>0, <1>5, <1>7, <2>1, <2>2, Empty
    <2>4. /\ d.batch = IF head > c.lastSeq THEN <<head>> ELSE <<>>
          /\ head \in Nat /\ Len(<<head>>) = 1 /\ DOMAIN <<head>> = {1} /\ <<head>>[1] = head
      BY <1>7, <2>1, ConstantsType
    <2>5. ForwardOK(d, seq)
      <3>1. c.lastSeq <= seq
        BY <1>0, <1>4, <1>7, Empty
      <3>2. head > c.lastSeq => head = c.lastSeq + 1 /\ head <= seq
        <4> HIDE DEF head, n
        <4> QED
          BY <1>0, <2>1, <2>3, <2>4
      <3>3. /\ \A j \in DOMAIN d.batch : d.batch[j] = c.lastSeq + j
            /\ c.lastSeq + Len(d.batch) <= seq
        <4> HIDE DEF head, n
        <4> QED
          BY <1>0, <2>4, <3>1, <3>2, Empty
      <3> QED
        BY <1>4, <1>6, <1>0, <1>7, <3>3 DEF ForwardOK
    <2>6. ChannelOK(d, k)
      <3>1. \A j \in DOMAIN d.channel : d.channel[j] = k - Len(d.channel) + j - 1
        <4>1. ASSUME NEW j \in DOMAIN d.channel
              PROVE  d.channel[j] = k - (n - 1) + j - 1
          <5>1. d.channel[j] = k - n + (j + 1) - 1 /\ j \in Nat
            BY <1>1, <1>5, <1>7, <2>1, <2>2, TailType, LenProperties DEF Log
          <5> HIDE DEF n
          <5> QED
            BY <1>0, <2>1, <5>1
        <4> QED
          BY <2>1, <4>1
      <3>2. k - (n - 1) <= c.lastSeq + 1 + Len(d.batch)
        <4> HIDE DEF head, n
        <4> QED
          BY <1>0, <2>1, <2>3, <2>4, Empty
      <3> QED
        BY <1>3, <1>6, <1>7, <2>1, <2>2, <3>1, <3>2 DEF ChannelOK
    <2> QED
      BY <2>5, <2>6
  <1>8. CASE /\ c.subscription = "fanout" /\ c.pc \in {"replayAgain", "live"}
             /\ c.batch = <<>> /\ d.channel = c.channel
             /\ \/ d.batch = <<>>
                \/ \E rows \in 0..(seq - c.lastSeq) :
                     ListEvents(c.lastSeq, rows) /\ d.batch = Listed(c.lastSeq, rows)
             /\ d.lastSeq = c.lastSeq /\ d.out = c.out
    <2> DEFINE n == Len(d.batch)
    <2>1. n \in Nat /\ n <= seq - c.lastSeq /\ \A j \in DOMAIN d.batch : d.batch[j] = c.lastSeq + j
      <3>1. CASE d.batch = <<>>
        BY <1>0, <1>4, <1>8, <3>1, Empty
      <3>2. CASE \E rows \in 0..(seq - c.lastSeq) : d.batch = Listed(c.lastSeq, rows)
        BY <1>0, <3>2, ListedBatch
      <3> QED
        BY <1>8, <3>1, <3>2
    <2>2. ForwardOK(d, seq)
      <3>1. c.lastSeq + n <= seq
        <4> HIDE DEF n
        <4> QED
          BY <1>0, <2>1
      <3> QED
        BY <1>0, <1>4, <1>6, <1>8, <2>1, <3>1 DEF ForwardOK
    <2>3. ChannelOK(d, k)
      <3>1. CASE ~Near(c)
        BY <1>2, <1>3, <1>8, <3>1 DEF ChannelOK
      <3>2. CASE Near(c)
        <4> DEFINE m == Len(c.channel)
        <4>1. m \in Nat
          BY <1>1, LenProperties DEF Log
        <4>2. k - m <= c.lastSeq + 1
          BY <1>0, <1>5, <1>8, <3>2, Empty
        <4>3. k - m <= c.lastSeq + 1 + n
          <5> HIDE DEF n, m
          <5> QED
            BY <1>0, <2>1, <4>1, <4>2
        <4> QED
          BY <1>3, <1>5, <1>6, <1>8, <3>2, <4>3 DEF ChannelOK
      <3> QED
        BY <3>1, <3>2
    <2> QED
      BY <2>2, <2>3
  <1>9. CASE /\ c.batch # <<>> /\ d.channel = c.channel
             /\ d.batch = Tail(c.batch) /\ d.lastSeq = Head(c.batch)
             /\ d.out = Append(c.out, Head(c.batch))
    <2> DEFINE head == Head(c.batch)
               n == Len(c.batch)
               m == Len(c.out)
    <2>1. /\ head \in Seqs /\ head = c.batch[1] /\ 1 \in DOMAIN c.batch
          /\ n \in Nat /\ n > 0 /\ Len(d.batch) = n - 1
          /\ \A j \in DOMAIN d.batch : d.batch[j] = c.batch[j + 1] /\ j + 1 \in DOMAIN c.batch
      BY <1>1, <1>9, TailType
    <2>2. head = c.lastSeq + 1
      BY <1>4, <2>1
    <2>3. /\ m \in Nat /\ Len(d.out) = m + 1 /\ DOMAIN d.out = 1..(m + 1)
          /\ d.out[m + 1] = head /\ \A j \in 1..m : d.out[j] = c.out[j] /\ j \in DOMAIN c.out
      BY <1>1, <1>9, <2>1, AppendType
    <2>4. \A j \in DOMAIN d.batch : d.batch[j] = head + j
      <3>1. ASSUME NEW j \in DOMAIN d.batch
            PROVE  d.batch[j] = head + j
        <4>1. d.batch[j] = c.lastSeq + (j + 1) /\ j \in Nat
          BY <1>1, <1>4, <1>9, <2>1, TailType, LenProperties DEF Log
        <4> HIDE DEF head
        <4> QED
          BY <1>0, <2>2, <4>1
      <3> QED
        BY <3>1
    <2>5. \A j \in DOMAIN d.out : d.out[j] = head - (m + 1) + j
      <3>1. ASSUME NEW j \in 1..m
            PROVE  d.out[j] = head - (m + 1) + j
        <4>1. d.out[j] = c.lastSeq - m + j
          BY <1>4, <2>3
        <4> HIDE DEF head, m
        <4> QED
          BY <1>0, <2>2, <2>3, <4>1
      <3>2. d.out[m + 1] = head - (m + 1) + (m + 1)
        <4> HIDE DEF head, m
        <4> QED
          BY <1>0, <2>2, <2>3
      <3>3. \A j \in DOMAIN d.out : j \in 1..m \/ j = m + 1
        <4> HIDE DEF m
        <4> QED
          BY <2>3
      <3> QED
        BY <3>1, <3>2, <3>3
    <2>6. head + (n - 1) = c.lastSeq + n /\ head - (m + 1) = c.lastSeq - m
      <3> DEFINE l == c.lastSeq
      <3>1. n \in Nat /\ m \in Nat /\ l \in Nat /\ head = l + 1
        BY <1>0, <2>1, <2>2, <2>3
      <3> HIDE DEF head, n, m, l
      <3>2. head + (n - 1) = l + n /\ head - (m + 1) = l - m
        BY <3>1
      <3> QED
        BY <3>2 DEF l
    <2>7. ForwardOK(d, seq)
      BY <1>0, <1>4, <1>6, <1>9, <2>1, <2>3, <2>4, <2>5, <2>6 DEF ForwardOK
    <2>8. ChannelOK(d, k)
      <3>1. CASE ~Near(c)
        BY <1>2, <1>3, <1>9, <3>1 DEF ChannelOK
      <3>2. CASE Near(c)
        <4>1. d.lastSeq + 1 + Len(d.batch) = c.lastSeq + 1 + Len(c.batch)
          <5>1. head + 1 + (n - 1) = c.lastSeq + 1 + n
            <6> HIDE DEF head, n
            <6> QED
              BY <1>0, <2>1, <2>2
          <5> QED
            BY <1>9, <2>1, <5>1
        <4> QED
          BY <1>0, <1>3, <1>5, <1>6, <1>9, <3>2, <4>1 DEF ChannelOK
      <3> QED
        BY <3>1, <3>2
    <2> QED
      BY <2>7, <2>8
  <1> QED
    BY <1>7, <1>8, <1>9 DEF Forwards

LEMMA ForwardKeeps ==
    ASSUME TypeOK, NEW c \in Reader, NEW d \in Reader, NEW k \in {seq, seq + 1},
           ReaderOK(c, seq, k), Forwards(c, d)
    PROVE  ReaderOK(d, seq, k)
  <1>1. Shape(c) /\ Increasing(c.seen) /\ DueOK(c, seq)
    BY DEF ReaderOK
  <1>2. c.subscription = "fanout" /\ c.pc \in {"replayAgain", "live"}
    BY <1>1, ReaderFields DEF Forwards, Shape, Subscriptions
  <1>3. Shape(d)
    BY <1>1, <1>2 DEF Forwards, Stays, Shape
  <1>4. Increasing(d.seen) /\ DueOK(d, seq)
    BY <1>1 DEF Forwards, Stays, DueOK
  <1>5. ASSUME InOrder
        PROVE  PlaceOK(d, seq)
    BY <1>5 DEF ReaderOK, Forwards, Stays, PlaceOK
  <1> QED
    BY <1>3, <1>4, <1>5, ForwardKeepsOrder DEF ReaderOK

\* An event that is the next one, or has been applied, leaves a prefix.
LEMMA PlaceKept ==
    ASSUME TypeOK, NEW c \in Reader, NEW d \in Reader, NEW event \in Seqs,
           Increasing(c.seen), PlaceOK(c, seq), Takes(c, d, event),
           event <= c.afterSeq + 1, event <= seq
    PROVE  PlaceOK(d, seq)
  <1>1. CASE ~(event > c.afterSeq)
    BY <1>1 DEF Takes, PlaceOK
  <1>2. CASE event > c.afterSeq
    <2> DEFINE s == c.seen
               t == MarkSeen(s, event)
               n == Len(s)
    <2>1. /\ s \in Log /\ s \in Seq(Seqs) /\ n \in Nat /\ c.afterSeq \in Nat /\ seq \in Nat
          /\ event \in Nat /\ c.url \in Nat /\ c.lastID \in Nat
      <3>1. s \in Log /\ s \in Seq(Seqs)
        BY ReaderFields DEF Log
      <3>2. c.afterSeq \in Nat /\ seq \in Nat /\ event \in Nat /\ c.url \in Nat /\ c.lastID \in Nat
        BY ReaderFields, DeploymentType, ConstantsType
      <3> QED
        BY <3>1, <3>2
    <2>2. Prefix(s) /\ n <= seq /\ c.url <= n /\ c.lastID <= n /\ c.afterSeq <= n
      BY DEF PlaceOK
    <2>3. d.seen = t /\ d.lastID = event /\ d.afterSeq = event /\ d.url = c.url
      BY <1>2 DEF Takes
    <2>4. LastOf(s) = n
      BY <2>1, <2>2 DEF LastOf, Prefix
    <2>5. CASE event > n
      <3>1. event = n + 1
        <4> HIDE DEF n
        <4> QED
          BY <2>1, <2>2, <2>5
      <3>2. t = Append(s, event)
        BY <2>4, <2>5 DEF MarkSeen
      <3>3. /\ Len(t) = n + 1 /\ DOMAIN s = 1..n /\ DOMAIN t = 1..(n + 1) /\ t[n + 1] = event
            /\ \A j \in 1..n : t[j] = s[j]
        BY <2>1, <3>2, AppendType
      <3>4. Prefix(t)
        <4>1. \A j \in 1..n : t[j] = j
          BY <2>2, <3>3 DEF Prefix
        <4> HIDE DEF t, n
        <4> QED
          BY <2>1, <3>1, <3>3, <4>1 DEF Prefix
      <3>5. Len(t) <= seq /\ c.url <= Len(t) /\ event <= Len(t)
        <4> HIDE DEF t, n
        <4> QED
          BY <2>1, <2>2, <3>1, <3>3
      <3> HIDE DEF t
      <3> QED
        BY <2>3, <3>4, <3>5 DEF PlaceOK
    <2>6. CASE ~(event > n)
      <3>1. t = s /\ event <= n
        BY <2>1, <2>4, <2>6 DEF MarkSeen
      <3> HIDE DEF t
      <3> QED
        BY <2>2, <2>3, <3>1 DEF PlaceOK
    <2> QED
      BY <2>5, <2>6
  <1> QED
    BY <1>1, <1>2

LEMMA TakeKeepsOrder ==
    ASSUME TypeOK, NEW c \in Reader, NEW d \in Reader, NEW k \in {seq, seq + 1},
           NEW event \in Seqs, ReaderOK(c, seq, k), Takes(c, d, event), InOrder
    PROVE  PlaceOK(d, seq) /\ ForwardOK(d, seq) /\ ChannelOK(d, k)
  <1> DEFINE n == Len(c.channel)
             m == Len(c.out)
             after == c.afterSeq
             l == c.lastSeq
  <1>0. /\ seq \in Nat /\ l \in Nat /\ after \in Nat /\ event \in Nat
        /\ c.out \in Log /\ c.batch \in Log /\ c.channel \in Log
        /\ n \in Nat /\ m \in Nat /\ Len(c.batch) \in Nat
    <2>1. seq \in Nat /\ l \in Nat /\ after \in Nat /\ event \in Nat
      BY ReaderFields, DeploymentType, ConstantsType
    <2>2. c.out \in Log /\ c.batch \in Log /\ c.channel \in Log
      BY ReaderFields
    <2> QED
      BY <2>1, <2>2 DEF Log
  <1>1. /\ Shape(c) /\ Increasing(c.seen) /\ PlaceOK(c, seq) /\ ForwardOK(c, seq)
        /\ ChannelOK(c, k)
    BY DEF ReaderOK
  <1>2. /\ c.pc = "live" /\ d.pc = "live" /\ c.subscription \in {"local", "fanout"}
        /\ d.subscription = c.subscription /\ (Near(d) <=> Near(c))
        /\ d.batch = c.batch /\ d.lastSeq = c.lastSeq
        /\ d.afterSeq = IF event > after THEN event ELSE after
    BY <1>1, ReaderFields DEF Shape, Takes, Subscriptions, Near
  <1>3. /\ \A j \in DOMAIN c.out : c.out[j] = l - m + j
        /\ \A j \in DOMAIN c.batch : c.batch[j] = l + j
        /\ l + Len(c.batch) <= seq
        /\ c.subscription = "fanout" => l - m <= after
    BY <1>1, <1>2 DEF ForwardOK
  <1>4. ASSUME Near(c)
        PROVE  /\ \A j \in DOMAIN c.channel : c.channel[j] = k - n + j - 1
               /\ c.subscription = "local" => k - n <= after + 1
               /\ c.subscription = "fanout" => k - n <= l + 1 + Len(c.batch)
    BY <1>1, <1>2, <1>4 DEF ChannelOK
  <1>5. CASE c.subscription = "fanout"
    <2>1. c.out # <<>> /\ event = Head(c.out) /\ d.out = Tail(c.out) /\ d.channel = c.channel
      BY <1>5 DEF Takes
    <2>2. /\ event = c.out[1] /\ 1 \in DOMAIN c.out /\ m > 0 /\ Len(d.out) = m - 1
          /\ \A j \in DOMAIN d.out : d.out[j] = c.out[j + 1] /\ j + 1 \in DOMAIN c.out
      BY <1>0, <2>1, TailType
    <2>3. event = l - m + 1
      BY <1>3, <2>2
    <2>4. event <= after + 1 /\ event <= seq /\ l - (m - 1) <= d.afterSeq
      <3> DEFINE b == Len(c.batch)
                 e == d.afterSeq
      <3>1. l - m <= after /\ l + b <= seq /\ b \in Nat /\ e = IF event > after THEN event ELSE after
        BY <1>0, <1>2, <1>3, <1>5
      <3> HIDE DEF m, l, after, b, e
      <3>2. event <= after + 1 /\ event <= seq /\ l - (m - 1) <= e
        BY <1>0, <2>2, <2>3, <3>1
      <3> QED
        BY <3>2 DEF e
    <2>5. PlaceOK(d, seq)
      BY <1>1, <2>4, PlaceKept
    <2>6. ForwardOK(d, seq)
      <3>1. ASSUME NEW j \in DOMAIN d.out
            PROVE  d.out[j] = l - (m - 1) + j
        <4>1. d.out[j] = l - m + (j + 1) /\ j \in Nat
          BY <1>0, <1>3, <2>1, <2>2, TailType, LenProperties DEF Log
        <4> HIDE DEF l, m
        <4> QED
          BY <1>0, <4>1
      <3> QED
        BY <1>2, <1>3, <2>2, <2>4, <3>1 DEF ForwardOK
    <2>7. ChannelOK(d, k)
      BY <1>1, <1>2, <1>4, <1>5, <2>1 DEF ChannelOK
    <2> QED
      BY <2>5, <2>6, <2>7
  <1>6. CASE c.subscription = "local"
    <2>1. c.channel # <<>> /\ event = Head(c.channel) /\ d.channel = Tail(c.channel) /\ d.out = c.out
      BY <1>6 DEF Takes
    <2>2. /\ event = c.channel[1] /\ 1 \in DOMAIN c.channel /\ n > 0 /\ Len(d.channel) = n - 1
          /\ \A j \in DOMAIN d.channel : d.channel[j] = c.channel[j + 1] /\ j + 1 \in DOMAIN c.channel
      BY <1>0, <2>1, TailType
    <2>3. Near(c)
      BY <1>1, <2>1 DEF ChannelOK
    <2>4. event = k - n
      BY <1>0, <1>4, <2>2, <2>3
    <2>5. event <= after + 1 /\ event <= seq /\ k - (n - 1) <= d.afterSeq + 1
      <3> DEFINE e == d.afterSeq
      <3>1. k - n <= after + 1 /\ e = IF event > after THEN event ELSE after
        BY <1>2, <1>4, <1>6, <2>3
      <3> HIDE DEF n, after, e
      <3>2. event <= after + 1 /\ event <= seq /\ k - (n - 1) <= e + 1
        BY <1>0, <2>2, <2>4, <3>1
      <3> QED
        BY <3>2 DEF e
    <2>6. PlaceOK(d, seq)
      BY <1>1, <2>5, PlaceKept
    <2>7. ForwardOK(d, seq)
      BY <1>2, <1>3, <1>6, <2>1 DEF ForwardOK
    <2>8. ChannelOK(d, k)
      <3>1. ASSUME NEW j \in DOMAIN d.channel
            PROVE  d.channel[j] = k - (n - 1) + j - 1
        <4>1. d.channel[j] = k - n + (j + 1) - 1 /\ j \in Nat
          <5>1. j \in Nat
            BY <1>0, <2>1, TailType, LenProperties DEF Log
          <5>2. d.channel[j] = c.channel[j + 1] /\ j + 1 \in DOMAIN c.channel
            BY <2>2
          <5> HIDE DEF n
          <5> QED
            BY <1>4, <2>3, <5>1, <5>2
        <4> HIDE DEF n
        <4> QED
          BY <1>0, <4>1
      <3> QED
        BY <1>2, <1>6, <2>2, <2>3, <2>5, <3>1 DEF ChannelOK
    <2> QED
      BY <2>6, <2>7, <2>8
  <1> QED
    BY <1>2, <1>5, <1>6

LEMMA TakeKeeps ==
    ASSUME TypeOK, NEW c \in Reader, NEW d \in Reader, NEW k \in {seq, seq + 1},
           NEW event \in Seqs, ReaderOK(c, seq, k), Takes(c, d, event)
    PROVE  ReaderOK(d, seq, k)
  <1>1. Shape(c) /\ Increasing(c.seen) /\ DueOK(c, seq)
    BY DEF ReaderOK
  <1>2. Shape(d)
    BY <1>1, ReaderFields DEF Takes, Shape, Subscriptions
  <1>3. Increasing(d.seen) /\ \A n : Holds(c.seen, n) => Holds(d.seen, n)
    BY <1>1, ReaderFields, MarkSeenKeeps DEF Takes, Log
  <1>4. DueOK(d, seq)
    BY <1>1, <1>3 DEF Takes, DueOK
  <1> QED
    BY <1>2, <1>3, <1>4, TakeKeepsOrder DEF ReaderOK

-----------------------------------------------------------------------------
(* What the steps of the system keep *)

LEMMA ReaderPrimed ==
    ASSUME deployment' = deployment, NEW q, NEW k, k = Coming(q)',
           ReaderOK(reader'[q], seq', k)
    PROVE  ReaderOK(reader[q], seq, Coming(q))'
  <1>1. Shape(reader'[q]) => Shape(reader[q])'
    BY DEF Shape
  <1>2. Increasing(reader'[q].seen) => Increasing(reader[q].seen)'
    BY DEF Increasing
  <1>3. DueOK(reader'[q], seq') => DueOK(reader[q], seq)'
    BY DEF DueOK, Holds, LastOf
  <1>4. InOrder' <=> InOrder
    BY DEF InOrder
  <1>5. PlaceOK(reader'[q], seq') => PlaceOK(reader[q], seq)'
    BY DEF PlaceOK, Prefix
  <1>6. ForwardOK(reader'[q], seq') => ForwardOK(reader[q], seq)'
    BY DEF ForwardOK
  <1>7. ChannelOK(reader'[q], k) => ChannelOK(reader[q], Coming(q))'
    <2>1. Near(reader'[q]) <=> Near(reader[q])'
      BY DEF Near, Single
    <2> QED
      BY <2>1 DEF ChannelOK
  <1> QED
    BY <1>1, <1>2, <1>3, <1>4, <1>5, <1>6, <1>7 DEF ReaderOK

LEMMA ComingType ==
    ASSUME TypeOK, NEW q
    PROVE  Coming(q) \in {seq, seq + 1}
  BY DEF Coming

LEMMA TypeKept ==
    ASSUME TypeOK, deployment' = deployment, seq' \in 0..deployment.events,
           writer' \in [Writers -> Writer], reader' \in [Readers -> Reader],
           faults' \in 0..MaxFaults, disconnects' \in 0..MaxDisconnects
    PROVE  TypeOK'
  BY DEF TypeOK

\* A step of reader r that leaves the writers alone, and keeps its subscription if it
\* has one.
LEMMA ReaderStep ==
    ASSUME IInv, NEW r \in Readers, NEW d \in Reader, Becomes(r, d),
           UNCHANGED <<deployment, seq, writer, disconnects>>, faults' \in 0..MaxFaults,
           ReaderOK(d, seq, Coming(r)),
           reader[r].subscription # "none" => d.subscription # "none" /\ d.at = reader[r].at
    PROVE  IInv'
  <1>1. TypeOK /\ reader \in [Readers -> Reader]
    BY DEF IInv, TypeOK
  <1>2. reader' \in [Readers -> Reader] /\ reader'[r] = d
        /\ \A q \in Readers : q # r => reader'[q] = reader[q]
    BY <1>1 DEF Becomes
  <1>3. TypeOK'
    BY <1>1, <1>2, TypeKept DEF TypeOK
  <1>4. ASSUME NEW w \in Writers
        PROVE  WriterOK(w)'
    <2>1. WriterOK(w) /\ writer[w] \in Writer /\ writer'[w] = writer[w]
      BY DEF IInv, TypeOK
    <2>2. ASSUME NEW q \in writer[w].subscribers
          PROVE  /\ writer[w].pc = "send" /\ reader'[q].subscription # "none"
                 /\ reader'[q].at = writer[w].at
      BY <1>2, <2>1 DEF WriterOK, Writer
    <2>3. Single' <=> Single
      BY DEF Single
    <2> QED
      BY <2>1, <2>2, <2>3 DEF WriterOK
  <1>5. ASSUME NEW q \in Readers
        PROVE  ReaderOK(reader[q], seq, Coming(q))'
    <2>1. Coming(q) = Coming(q)'
      BY DEF Coming
    <2>2. ReaderOK(reader'[q], seq, Coming(q))
      BY <1>2 DEF IInv
    <2> QED
      BY <2>1, <2>2, ReaderPrimed
  <1> QED
    BY <1>3, <1>4, <1>5 DEF IInv

\* The connection of r ends.
LEMMA LeaveStep ==
    ASSUME IInv, NEW r \in Readers, NEW d \in Reader, Becomes(r, d), Leaves(r),
           UNCHANGED <<deployment, seq>>, faults' \in 0..MaxFaults,
           ReaderOK(d, seq, seq), ReaderOK(d, seq, seq + 1)
    PROVE  IInv'
  <1>1. TypeOK /\ reader \in [Readers -> Reader] /\ writer \in [Writers -> Writer]
    BY DEF IInv, TypeOK
  <1>2. reader' \in [Readers -> Reader] /\ reader'[r] = d
        /\ \A q \in Readers : q # r => reader'[q] = reader[q]
    BY <1>1 DEF Becomes
  <1>3. ASSUME NEW w \in Writers
        PROVE  /\ writer'[w] \in Writer /\ writer'[w].pc = writer[w].pc
               /\ writer'[w].at = writer[w].at /\ writer'[w].event = writer[w].event
               /\ writer'[w].subscribers = writer[w].subscribers \ {r}
    <2>1. writer[w] \in Writer
      BY <1>1
    <2> QED
      BY <2>1 DEF Leaves, Writer
  <1>4. TypeOK'
    <2>1. writer' \in [Writers -> Writer]
      BY <1>3 DEF Leaves
    <2> QED
      BY <1>1, <1>2, <2>1, TypeKept DEF TypeOK, Leaves
  <1>5. ASSUME NEW w \in Writers
        PROVE  WriterOK(w)'
    <2>1. WriterOK(w)
      BY DEF IInv
    <2>2. ASSUME NEW q \in writer'[w].subscribers
          PROVE  /\ writer[w].pc = "send" /\ reader'[q].subscription # "none"
                 /\ reader'[q].at = writer[w].at
      <3>1. q \in writer[w].subscribers /\ q # r /\ q \in Readers
        BY <1>1, <1>3 DEF Writer
      <3> QED
        BY <1>2, <2>1, <3>1 DEF WriterOK
    <2>3. Single' <=> Single
      BY DEF Single
    <2> QED
      BY <1>3, <2>1, <2>2, <2>3 DEF WriterOK
  <1>6. ASSUME NEW q \in Readers
        PROVE  ReaderOK(reader[q], seq, Coming(q))'
    <2>1. CASE q = r
      <3>1. Coming(q)' \in {seq, seq + 1}
        BY DEF Coming
      <3> QED
        BY <1>2, <2>1, <3>1, ReaderPrimed
    <2>2. CASE q # r
      <3>1. Coming(q)' = Coming(q)
        BY <1>3, <2>2 DEF Coming
      <3>2. ReaderOK(reader'[q], seq, Coming(q))
        BY <1>2, <2>2 DEF IInv
      <3> QED
        BY <3>1, <3>2, ReaderPrimed
    <2> QED
      BY <2>1, <2>2
  <1> QED
    BY <1>4, <1>5, <1>6 DEF IInv

LEMMA FaultType ==
    ASSUME TypeOK, NEW kind, Fault(kind)
    PROVE  faults' \in 0..MaxFaults
  BY ConstantsType DEF TypeOK, Fault

LEMMA ListType ==
    ASSUME TypeOK, NEW after, NEW rows, ListEvents(after, rows)
    PROVE  faults' \in 0..MaxFaults
  BY FaultType DEF ListEvents, TypeOK

LEMMA BrowserStep ==
    ASSUME IInv, NEW r \in Readers, OpenEvents(r) \/ Reconnect(r) \/ Disconnect(r)
    PROVE  IInv'
  <1> DEFINE c == reader[r]
  <1>1. TypeOK /\ c \in Reader /\ ReaderOK(c, seq, Coming(r)) /\ faults \in 0..MaxFaults
    BY DEF IInv, TypeOK
  <1>2. CASE OpenEvents(r) \/ Reconnect(r)
    <2>1. PICK d \in Reader : Becomes(r, d) /\ Connects(c, d)
      BY <1>1, <1>2, Connected
    <2>2. /\ c.pc \in {"new", "closed"}
          /\ UNCHANGED <<deployment, seq, writer, disconnects, faults>>
      BY <1>2 DEF OpenEvents, Reconnect
    <2>3. ReaderOK(d, seq, Coming(r))
      BY <1>1, <2>1, <2>2, ConnectKeeps
    <2>4. c.subscription = "none"
      BY <1>1, <2>2 DEF ReaderOK, Shape
    <2> QED
      BY <1>1, <2>1, <2>2, <2>3, <2>4, ReaderStep
  <1>3. CASE Disconnect(r)
    <2>1. Leaves(r) /\ \E d \in Reader : Becomes(r, d) /\ Closes(c, d)
      BY <1>1, <1>3, BrokenForm DEF Disconnect
    <2>2. PICK d \in Reader : Becomes(r, d) /\ Closes(c, d)
      BY <2>1
    <2>3. c.at \in deployment.readersAt /\ Increasing(c.seen) /\ (InOrder => PlaceOK(c, seq))
      BY <1>1 DEF ReaderOK, Shape
    <2>4. ReaderOK(d, seq, seq) /\ ReaderOK(d, seq, seq + 1)
      BY <1>1, <2>2, <2>3, CloseKeeps
    <2>5. UNCHANGED <<deployment, seq, faults>>
      BY <1>3 DEF Disconnect
    <2> QED
      BY <1>1, <2>1, <2>2, <2>4, <2>5, LeaveStep
  <1> QED
    BY <1>2, <1>3

LEMMA ReplayStep ==
    ASSUME IInv, NEW r \in Readers, Replay(r)
    PROVE  IInv'
  <1> DEFINE c == reader[r]
  <1>1. TypeOK /\ c \in Reader /\ ReaderOK(c, seq, Coming(r))
    BY DEF IInv, TypeOK
  <1>2. Increasing(c.seen) /\ c.at \in deployment.readersAt /\ (InOrder => PlaceOK(c, seq))
    BY <1>1 DEF ReaderOK, Shape
  <1>3. PICK rows \in 0..(seq - c.afterSeq) :
             /\ ListEvents(c.afterSeq, rows)
             /\ \/ /\ \E d \in Reader : Becomes(r, d) /\ Replays(c, d, rows)
                   /\ UNCHANGED <<writer, disconnects>>
                \/ /\ \E written \in 0..(rows - 1) : \E b, d \in Reader :
                         /\ Receives(c, b, c.afterSeq, written)
                         /\ Closes(b, d) /\ Becomes(r, d)
                   /\ Leaves(r)
    BY <1>1, <1>2, Replayed
  <1>4. faults' \in 0..MaxFaults /\ UNCHANGED <<deployment, seq>>
    BY <1>1, <1>3, ListType DEF Replay
  <1>5. CASE /\ \E d \in Reader : Becomes(r, d) /\ Replays(c, d, rows)
             /\ UNCHANGED <<writer, disconnects>>
    <2>1. PICK d \in Reader : Becomes(r, d) /\ Replays(c, d, rows)
      BY <1>5
    <2>2. c.pc \in {"replay", "replayAgain"}
      BY DEF Replay
    <2>3. ReaderOK(d, seq, Coming(r))
      BY <1>1, <1>3, <2>1, <2>2, ComingType, ReplayKeeps
    <2>4. d.subscription = c.subscription /\ d.at = c.at
      BY <2>1 DEF Replays
    <2> QED
      BY <1>4, <1>5, <2>1, <2>3, <2>4, ReaderStep
  <1>6. CASE /\ \E written \in 0..(rows - 1) : \E b, d \in Reader :
                   /\ Receives(c, b, c.afterSeq, written)
                   /\ Closes(b, d) /\ Becomes(r, d)
             /\ Leaves(r)
    <2>1. PICK written \in 0..(rows - 1) : \E b, d \in Reader :
                   /\ Receives(c, b, c.afterSeq, written)
                   /\ Closes(b, d) /\ Becomes(r, d)
      BY <1>6
    <2>2. PICK b \in Reader, d \in Reader :
                   /\ Receives(c, b, c.afterSeq, written)
                   /\ Closes(b, d) /\ Becomes(r, d)
      BY <2>1
    <2>3. written \in Nat /\ written <= seq - c.afterSeq
      BY <1>1, ReaderFields, DeploymentType
    <2>4. Increasing(b.seen) /\ (PlaceOK(c, seq) => PlaceOK(b, seq)) /\ b.at = c.at
      BY <1>1, <1>2, <2>2, <2>3, ReceiveKeeps DEF Receives
    <2>5. ReaderOK(d, seq, seq) /\ ReaderOK(d, seq, seq + 1)
      BY <1>1, <1>2, <2>2, <2>4, CloseKeeps
    <2> QED
      BY <1>4, <1>6, <2>2, <2>5, LeaveStep
  <1> QED
    BY <1>3, <1>5, <1>6

LEMMA SubscribeStep ==
    ASSUME IInv, NEW r \in Readers,
           \/ SubscribeLocal(r) \/ SubscribeNudges(r) \/ ReadLastSeq(r)
           \/ ForwarderStep(r) \/ WriteLive(r)
    PROVE  IInv'
  <1> DEFINE c == reader[r]
             k == Coming(r)
  <1>1. TypeOK /\ c \in Reader /\ ReaderOK(c, seq, k) /\ k \in {seq, seq + 1}
    BY ComingType DEF IInv, TypeOK
  <1>2. Increasing(c.seen)
    BY <1>1 DEF ReaderOK
  <1>3. UNCHANGED <<deployment, seq, writer, disconnects>>
    BY DEF SubscribeLocal, SubscribeNudges, ReadLastSeq, ForwarderStep, FanoutLocal,
           FanoutNudge, ForwardEvent, WriteLive
  <1>4. faults' \in 0..MaxFaults
    <2>1. CASE SubscribeNudges(r)
      BY <1>1, <2>1, FaultType DEF SubscribeNudges, TypeOK
    <2>2. CASE ReadLastSeq(r)
      BY <1>1, <2>2, ListType DEF ReadLastSeq
    <2>3. CASE FanoutNudge(r)
      BY <1>1, <2>3, ListType DEF FanoutNudge, TypeOK
    <2>4. CASE SubscribeLocal(r) \/ FanoutLocal(r) \/ ForwardEvent(r) \/ WriteLive(r)
      BY <1>1, <2>4 DEF SubscribeLocal, FanoutLocal, ForwardEvent, WriteLive, TypeOK
    <2> QED
      BY <2>1, <2>2, <2>3, <2>4 DEF ForwarderStep
  <1> HIDE DEF k
  <1>5. CASE SubscribeLocal(r) \/ SubscribeNudges(r) \/ ReadLastSeq(r)
    <2>1. PICK d \in Reader : Becomes(r, d) /\ Subscribes(c, d)
      BY <1>1, <1>5, Subscribed
    <2>2. ReaderOK(d, seq, k)
      BY <1>1, <2>1, SubscribeKeeps
    <2>3. c.subscription # "none" => d.subscription # "none" /\ d.at = c.at
      BY <2>1 DEF Subscribes, Stays
    <2> QED
      BY <1>3, <1>4, <2>1, <2>2, <2>3, ReaderStep DEF k
  <1>6. CASE ForwarderStep(r)
    <2>1. PICK d \in Reader : Becomes(r, d) /\ Forwards(c, d)
      BY <1>1, <1>6, Forwarded
    <2>2. ReaderOK(d, seq, k)
      BY <1>1, <2>1, ForwardKeeps
    <2>3. d.subscription = c.subscription /\ d.at = c.at
      BY <2>1 DEF Forwards, Stays
    <2> QED
      BY <1>3, <1>4, <2>1, <2>2, <2>3, ReaderStep DEF k
  <1>7. CASE WriteLive(r)
    <2>1. PICK event \in Seqs : \E d \in Reader : Becomes(r, d) /\ Takes(c, d, event)
      BY <1>1, <1>2, <1>7, Taken
    <2>2. PICK d \in Reader : Becomes(r, d) /\ Takes(c, d, event)
      BY <2>1
    <2>3. ReaderOK(d, seq, k)
      BY <1>1, <2>2, TakeKeeps
    <2>4. d.subscription = c.subscription /\ d.at = c.at
      BY <2>2 DEF Takes
    <2> QED
      BY <1>3, <1>4, <2>2, <2>3, <2>4, ReaderStep DEF k
  <1> QED
    BY <1>5, <1>6, <1>7

LEMMA OnlyOne ==
    ASSUME Single
    PROVE  /\ \A v, w \in deployment.writers : v = w
           /\ \A p, q \in deployment.writersAt : p = q
           /\ deployment.events <= deployment.bufferSize
  BY DEF Single

\* A writer takes a step: what has to hold of its record.
LEMMA WriterChanges ==
    ASSUME IInv, NEW w \in Writers, NEW v \in Writer, writer' = [writer EXCEPT ![w] = v],
           deployment' = deployment,
           \/ seq' = seq
           \/ seq' = seq + 1 /\ w \in deployment.writers,
           \A q \in Readers : /\ reader'[q].subscription = reader[q].subscription
                              /\ reader'[q].at = reader[q].at,
           v.at \in deployment.writersAt,
           v.pc # "idle" => w \in deployment.writers /\ v.event \in Seqs /\ v.event <= seq',
           \A q \in v.subscribers : /\ v.pc = "send" /\ reader[q].subscription # "none"
                                    /\ reader[q].at = v.at,
           Single /\ v.pc \in {"publish", "send"} => v.event = seq'
    PROVE  \A u \in Writers : WriterOK(u)'
  <1>1. TypeOK /\ writer \in [Writers -> Writer] /\ seq \in Nat
    BY DeploymentType DEF IInv, TypeOK
  <1>2. SUFFICES ASSUME NEW u \in Writers
                 PROVE  WriterOK(u)'
    OBVIOUS
  <1>3. (Single' <=> Single) /\ (seq' = seq \/ seq' = seq + 1)
    BY DEF Single
  <1>4. CASE u = w
    <2>1. writer'[u] = v
      BY <1>1, <1>4
    <2>2. \A q \in v.subscribers : q \in Readers
      BY DEF Writer
    <2>3. \A q \in v.subscribers : /\ v.pc = "send" /\ reader'[q].subscription # "none"
                                   /\ reader'[q].at = v.at
      BY <2>2
    <2> QED
      BY <1>3, <1>4, <2>1, <2>3 DEF WriterOK
  <1>5. CASE u # w
    <2>1. writer'[u] = writer[u] /\ writer[u] \in Writer /\ WriterOK(u)
      BY <1>1, <1>5 DEF IInv
    <2>2. /\ \A q \in writer[u].subscribers : q \in Readers
          /\ writer[u].event \in Nat
      BY <2>1, ConstantsType DEF Writer
    <2>3. /\ writer[u].at \in deployment.writersAt
          /\ writer[u].pc # "idle" =>
                u \in deployment.writers /\ writer[u].event \in Seqs /\ writer[u].event <= seq'
          /\ \A q \in writer[u].subscribers :
                /\ writer[u].pc = "send" /\ reader'[q].subscription # "none"
                /\ reader'[q].at = writer[u].at
      BY <1>1, <1>3, <2>1, <2>2 DEF WriterOK
    <2>4. ASSUME Single, writer[u].pc \in {"publish", "send"}
          PROVE  writer[u].event = seq'
      <3>1. u \in deployment.writers /\ writer[u].event = seq
        BY <2>1, <2>4 DEF WriterOK
      <3>2. w \notin deployment.writers
        BY <1>5, <2>4, <3>1, OnlyOne
      <3> QED
        BY <3>1, <3>2
    <2> QED
      BY <1>3, <2>1, <2>3, <2>4 DEF WriterOK
  <1> QED
    BY <1>4, <1>5

\* The readers that stay as they are, when what they receive next has not changed.
LEMMA ReaderLeft ==
    ASSUME IInv, deployment' = deployment, seq' \in {seq, seq + 1}, NEW q \in Readers,
           reader'[q] = reader[q],
           InOrder /\ Near(reader[q]) => Coming(q)' = Coming(q)
    PROVE  ReaderOK(reader[q], seq, Coming(q))'
  <1> DEFINE c == reader[q]
             k == Coming(q)'
  <1>1. TypeOK /\ c \in Reader /\ ReaderOK(c, seq, Coming(q)) /\ seq \in Nat /\ seq' \in Nat /\ seq <= seq'
    BY DeploymentType DEF IInv, TypeOK
  <1>2. DueOK(c, seq')
    <2>1. \A n \in c.due : n \in Nat
      BY <1>1, ReaderFields, ConstantsType DEF Dues
    <2> QED
      BY <1>1, <2>1 DEF ReaderOK, DueOK
  <1>3. ASSUME InOrder
        PROVE  PlaceOK(c, seq') /\ ForwardOK(c, seq') /\ ChannelOK(c, k)
    <2>1. PlaceOK(c, seq) /\ ForwardOK(c, seq) /\ ChannelOK(c, Coming(q))
      BY <1>1, <1>3 DEF ReaderOK
    <2>2. c.seen \in Log /\ c.batch \in Log /\ c.lastSeq \in Nat
      BY <1>1, ReaderFields
    <2>3. Len(c.seen) \in Nat /\ Len(c.batch) \in Nat
      BY <2>2 DEF Log
    <2>4. PlaceOK(c, seq')
      BY <1>1, <2>1, <2>3 DEF PlaceOK
    <2>5. ForwardOK(c, seq')
      BY <1>1, <2>1, <2>2, <2>3 DEF ForwardOK
    <2>6. ChannelOK(c, k)
      <3> HIDE DEF k
      <3>1. Near(c) => k = Coming(q)
        BY <1>3 DEF k
      <3> QED
        BY <2>1, <3>1 DEF ChannelOK
    <2> QED
      BY <2>4, <2>5, <2>6
  <1>4. ReaderOK(c, seq', k)
    BY <1>1, <1>2, <1>3 DEF ReaderOK
  <1> QED
    BY <1>4, ReaderPrimed

\* With one writer, only that writer has an event to send.
LEMMA OthersIdle ==
    ASSUME IInv, Single, NEW w \in deployment.writers, NEW u \in Writers, u # w
    PROVE  writer[u].pc = "idle"
  <1>1. WriterOK(u)
    BY DEF IInv
  <1> QED
    BY <1>1, OnlyOne DEF WriterOK

LEMMA WriterFields ==
    ASSUME NEW v \in Writer
    PROVE  /\ v.pc \in {"idle", "publish", "send", "nudge"} /\ v.at \in Replicas
           /\ v.event \in Counts /\ v.event \in Nat /\ v.subscribers \subseteq Readers
  BY ConstantsType DEF Writer

LEMMA AddEventStep ==
    ASSUME IInv, NEW w \in Writers, AddEvent(w)
    PROVE  IInv'
  <1>1. /\ TypeOK /\ writer \in [Writers -> Writer] /\ seq \in Nat /\ WriterOK(w)
        /\ deployment.events \in 0..MaxEvents /\ MaxEvents \in Nat
        /\ deployment.writersAt \subseteq Replicas
    BY DeploymentType, ConstantsType DEF IInv, TypeOK
  <1>2. /\ writer[w].pc = "idle" /\ w \in deployment.writers /\ seq < deployment.events
        /\ seq' = seq + 1 /\ UNCHANGED <<deployment, reader, faults, disconnects>>
    BY DEF AddEvent
  <1>3. PICK p \in deployment.writersAt :
           writer' = [writer EXCEPT ![w] =
              IF deployment.store = "memory"
              THEN [pc |-> "send", at |-> p, event |-> seq', subscribers |-> Subscribers(p)]
              ELSE [pc |-> "publish", at |-> p, event |-> seq', subscribers |-> {}]]
    BY DEF AddEvent
  <1> DEFINE v == IF deployment.store = "memory"
                  THEN [pc |-> "send", at |-> p, event |-> seq', subscribers |-> Subscribers(p)]
                  ELSE [pc |-> "publish", at |-> p, event |-> seq', subscribers |-> {}]
  <1>4. seq' \in Seqs /\ seq' \in 0..MaxEvents /\ seq' \in 0..deployment.events
    BY <1>1, <1>2, ConstantsType
  <1>5. /\ v \in Writer /\ v.at = p /\ v.event = seq' /\ v.pc \in {"send", "publish"}
        /\ v.pc = "send" => v.subscribers = Subscribers(p)
        /\ v.pc = "publish" => v.subscribers = {}
    BY <1>1, <1>4 DEF Writer, Subscribers
  <1>6. writer' = [writer EXCEPT ![w] = v]
    BY <1>3
  <1> HIDE DEF v
  <1>7. /\ writer' \in [Writers -> Writer] /\ writer'[w] = v
        /\ \A u \in Writers : u # w => writer'[u] = writer[u]
    BY <1>1, <1>5, <1>6
  <1>8. TypeOK'
    BY <1>1, <1>2, <1>4, <1>7, TypeKept DEF TypeOK
  <1>9. \A u \in Writers : WriterOK(u)'
    <2>1. \A q \in v.subscribers : /\ v.pc = "send" /\ reader[q].subscription # "none"
                                   /\ reader[q].at = v.at
      BY <1>5 DEF Subscribers
    <2>2. \A q \in Readers : /\ reader'[q].subscription = reader[q].subscription
                             /\ reader'[q].at = reader[q].at
      BY <1>2
    <2>3. /\ v.at \in deployment.writersAt
          /\ v.pc # "idle" => w \in deployment.writers /\ v.event \in Seqs /\ v.event <= seq'
          /\ Single /\ v.pc \in {"publish", "send"} => v.event = seq'
      BY <1>1, <1>2, <1>4, <1>5
    <2> QED
      BY <1>2, <1>5, <1>6, <2>1, <2>2, <2>3, WriterChanges
  <1>10. ASSUME NEW q \in Readers
         PROVE  ReaderOK(reader[q], seq, Coming(q))'
    <2>1. ASSUME Near(reader[q])
          PROVE  Coming(q)' = Coming(q)
      <3>1. Single /\ reader[q].subscription # "none" /\ reader[q].at = p
        BY <2>1, OnlyOne DEF Near
      <3>2. \A u \in Writers : u # w => writer[u].pc = "idle"
        BY <1>2, <3>1, OthersIdle
      <3>3. Coming(q) = seq + 1
        BY <1>2, <3>2 DEF Coming
      <3>4. v.pc = "publish" \/ (v.pc = "send" /\ q \in v.subscribers)
        BY <1>5, <3>1 DEF Subscribers
      <3>5. Coming(q)' = seq'
        BY <1>7, <3>4 DEF Coming
      <3> QED
        BY <1>2, <3>3, <3>5
    <2> QED
      BY <1>2, <2>1, ReaderLeft
  <1> QED
    BY <1>8, <1>9, <1>10 DEF IInv

\* A writer goes on without a change to the log or to any reader.
LEMMA WriterAlone ==
    ASSUME IInv, NEW w \in Writers, NEW v \in Writer, writer' = [writer EXCEPT ![w] = v],
           UNCHANGED <<deployment, seq, reader, disconnects>>, faults' \in 0..MaxFaults,
           v.at = writer[w].at, v.event = writer[w].event, writer[w].pc # "idle",
           \A q \in v.subscribers : /\ v.pc = "send" /\ reader[q].subscription # "none"
                                    /\ reader[q].at = v.at,
           v.pc \in {"publish", "send"} => writer[w].pc \in {"publish", "send"},
           \A q \in Readers : InOrder /\ Near(reader[q]) => Coming(q)' = Coming(q)
    PROVE  IInv'
  <1>1. TypeOK /\ writer \in [Writers -> Writer] /\ WriterOK(w)
    BY DEF IInv, TypeOK
  <1>2. TypeOK'
    <2>1. writer' \in [Writers -> Writer]
      BY <1>1
    <2> QED
      BY <1>1, <2>1, TypeKept DEF TypeOK
  <1>3. \A u \in Writers : WriterOK(u)'
    <2>1. /\ v.at \in deployment.writersAt
          /\ v.pc # "idle" => w \in deployment.writers /\ v.event \in Seqs /\ v.event <= seq'
          /\ Single /\ v.pc \in {"publish", "send"} => v.event = seq'
      BY <1>1 DEF WriterOK
    <2>2. \A q \in Readers : /\ reader'[q].subscription = reader[q].subscription
                             /\ reader'[q].at = reader[q].at
      OBVIOUS
    <2>3. seq' = seq
      OBVIOUS
    <2> QED
      BY <2>1, <2>2, <2>3, WriterChanges
  <1>4. \A q \in Readers : ReaderOK(reader[q], seq, Coming(q))'
    <2>1. seq' \in {seq, seq + 1} /\ \A q \in Readers : reader'[q] = reader[q]
      OBVIOUS
    <2> QED
      BY <2>1, ReaderLeft
  <1> QED
    BY <1>2, <1>3, <1>4 DEF IInv

LEMMA PublishStep ==
    ASSUME IInv, NEW w \in Writers, Publish(w) \/ CommitError(w) \/ Sent(w)
    PROVE  IInv'
  <1>1. /\ TypeOK /\ writer \in [Writers -> Writer] /\ WriterOK(w) /\ faults \in 0..MaxFaults
        /\ writer[w] \in Writer
    BY DEF IInv, TypeOK
  <1>2. \A q \in writer[w].subscribers : writer[w].pc = "send"
    BY <1>1 DEF WriterOK
  <1>3. CASE Publish(w)
    <2> DEFINE v == [writer[w] EXCEPT !.pc = "send", !.subscribers = Subscribers(writer[w].at)]
    <2>1. writer' = [writer EXCEPT ![w] = v] /\ writer[w].pc = "publish"
      BY <1>1, <1>3 DEF Publish
    <2>2. UNCHANGED <<deployment, seq, reader, faults, disconnects>>
      BY <1>3 DEF Publish
    <2>3. /\ v \in Writer /\ v.pc = "send" /\ v.at = writer[w].at /\ v.event = writer[w].event
          /\ v.subscribers = Subscribers(v.at)
      BY <1>1 DEF Writer, Subscribers
    <2> HIDE DEF v
    <2>4. ASSUME NEW q \in Readers, Near(reader[q])
          PROVE  Coming(q)' = Coming(q)
      <3>1. Single /\ reader[q].subscription # "none" /\ reader[q].at = writer[w].at
        BY <1>1, <2>4, OnlyOne DEF Near, WriterOK
      <3>2. q \in v.subscribers /\ writer'[w] = v
        BY <1>1, <2>1, <2>3, <3>1 DEF Subscribers
      <3> QED
        BY <2>1, <2>2, <2>3, <3>2 DEF Coming
    <2>5. \A q \in v.subscribers : /\ v.pc = "send" /\ reader[q].subscription # "none"
                                   /\ reader[q].at = v.at
      BY <2>3 DEF Subscribers
    <2> QED
      BY <1>1, <2>1, <2>2, <2>3, <2>4, <2>5, WriterAlone
  <1>4. CASE CommitError(w)
    <2> DEFINE v == [writer[w] EXCEPT !.pc = "idle"]
    <2>1. /\ writer' = [writer EXCEPT ![w] = v] /\ writer[w].pc = "publish"
          /\ "commit" \in deployment.failing
      BY <1>1, <1>4 DEF CommitError, Fault
    <2>2. UNCHANGED <<deployment, seq, reader, disconnects>> /\ faults' \in 0..MaxFaults
      BY <1>1, <1>4, FaultType DEF CommitError
    <2>3. /\ v \in Writer /\ v.pc = "idle" /\ v.at = writer[w].at /\ v.event = writer[w].event
          /\ v.subscribers = {}
      BY <1>1, <1>2, <2>1 DEF Writer
    <2> HIDE DEF v
    <2>4. ~Single
      BY <2>1 DEF Single
    <2> QED
      BY <1>1, <2>1, <2>2, <2>3, <2>4, WriterAlone DEF Near
  <1>5. CASE Sent(w)
    <2> DEFINE pc == IF deployment.fanout = "redis" THEN "nudge" ELSE "idle"
               v == [writer[w] EXCEPT !.pc = pc]
    <2>1. /\ writer' = [writer EXCEPT ![w] = v] /\ writer[w].pc = "send"
          /\ writer[w].subscribers = {}
      BY <1>1, <1>5 DEF Sent
    <2>2. UNCHANGED <<deployment, seq, reader, faults, disconnects>>
      BY <1>5 DEF Sent
    <2>3. /\ v \in Writer /\ v.pc \in {"idle", "nudge"} /\ v.at = writer[w].at
          /\ v.event = writer[w].event /\ v.subscribers = {}
      BY <1>1, <2>1 DEF Writer
    <2> HIDE DEF v
    <2>4. ASSUME NEW q \in Readers
          PROVE  Coming(q)' = Coming(q)
      <3>1. writer'[w] = v /\ \A u \in Writers : u # w => writer'[u] = writer[u]
        BY <1>1, <2>1
      <3>2. ASSUME NEW u \in Writers
            PROVE  (writer'[u].pc = "publish" <=> writer[u].pc = "publish")
                   /\ ((writer'[u].pc = "send" /\ q \in writer'[u].subscribers)
                       <=> (writer[u].pc = "send" /\ q \in writer[u].subscribers))
        BY <2>1, <2>3, <3>1
      <3> QED
        BY <2>2, <3>2 DEF Coming
    <2> QED
      BY <1>1, <2>1, <2>2, <2>3, <2>4, WriterAlone
  <1> QED
    BY <1>3, <1>4, <1>5

\* A subscriber is sent the event it is to receive next.
LEMMA OfferKeeps ==
    ASSUME TypeOK, NEW c \in Reader, NEW k, NEW event \in Seqs, ReaderOK(c, seq, k),
           c.subscription # "none",
           InOrder => Near(c) /\ event = seq /\ k = seq
    PROVE  LET d == [c EXCEPT !.channel = Offer(@, event)]
           IN /\ d \in Reader /\ d.subscription = c.subscription /\ d.at = c.at
              /\ ReaderOK(d, seq, seq + 1)
  <1> DEFINE channel == Offer(c.channel, event)
             d == [c EXCEPT !.channel = channel]
             n == Len(c.channel)
  <1>1. c.channel \in Log /\ n \in Nat /\ seq \in Nat
    <2>1. c.channel \in Log
      BY ReaderFields
    <2> QED
      BY <2>1, DeploymentType DEF Log
  <1>2. channel \in Log
    BY <1>1, LogTypes DEF Offer
  <1>3. d \in Reader
    <2> HIDE DEF channel
    <2> QED
      BY <1>2, ReaderForm
  <1>4. /\ d.channel = channel /\ d.pc = c.pc /\ d.at = c.at /\ d.url = c.url
        /\ d.lastID = c.lastID /\ d.seen = c.seen /\ d.afterSeq = c.afterSeq
        /\ d.subscription = c.subscription /\ d.lastSeq = c.lastSeq /\ d.batch = c.batch
        /\ d.out = c.out /\ d.due = c.due
    <2> HIDE DEF channel
    <2> QED
      BY ReaderForm
  <1> HIDE DEF d
  <1>5. Shape(d) /\ Increasing(d.seen) /\ DueOK(d, seq)
    BY <1>4 DEF ReaderOK, Shape, DueOK
  <1>6. ASSUME InOrder
        PROVE  PlaceOK(d, seq) /\ ForwardOK(d, seq) /\ ChannelOK(d, seq + 1)
    <2>1. PlaceOK(d, seq) /\ ForwardOK(d, seq)
      BY <1>4, <1>6 DEF ReaderOK, PlaceOK, ForwardOK
    <2>2. /\ Near(c) /\ event = seq
          /\ \A j \in DOMAIN c.channel : c.channel[j] = seq - n + j - 1
          /\ c.subscription = "local" /\ c.pc = "live" => seq - n <= c.afterSeq + 1
          /\ c.subscription = "fanout" /\ c.pc \in {"replayAgain", "live"} =>
                seq - n <= c.lastSeq + 1 + Len(c.batch)
      BY <1>6 DEF ReaderOK, ChannelOK
    <2>3. n < deployment.bufferSize
      <3>1. deployment.events <= deployment.bufferSize /\ seq <= deployment.events
            /\ deployment.bufferSize \in Nat \ {0} /\ deployment.events \in Nat
        BY <2>2, OnlyOne, DeploymentType, ConstantsType DEF Near
      <3>2. CASE n = 0
        BY <3>1, <3>2
      <3>3. CASE n # 0
        <4>1. 1 \in DOMAIN c.channel /\ c.channel[1] \in Seqs
          BY <1>1, <3>3 DEF Log
        <4>2. seq - n + 1 - 1 \in Seqs
          BY <2>2, <4>1
        <4> HIDE DEF n
        <4>3. n < seq
          BY <1>1, <4>2, ConstantsType
        <4> QED
          BY <1>1, <3>1, <4>3
      <3> QED
        BY <3>2, <3>3
    <2>4. channel = Append(c.channel, event)
      BY <2>3 DEF Offer
    <2>5. /\ Len(channel) = n + 1 /\ DOMAIN channel = 1..(n + 1) /\ DOMAIN c.channel = 1..n
          /\ channel[n + 1] = event /\ \A j \in 1..n : channel[j] = c.channel[j]
      BY <1>1, <2>4, AppendType
    <2>6. \A j \in DOMAIN channel : channel[j] = (seq + 1) - (n + 1) + j - 1
      <3>1. ASSUME NEW j \in 1..n
            PROVE  channel[j] = (seq + 1) - (n + 1) + j - 1
        <4>1. channel[j] = seq - n + j - 1
          BY <2>2, <2>5
        <4> HIDE DEF n, channel
        <4> QED
          BY <1>1, <4>1
      <3>2. channel[n + 1] = (seq + 1) - (n + 1) + (n + 1) - 1
        <4> HIDE DEF n, channel
        <4> QED
          BY <1>1, <2>2, <2>5
      <3>3. \A j \in 1..(n + 1) : j \in 1..n \/ j = n + 1
        <4> HIDE DEF n, channel
        <4> QED
          BY <1>1
      <3> HIDE DEF n, channel
      <3> QED
        BY <2>5, <3>1, <3>2, <3>3
    <2>7. (seq + 1) - (n + 1) = seq - n
      <3> HIDE DEF n
      <3> QED
        BY <1>1
    <2>8. Near(d)
      BY <1>4, <2>2 DEF Near
    <2> HIDE DEF n, channel
    <2>9. ChannelOK(d, seq + 1)
      BY <1>4, <2>2, <2>5, <2>6, <2>7, <2>8 DEF ChannelOK
    <2> QED
      BY <2>1, <2>9
  <1>7. ReaderOK(d, seq, seq + 1)
    BY <1>5, <1>6 DEF ReaderOK
  <1> QED
    BY <1>3, <1>4, <1>7 DEF d

LEMMA SendStep ==
    ASSUME IInv, NEW w \in Writers, Send(w)
    PROVE  IInv'
  <1>1. /\ TypeOK /\ writer \in [Writers -> Writer] /\ WriterOK(w) /\ writer[w] \in Writer
        /\ reader \in [Readers -> Reader] /\ seq \in Nat
    BY DeploymentType DEF IInv, TypeOK
  <1>2. PICK r \in writer[w].subscribers :
         /\ writer' = [writer EXCEPT ![w].subscribers = @ \ {r}]
         /\ reader' = [reader EXCEPT ![r].channel = Offer(@, writer[w].event)]
    BY DEF Send
  <1>3. writer[w].pc = "send" /\ UNCHANGED <<deployment, seq, faults, disconnects>>
    BY DEF Send
  <1> DEFINE c == reader[r]
             event == writer[w].event
             d == [c EXCEPT !.channel = Offer(@, event)]
             v == [writer[w] EXCEPT !.subscribers = @ \ {r}]
  <1>4. r \in Readers /\ c \in Reader /\ ReaderOK(c, seq, Coming(r))
    BY <1>1 DEF IInv, Writer
  <1>5. writer' = [writer EXCEPT ![w] = v] /\ reader' = [reader EXCEPT ![r] = d]
    BY <1>1, <1>2, <1>4
  <1>6. /\ event \in Seqs /\ c.subscription # "none" /\ c.at = writer[w].at
        /\ c.at \in deployment.writersAt /\ c.at \in deployment.readersAt
        /\ w \in deployment.writers /\ (Single => event = seq)
    BY <1>1, <1>3, <1>4 DEF WriterOK, ReaderOK, Shape
  <1>7. InOrder => Single /\ Near(c)
    BY <1>6 DEF InOrder, Single, Near
  <1>8. Coming(r) = seq
    BY <1>3 DEF Coming
  <1>9. /\ v \in Writer /\ v.pc = "send" /\ v.at = writer[w].at /\ v.event = event
        /\ v.subscribers = writer[w].subscribers \ {r}
    BY <1>1, <1>3 DEF Writer
  <1>10. /\ d \in Reader /\ d.subscription = c.subscription /\ d.at = c.at
         /\ ReaderOK(d, seq, seq + 1)
    <2>1. ReaderOK(c, seq, seq)
      BY <1>4, <1>8
    <2>2. InOrder => Near(c) /\ event = seq /\ seq = seq
      BY <1>6, <1>7
    <2> HIDE DEF c, event
    <2> QED
      BY <1>1, <1>4, <1>6, <2>1, <2>2, OfferKeeps
  <1> HIDE DEF d, v, event
  <1>11. /\ reader'[r] = d /\ \A q \in Readers : q # r => reader'[q] = reader[q]
         /\ reader' \in [Readers -> Reader]
         /\ writer'[w] = v /\ \A u \in Writers : u # w => writer'[u] = writer[u]
         /\ writer' \in [Writers -> Writer]
    BY <1>1, <1>4, <1>5, <1>9, <1>10
  <1>12. TypeOK'
    BY <1>1, <1>3, <1>11, TypeKept DEF TypeOK
  <1>13. \A u \in Writers : WriterOK(u)'
    <2>1. /\ v.at \in deployment.writersAt
          /\ v.pc # "idle" => w \in deployment.writers /\ v.event \in Seqs /\ v.event <= seq'
          /\ Single /\ v.pc \in {"publish", "send"} => v.event = seq'
      BY <1>1, <1>3, <1>9 DEF WriterOK, event
    <2>2. \A q \in Readers : /\ reader'[q].subscription = reader[q].subscription
                             /\ reader'[q].at = reader[q].at
      BY <1>10, <1>11
    <2>3. \A q \in v.subscribers : /\ v.pc = "send" /\ reader[q].subscription # "none"
                                   /\ reader[q].at = v.at
      BY <1>1, <1>9 DEF WriterOK
    <2> QED
      BY <1>3, <1>5, <1>9, <2>1, <2>2, <2>3, WriterChanges
  <1>14. ASSUME NEW q \in Readers
         PROVE  ReaderOK(reader[q], seq, Coming(q))'
    <2>1. CASE q # r
      <3>1. ASSUME NEW u \in Writers
            PROVE  (writer'[u].pc = "publish" <=> writer[u].pc = "publish")
                   /\ ((writer'[u].pc = "send" /\ q \in writer'[u].subscribers)
                       <=> (writer[u].pc = "send" /\ q \in writer[u].subscribers))
        BY <1>3, <1>9, <1>11, <2>1
      <3>2. Coming(q)' = Coming(q)
        BY <1>3, <3>1 DEF Coming
      <3> QED
        BY <1>3, <1>11, <2>1, <3>2, ReaderLeft
    <2>2. CASE q = r
      <3>1. ASSUME InOrder
            PROVE  Coming(q)' = seq + 1
        <4>1. \A u \in Writers : u # w => writer'[u].pc = "idle"
          BY <1>6, <1>7, <1>11, <3>1, OthersIdle
        <4>2. writer'[w].pc = "send" /\ q \notin writer'[w].subscribers
          BY <1>9, <1>11, <2>2
        <4> QED
          BY <1>3, <4>1, <4>2 DEF Coming
      <3>2. ReaderOK(d, seq, Coming(q)')
        <4> DEFINE k == Coming(q)'
        <4> HIDE DEF k
        <4>1. InOrder => k = seq + 1
          BY <3>1 DEF k
        <4>2. ReaderOK(d, seq, k)
          BY <1>10, <4>1 DEF ReaderOK
        <4> QED
          BY <4>2 DEF k
      <3> QED
        BY <1>3, <1>11, <2>2, <3>2, ReaderPrimed
    <2> QED
      BY <2>1, <2>2
  <1> QED
    BY <1>12, <1>13, <1>14 DEF IInv

LEMMA NudgeStep ==
    ASSUME IInv, NEW w \in Writers, Nudge(w)
    PROVE  IInv'
  <1>1. /\ TypeOK /\ writer \in [Writers -> Writer] /\ WriterOK(w) /\ writer[w] \in Writer
        /\ reader \in [Readers -> Reader] /\ faults \in 0..MaxFaults
    BY DEF IInv, TypeOK
  <1>2. /\ writer[w].pc = "nudge" /\ writer' = [writer EXCEPT ![w].pc = "idle"]
        /\ UNCHANGED <<deployment, seq, disconnects>>
    BY DEF Nudge
  <1>3. writer[w].event \in Seqs /\ \A q \in writer[w].subscribers : FALSE
    BY <1>1, <1>2 DEF WriterOK
  <1>4. faults' \in 0..MaxFaults
    BY <1>1, FaultType DEF Nudge
  <1> DEFINE v == [writer[w] EXCEPT !.pc = "idle"]
  <1>5. writer' = [writer EXCEPT ![w] = v]
    BY <1>1, <1>2
  <1>6. /\ v \in Writer /\ v.pc = "idle" /\ v.at = writer[w].at /\ v.event = writer[w].event
        /\ v.subscribers = writer[w].subscribers
    BY <1>1 DEF Writer
  <1> HIDE DEF v
  <1>7. writer'[w] = v /\ \A u \in Writers : u # w => writer'[u] = writer[u]
    BY <1>1, <1>5
  <1>8. /\ reader' \in [Readers -> Reader]
        /\ \A q \in Readers :
             \A s, k : ReaderOK(reader[q], s, k) => ReaderOK(reader'[q], s, k)
        /\ \A q \in Readers : /\ reader'[q].subscription = reader[q].subscription
                              /\ reader'[q].at = reader[q].at
    <2>1. CASE UNCHANGED reader
      BY <1>1, <2>1
    <2>2. CASE reader' = [r \in Readers |->
                IF reader[r].subscription = "fanout"
                THEN [reader[r] EXCEPT !.nudges = Append(@, writer[w].event)]
                ELSE reader[r]]
      <3>1. ASSUME NEW q \in Readers
            PROVE  /\ reader'[q] \in Reader
                   /\ \A s, k : ReaderOK(reader[q], s, k) => ReaderOK(reader'[q], s, k)
                   /\ reader'[q].subscription = reader[q].subscription
                   /\ reader'[q].at = reader[q].at
        <4> DEFINE c == reader[q]
                   nudges == Append(c.nudges, writer[w].event)
                   d == [c EXCEPT !.nudges = nudges]
        <4>1. c \in Reader /\ (reader'[q] = c \/ reader'[q] = d)
          BY <1>1, <2>2
        <4>2. nudges \in Log
          BY <1>3, <4>1, ReaderFields, LogTypes
        <4> HIDE DEF c, nudges
        <4>3. /\ d \in Reader
              /\ d.channel = c.channel /\ d.pc = c.pc /\ d.at = c.at /\ d.url = c.url
              /\ d.lastID = c.lastID /\ d.seen = c.seen /\ d.afterSeq = c.afterSeq
              /\ d.subscription = c.subscription /\ d.lastSeq = c.lastSeq /\ d.batch = c.batch
              /\ d.out = c.out /\ d.due = c.due
          BY <4>1, <4>2, ReaderForm
        <4> HIDE DEF d
        <4>4. ASSUME NEW s, NEW k, ReaderOK(c, s, k)
              PROVE  ReaderOK(d, s, k)
          <5>1. Shape(d) /\ Increasing(d.seen) /\ DueOK(d, s)
            BY <4>3, <4>4 DEF ReaderOK, Shape, DueOK
          <5>2. InOrder => PlaceOK(d, s) /\ ForwardOK(d, s)
            BY <4>3, <4>4 DEF ReaderOK, PlaceOK, ForwardOK
          <5>3. InOrder => ChannelOK(d, k)
            BY <4>3, <4>4 DEF ReaderOK, ChannelOK, Near
          <5> QED
            BY <5>1, <5>2, <5>3 DEF ReaderOK
        <4> QED
          BY <4>1, <4>3, <4>4 DEF c
      <3>2. reader' = [q \in Readers |-> reader'[q]]
        BY <2>2
      <3> QED
        BY <3>1, <3>2
    <2> QED
      BY <2>1, <2>2 DEF Nudge
  <1>9. TypeOK'
    <2>1. writer' \in [Writers -> Writer]
      BY <1>1, <1>5, <1>6
    <2> QED
      BY <1>1, <1>2, <1>4, <1>8, <2>1, TypeKept DEF TypeOK
  <1>10. \A u \in Writers : WriterOK(u)'
    <2>1. /\ v.at \in deployment.writersAt
          /\ v.pc # "idle" => w \in deployment.writers /\ v.event \in Seqs /\ v.event <= seq'
          /\ Single /\ v.pc \in {"publish", "send"} => v.event = seq'
      BY <1>1, <1>6 DEF WriterOK
    <2>2. \A q \in v.subscribers : /\ v.pc = "send" /\ reader[q].subscription # "none"
                                   /\ reader[q].at = v.at
      BY <1>3, <1>6
    <2>3. \A q \in Readers : /\ reader'[q].subscription = reader[q].subscription
                             /\ reader'[q].at = reader[q].at
      BY <1>8
    <2> QED
      BY <1>2, <1>5, <1>6, <2>1, <2>2, <2>3, WriterChanges
  <1>11. ASSUME NEW q \in Readers
         PROVE  ReaderOK(reader[q], seq, Coming(q))'
    <2>1. ASSUME NEW u \in Writers
          PROVE  (writer'[u].pc = "publish" <=> writer[u].pc = "publish")
                 /\ ((writer'[u].pc = "send" /\ q \in writer'[u].subscribers)
                     <=> (writer[u].pc = "send" /\ q \in writer[u].subscribers))
      BY <1>2, <1>6, <1>7
    <2>2. Coming(q)' = Coming(q)
      BY <1>2, <2>1 DEF Coming
    <2>3. ReaderOK(reader'[q], seq, Coming(q))
      BY <1>8 DEF IInv
    <2> QED
      BY <1>2, <2>2, <2>3, ReaderPrimed
  <1> QED
    BY <1>9, <1>10, <1>11 DEF IInv

-----------------------------------------------------------------------------
(* Theorems *)

LEMMA InitIInv == Init => IInv
  <1> SUFFICES ASSUME Init
               PROVE  IInv
    OBVIOUS
  <1>1. /\ deployment \in Deployments /\ deployment \in Deployment
        /\ deployment.writersAt \subseteq Replicas /\ deployment.readersAt \subseteq Replicas
        /\ deployment.events \in Nat /\ seq = 0 /\ seq \in 0..deployment.events
    BY DeploymentsAssumption DEF Init, Deployment
  <1> DEFINE none == <<>>
  <1>2. none \in Log /\ 0 \in Counts /\ {} \in Dues /\ "new" \in ReaderPCs /\ "none" \in Subscriptions
    BY ConstantsType, LogTypes DEF ReaderPCs, Subscriptions, Dues
  <1>3. ASSUME NEW r \in Readers
        PROVE  /\ reader[r] \in Reader
               /\ reader[r].pc = "new" /\ reader[r].at \in deployment.readersAt
               /\ reader[r].url = 0 /\ reader[r].lastID = 0 /\ reader[r].seen = none
               /\ reader[r].afterSeq = 0 /\ reader[r].subscription = "none"
               /\ reader[r].channel = none /\ reader[r].lastSeq = 0
               /\ reader[r].batch = none /\ reader[r].out = none
    <2>1. reader \in [Readers -> [pc : {"new"}, at : deployment.readersAt, url : {0},
                               lastID : {0}, seen : {none}, afterSeq : {0},
                               subscription : {"none"}, channel : {none},
                               nudges : {none}, lastSeq : {0}, batch : {none},
                               out : {none}, due : {{}}]]
      BY DEF Init
    <2> HIDE DEF none
    <2>2. reader[r] \in [pc : {"new"}, at : deployment.readersAt, url : {0},
                               lastID : {0}, seen : {none}, afterSeq : {0},
                               subscription : {"none"}, channel : {none},
                               nudges : {none}, lastSeq : {0}, batch : {none},
                               out : {none}, due : {{}}]
      BY <2>1
    <2> QED
      BY <1>1, <1>2, <2>2, ReaderForm
  <1>4. ASSUME NEW w \in Writers
        PROVE  /\ writer[w] \in Writer /\ writer[w].pc = "idle"
               /\ writer[w].at \in deployment.writersAt /\ writer[w].subscribers = {}
    BY <1>1, ConstantsType DEF Init, Writer
  <1>5. TypeOK
    <2>1. reader \in [Readers -> Reader]
      BY <1>3 DEF Init
    <2>2. writer \in [Writers -> Writer]
      BY <1>4 DEF Init
    <2> QED
      BY <1>1, <2>1, <2>2, ConstantsType DEF Init, TypeOK
  <1>6. \A w \in Writers : WriterOK(w)
    BY <1>4 DEF WriterOK
  <1>7. ASSUME NEW r \in Readers
        PROVE  ReaderOK(reader[r], seq, Coming(r))
    <2> DEFINE c == reader[r]
    <2>1. Shape(c) /\ DueOK(c, seq)
      BY <1>3 DEF Shape, DueOK
    <2>2. Increasing(c.seen) /\ Prefix(c.seen) /\ Len(c.seen) = 0
      BY <1>3, Empty DEF Increasing, Prefix
    <2>3. PlaceOK(c, seq) /\ ForwardOK(c, seq) /\ ChannelOK(c, Coming(r))
      BY <1>1, <1>3, <2>2, Empty DEF PlaceOK, ForwardOK, ChannelOK, Near
    <2> QED
      BY <2>1, <2>2, <2>3 DEF ReaderOK
  <1> QED
    BY <1>5, <1>6, <1>7 DEF IInv

LEMMA StutterIInv ==
    ASSUME IInv, UNCHANGED vars
    PROVE  IInv'
  <1>1. TypeOK'
    BY DEF IInv, TypeOK, vars
  <1>2. ASSUME NEW w \in Writers
        PROVE  WriterOK(w)'
    <2>1. WriterOK(w) /\ (Single' <=> Single)
      BY DEF IInv, Single, vars
    <2> QED
      BY <2>1 DEF WriterOK, vars
  <1>3. ASSUME NEW q \in Readers
        PROVE  ReaderOK(reader[q], seq, Coming(q))'
    <2>1. Coming(q)' = Coming(q) /\ deployment' = deployment /\ seq' = seq /\ reader' = reader
      BY DEF Coming, vars
    <2>2. ReaderOK(reader'[q], seq', Coming(q))
      BY <2>1 DEF IInv
    <2> QED
      BY <2>1, <2>2, ReaderPrimed
  <1> QED
    BY <1>1, <1>2, <1>3 DEF IInv

LEMMA NextIInv == IInv /\ [Next]_vars => IInv'
  <1>1. ASSUME IInv, NEW w \in Writers, AddEvent(w) \/ WriterStep(w) \/ CommitError(w)
        PROVE  IInv'
    BY <1>1, AddEventStep, PublishStep, SendStep, NudgeStep DEF WriterStep
  <1>2. ASSUME IInv, NEW r \in Readers,
               \/ OpenEvents(r) \/ Reconnect(r) \/ Disconnect(r)
               \/ HandlerStep(r) \/ ForwarderStep(r)
        PROVE  IInv'
    BY <1>2, BrowserStep, ReplayStep, SubscribeStep DEF HandlerStep
  <1> QED
    BY <1>1, <1>2, StutterIInv DEF Next

LEMMA AlwaysIInv == Spec => []IInv
  BY InitIInv, NextIInv, PTL DEF Spec

\* Every record of a reader and a writer has its type: the cursors of the browser and of
\* the handler never pass the log, and no step makes up an event (runEvents,
\* FanoutRepository.Subscribe, AddEvent of the stores).
THEOREM StreamTypeCorrect == Spec => []TypeOK
  <1>1. IInv => TypeOK
    BY DEF IInv
  <1> QED
    BY <1>1, AlwaysIInv, PTL

\* Whatever fails and however events overtake each other, the browser applies none twice
\* and none out of order (markRunEventSeen, runEvents).
THEOREM EventsAppliedOnce == Spec => []AppliedOnce
  <1>1. IInv => AppliedOnce
    BY DEF IInv, ReaderOK, Increasing, AppliedOnce
  <1> QED
    BY <1>1, AlwaysIInv, PTL

\* A handler that has gone live has written every event the browser missed before it
\* connected, if ListEvents does not come back short (runEvents, writeReplayEvents).
THEOREM MissedEventsWritten == Spec => []MissedEventsReplayed
  <1>1. IInv => MissedEventsReplayed
    BY DEF IInv, ReaderOK, DueOK, Holds, MissedEventsReplayed
  <1> QED
    BY <1>1, AlwaysIInv, PTL

\* Where live events cannot overtake one another, what a browser has applied is always a
\* prefix of the log, through nudges, full channels and reconnections
\* (FanoutRepository.Subscribe, runEvents, AddEvent of the stores).
THEOREM NoEventIsSkipped == Spec => []NoEventSkipped
  <1>1. IInv => NoEventSkipped
    BY DEF IInv, ReaderOK, PlaceOK, Prefix, NoEventSkipped
  <1> QED
    BY <1>1, AlwaysIInv, PTL
=============================================================================
