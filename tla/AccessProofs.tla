---------------------------- MODULE AccessProofs ----------------------------
(***************************************************************************)
(* Theorems about Access for every set of users, subjects and invitations, *)
(* every policy and every number of concurrent requests, in both stores.   *)
(***************************************************************************)
EXTENDS Access, TLAPS

\* The actor holds, or has held since the request came in, every role that its
\* memberships give it now.
HeldCurrent ==
    \A r \in Requests : request[r].pc # "idle" => RolesOf(request[r].user) \subseteq held[r]

\* What a request that is about to write has passed: a check of a role, and of the
\* membership it is about.
Passed(t, roles) ==
    t.pc \in {"write", "delete"} =>
        /\ t.op \in Ops
        /\ t.pc = "delete" => t.op = "remove"
        /\ ~OwnMembership(t)
        /\ \E role \in roles : Authorize(role, t.op)

Entitled == \A r \in Requests : Passed(request[r], held[r])

OneSubjectEach ==
    \A s, t \in Subjects : identity[s] = identity[t] /\ s # t => identity[s] = Nobody

IInv == TypeOK /\ HeldCurrent /\ Entitled /\ OneSubjectEach

\* The request goes on, with what it has to have passed, or is answered.
Moved(r) == \E t \in Request :
    /\ request' = [request EXCEPT ![r] = t]
    /\ t.pc # "idle" => t.user = request[r].user
    /\ Passed(t, held'[r])

HeldGrows == \A q \in Requests : held[q] \subseteq held'[q]

-----------------------------------------------------------------------------
\* An answered slot is a request of no consequence.
LEMMA NoRequestType == NoRequest \in Request /\ \A roles : Passed(NoRequest, roles)
  <1>1. /\ (CHOOSE u \in Users : TRUE) \in Users
        /\ (CHOOSE s \in Subjects : TRUE) \in Subjects
        /\ (CHOOSE i \in Invitations : TRUE) \in Invitations
    BY AccessAssumption
  <1> QED
    BY <1>1 DEF NoRequest, Request, Scopes, Ops, Roles, Passed

\* An answer, a step to a phase before the write, and the decision of a handler on a
\* role that is held are ways to go on.
LEMMA AnswerMoves ==
    ASSUME NEW r \in Requests, Answer(r)
    PROVE  Moved(r)
  <1>1. NoRequest.pc = "idle"
    BY DEF NoRequest
  <1> QED
    BY <1>1, NoRequestType DEF Answer, Moved

LEMMA GotoMoves ==
    ASSUME TypeOK, NEW r \in Requests,
           NEW pc \in {"bind", "bindUser", "bindInsert", "pathRoles", "projectRoles", "belongs",
                       "organizationRoles", "accept"},
           Goto(r, pc)
    PROVE  Moved(r)
  <1> DEFINE t == [request[r] EXCEPT !.pc = pc]
  <1>1. t \in Request /\ t.user = request[r].user /\ t.pc = pc
    BY DEF TypeOK, Request
  <1>2. Passed(t, held'[r])
    BY <1>1 DEF Passed
  <1>3. request' = [request EXCEPT ![r] = t]
    BY DEF Goto
  <1> QED
    BY <1>1, <1>2, <1>3 DEF Moved

LEMMA HandleMoves ==
    ASSUME TypeOK, NEW r \in Requests, NEW role \in held'[r], Handle(r, role)
    PROVE  Moved(r)
  <1> DEFINE req == request[r]
             t == [req EXCEPT !.pc = "write"]
  <1>1. CASE req.op = "accept"
    BY <1>1, GotoMoves DEF Handle
  <1>2. CASE req.op # "accept" /\ Authorize(role, req.op) /\ ~OwnMembership(req)
    <2>1. Goto(r, "write")
      BY <1>2 DEF Handle
    <2>2. t \in Request /\ t.user = req.user /\ t.op = req.op /\ t.target = req.target
             /\ t.pc = "write"
      BY DEF TypeOK, Request
    <2>3. req.op \in Ops
      BY <1>2 DEF TypeOK, Request
    <2>4. Passed(t, held'[r])
      BY <1>2, <2>2, <2>3 DEF Passed, OwnMembership
    <2> QED
      BY <2>1, <2>2, <2>4 DEF Moved, Goto
  <1>3. CASE req.op # "accept" /\ ~(Authorize(role, req.op) /\ ~OwnMembership(req))
    <2>1. Answer(r)
      BY <1>3 DEF Handle
    <2> QED
      BY <2>1, AnswerMoves
  <1> QED
    BY <1>1, <1>2, <1>3

LEMMA HandleWithoutRoleMoves ==
    ASSUME TypeOK, NEW r \in Requests, HandleWithoutRole(r)
    PROVE  Moved(r)
  BY GotoMoves, AnswerMoves DEF HandleWithoutRole

\* A role that was found is one that the actor holds.
LEMMA FoundIsHeld ==
    ASSUME IInv, NEW r \in Requests, request[r].pc # "idle", NEW scope \in Scopes,
           NEW role \in Roles, Found(scope, request[r].user, role)
    PROVE  role \in held[r]
  <1>1. role # "none"
    BY DEF Roles
  <1>2. role = member[scope][request[r].user]
    BY <1>1 DEF Found
  <1> QED
    BY <1>1, <1>2 DEF IInv, HeldCurrent, RolesOf

LEMMA FoundFaults ==
    ASSUME TypeOK, NEW scope, NEW u, NEW role, Found(scope, u, role)
    PROVE  faults' \in 0..MaxFaults
  BY AccessAssumption DEF Found, Fault, TypeOK

-----------------------------------------------------------------------------
\* A step of one request under way keeps the invariant when what it does to the
\* members, to the roles held and to the identities keeps it.
LEMMA StepKeeps ==
    ASSUME IInv, NEW r \in Requests, request[r].pc # "idle", Moved(r), HeldGrows,
           store' = store, calls' = calls, faults' \in 0..MaxFaults,
           member' \in [Scopes -> [Users -> Roles \cup {"none"}]],
           held' \in [Requests -> SUBSET Roles],
           invitation' \in [Invitations -> {"none", "pending", "accepted", "expired"}],
           identity' \in [Subjects -> Users \cup {Nobody}], OneSubjectEach',
           \A q \in Requests, u \in Users :
               request'[q].pc # "idle" /\ request[q].pc # "idle" /\ request[q].user = u
                 => RolesOf(u)' \subseteq held'[q]
    PROVE  IInv'
  <1> PICK t \in Request : /\ request' = [request EXCEPT ![r] = t]
                           /\ t.pc # "idle" => t.user = request[r].user
                           /\ Passed(t, held'[r])
    BY DEF Moved
  <1>1. /\ request' \in [Requests -> Request]
        /\ \A q \in Requests : request'[q] = IF q = r THEN t ELSE request[q]
    BY DEF IInv, TypeOK
  <1>2. TypeOK'
    BY <1>1 DEF IInv, TypeOK
  <1>3. \A q \in Requests : request'[q].pc # "idle" =>
            request[q].pc # "idle" /\ request'[q].user = request[q].user
    BY <1>1
  <1>4. \A q \in Requests : request[q].user \in Users
    BY DEF IInv, TypeOK, Request
  <1>5. HeldCurrent'
    <2> SUFFICES ASSUME NEW q \in Requests, request'[q].pc # "idle"
                 PROVE  RolesOf(request[q].user)' \subseteq held'[q]
      BY DEF HeldCurrent
    <2>1. request'[q].user = request[q].user /\ request[q].user \in Users /\ request[q].pc # "idle"
      BY <1>3, <1>4
    <2> QED
      BY <2>1 DEF RolesOf
  <1>6. Entitled'
    <2> SUFFICES ASSUME NEW q \in Requests
                 PROVE  Passed(request'[q], held'[q])
      BY DEF Entitled, Passed, OwnMembership, Authorize
    <2>1. CASE q = r
      BY <2>1, <1>1
    <2>2. CASE q # r
      <3>1. Passed(request[q], held[q]) /\ held[q] \subseteq held'[q]
        BY DEF IInv, Entitled, HeldGrows
      <3> QED
        BY <2>2, <3>1, <1>1 DEF Passed
    <2> QED
      BY <2>1, <2>2
  <1> QED
    BY <1>2, <1>5, <1>6 DEF IInv

\* The same when members, roles and identities stay as they are.
LEMMA QuietStepKeeps ==
    ASSUME IInv, NEW r \in Requests, request[r].pc # "idle", Moved(r),
           UNCHANGED <<store, member, identity, held, calls>>, faults' \in 0..MaxFaults,
           invitation' \in [Invitations -> {"none", "pending", "accepted", "expired"}]
    PROVE  IInv'
  <1>1. HeldGrows
    BY DEF HeldGrows
  <1>2. OneSubjectEach'
    BY DEF IInv, OneSubjectEach
  <1>3. \A q \in Requests, u \in Users :
            request'[q].pc # "idle" /\ request[q].pc # "idle" /\ request[q].user = u
                 => RolesOf(u)' \subseteq held'[q]
    BY DEF IInv, HeldCurrent, RolesOf
  <1> QED
    BY <1>1, <1>2, <1>3, StepKeeps DEF IInv, TypeOK

\* A user whose role is set holds it from then on.
LEMMA SetMemberKeeps ==
    ASSUME IInv, NEW r \in Requests, request[r].pc # "idle", Moved(r),
           NEW scope \in Scopes, NEW v \in Users, NEW role \in Roles \cup {"none"},
           SetMember(scope, v, role),
           UNCHANGED <<store, identity, calls>>, faults' \in 0..MaxFaults,
           invitation' \in [Invitations -> {"none", "pending", "accepted", "expired"}]
    PROVE  IInv'
  <1>1. /\ member' \in [Scopes -> [Users -> Roles \cup {"none"}]]
        /\ \A s \in Scopes, u \in Users :
              member'[s][u] = IF s = scope /\ u = v THEN role ELSE member[s][u]
    BY DEF IInv, TypeOK, SetMember
  <1>2. \A q \in Requests : held'[q] = IF ~At(q, "idle") /\ request[q].user = v /\ role # "none"
                                       THEN held[q] \cup {role} ELSE held[q]
    BY DEF SetMember
  <1>3. HeldGrows
    BY <1>2 DEF HeldGrows
  <1>4. held' \in [Requests -> SUBSET Roles]
    BY <1>2 DEF IInv, TypeOK, SetMember
  <1>5. ASSUME NEW q \in Requests, NEW u \in Users, request[q].pc # "idle", request[q].user = u
        PROVE  RolesOf(u)' \subseteq held'[q]
    <2> SUFFICES ASSUME NEW s \in Scopes, member'[s][u] # "none"
                 PROVE  member'[s][u] \in held'[q]
      BY DEF RolesOf
    <2>1. CASE s = scope /\ u = v
      BY <2>1, <1>1, <1>2, <1>5 DEF At
    <2>2. CASE ~(s = scope /\ u = v)
      <3>1. member'[s][u] = member[s][u]
        BY <2>2, <1>1
      <3>2. member[s][u] \in held[q]
        BY <3>1, <1>5 DEF IInv, HeldCurrent, RolesOf
      <3> QED
        BY <3>1, <3>2, <1>3 DEF HeldGrows
    <2> QED
      BY <2>1, <2>2
  <1>6. OneSubjectEach'
    BY DEF IInv, OneSubjectEach
  <1>7. identity' \in [Subjects -> Users \cup {Nobody}]
    BY DEF IInv, TypeOK
  <1> QED
    BY <1>1, <1>3, <1>4, <1>5, <1>6, <1>7, StepKeeps

\* A subject without a user is bound to a user without a subject.
LEMMA BindKeeps ==
    ASSUME IInv, NEW r \in Requests, request[r].pc # "idle", Moved(r), BindIdentity(r),
           identity[request[r].subject] = Nobody, request[r].user \notin BoundUsers,
           UNCHANGED <<store, member, invitation, calls, faults, held>>
    PROVE  IInv'
  <1>1. request[r].subject \in Subjects /\ request[r].user \in Users
    BY DEF IInv, TypeOK, Request
  <1>2. /\ identity' \in [Subjects -> Users \cup {Nobody}]
        /\ \A s \in Subjects : identity'[s] = IF s = request[r].subject THEN request[r].user
                                                                        ELSE identity[s]
    BY <1>1 DEF IInv, TypeOK, BindIdentity
  <1>3. \A s \in Subjects : identity[s] # request[r].user
    BY DEF BoundUsers
  <1>4. OneSubjectEach'
    BY <1>2, <1>3 DEF IInv, OneSubjectEach
  <1>5. HeldGrows
    BY DEF HeldGrows
  <1>6. \A q \in Requests, u \in Users :
            request'[q].pc # "idle" /\ request[q].pc # "idle" /\ request[q].user = u
                 => RolesOf(u)' \subseteq held'[q]
    BY DEF IInv, HeldCurrent, RolesOf
  <1> QED
    BY <1>2, <1>4, <1>5, <1>6, StepKeeps DEF IInv, TypeOK

-----------------------------------------------------------------------------
\* The invariant holds at first.
LEMMA InitKeeps == Init => IInv
  <1> SUFFICES ASSUME Init PROVE IInv
    OBVIOUS
  <1>1. request \in [Requests -> Request] /\ \A r \in Requests : request[r] = NoRequest
    BY NoRequestType DEF Init
  <1>2. NoRequest.pc = "idle"
    BY DEF NoRequest
  <1>3. TypeOK
    BY <1>1, AccessAssumption DEF Init, TypeOK
  <1>4. HeldCurrent
    BY <1>1, <1>2 DEF HeldCurrent
  <1>5. Entitled
    BY <1>1, NoRequestType DEF Entitled
  <1>6. OneSubjectEach
    BY DEF Init, OneSubjectEach
  <1> QED
    BY <1>3, <1>4, <1>5, <1>6 DEF IInv

\* A request that comes in has the user's roles, and has passed nothing yet.
LEMMA RequestsOfType ==
    ASSUME NEW u \in Users, NEW req \in RequestsOf(u)
    PROVE  req \in Request /\ req.user = u
  <1>1. NoRequest \in Request
    BY NoRequestType
  <1>2. \A op \in Ops \cup {"accept"}, scope \in Scopes, t \in Users, role \in Roles, i \in Invitations :
            /\ Asked(u, op, scope, t, role, i) \in Request
            /\ Asked(u, op, scope, t, role, i).user = u
    BY <1>1 DEF Asked, Request
  <1>3. /\ {"upsert", "remove", "invite", "accept"} \subseteq Ops \cup {"accept"}
        /\ "organization" \in Scopes /\ GivenRoles \subseteq Roles
    BY AccessAssumption DEF Ops, Scopes
  <1>4. /\ NoRequest.scope \in Scopes /\ NoRequest.target \in Users
        /\ NoRequest.role \in Roles /\ NoRequest.inv \in Invitations
    BY <1>1 DEF Request
  <1>5. \/ \E scope \in Scopes, t \in Users, role \in GivenRoles :
             req = Asked(u, "upsert", scope, t, role, NoRequest.inv)
        \/ \E scope \in Scopes, t \in Users :
             req = Asked(u, "remove", scope, t, NoRequest.role, NoRequest.inv)
        \/ \E i \in Invitations :
             req = Asked(u, "invite", "organization", NoRequest.target, NoRequest.role, i)
        \/ \E i \in Invitations :
             req = Asked(u, "accept", NoRequest.scope, NoRequest.target, NoRequest.role, i)
    BY DEF RequestsOf
  <1>6. ASSUME NEW op \in Ops \cup {"accept"}, NEW scope \in Scopes, NEW t \in Users,
               NEW role \in Roles, NEW i \in Invitations, req = Asked(u, op, scope, t, role, i)
        PROVE  req \in Request /\ req.user = u
    BY <1>2, <1>6
  <1>7. CASE \E scope \in Scopes, t \in Users, role \in GivenRoles :
               req = Asked(u, "upsert", scope, t, role, NoRequest.inv)
    BY <1>3, <1>4, <1>6, <1>7
  <1>8. CASE \E scope \in Scopes, t \in Users :
               req = Asked(u, "remove", scope, t, NoRequest.role, NoRequest.inv)
    BY <1>3, <1>4, <1>6, <1>8
  <1>9. CASE \E i \in Invitations :
               \/ req = Asked(u, "invite", "organization", NoRequest.target, NoRequest.role, i)
               \/ req = Asked(u, "accept", NoRequest.scope, NoRequest.target, NoRequest.role, i)
    BY <1>3, <1>4, <1>6, <1>9
  <1> QED
    BY <1>5, <1>7, <1>8, <1>9

LEMMA ReceiveKeeps ==
    ASSUME IInv, NEW r \in Requests, Receive(r)
    PROVE  IInv'
  <1> DEFINE Comes(req) ==
            /\ calls < MaxCalls /\ calls' = calls + 1
            /\ request' \in {[request EXCEPT ![r] = [req EXCEPT !.pc = "pathRoles"]]} \cup
                 {[request EXCEPT ![r] = [req EXCEPT !.pc = "bind", !.subject = s]] :
                    s \in {x \in Subjects : req.op \in NamedOps}}
            /\ UNCHANGED <<store, member, identity, invitation, faults>>
  <1>a. PICK u \in Users : \E req \in RequestsOf(u) :
            Comes(req) /\ held' = [held EXCEPT ![r] = RolesOf(u)]
    BY DEF Receive
  <1>1. PICK req \in RequestsOf(u) : Comes(req) /\ held' = [held EXCEPT ![r] = RolesOf(u)]
    BY <1>a
  <1>2. req \in Request /\ req.user = u
    BY RequestsOfType
  <1>3. PICK t \in Request : /\ request' = [request EXCEPT ![r] = t]
                             /\ t.user = u /\ t.pc \in {"pathRoles", "bind"}
    <2>1. CASE request' = [request EXCEPT ![r] = [req EXCEPT !.pc = "pathRoles"]]
      <3> DEFINE t == [req EXCEPT !.pc = "pathRoles"]
      <3>1. t \in Request /\ t.user = u /\ t.pc = "pathRoles"
        BY <1>2 DEF Request
      <3> QED
        BY <2>1, <3>1
    <2>2. ASSUME NEW s \in Subjects,
                 request' = [request EXCEPT ![r] = [req EXCEPT !.pc = "bind", !.subject = s]]
          PROVE  \E t \in Request : /\ request' = [request EXCEPT ![r] = t]
                                    /\ t.user = u /\ t.pc \in {"pathRoles", "bind"}
      <3> DEFINE t == [req EXCEPT !.pc = "bind", !.subject = s]
      <3>1. t \in Request /\ t.user = u /\ t.pc = "bind"
        BY <1>2 DEF Request
      <3> QED
        BY <2>2, <3>1
    <2> QED
      BY <1>1, <2>1, <2>2
  <1>4. RolesOf(u) \subseteq Roles
    BY DEF RolesOf, IInv, TypeOK
  <1>5. \A q \in Requests : /\ request'[q] = IF q = r THEN t ELSE request[q]
                            /\ held'[q] = IF q = r THEN RolesOf(u) ELSE held[q]
    BY <1>1, <1>3 DEF IInv, TypeOK
  <1>6. TypeOK'
    <2>1. request' \in [Requests -> Request] /\ held' \in [Requests -> SUBSET Roles]
      BY <1>1, <1>3, <1>4 DEF IInv, TypeOK
    <2>2. calls' \in 0..MaxCalls
      <3>1. calls \in 0..MaxCalls /\ MaxCalls \in Nat /\ calls < MaxCalls /\ calls' = calls + 1
        BY <1>1, AccessAssumption DEF IInv, TypeOK
      <3> QED
        BY <3>1
    <2>3. UNCHANGED <<store, member, identity, invitation, faults>>
      BY <1>1
    <2> QED
      BY <2>1, <2>2, <2>3 DEF IInv, TypeOK
  <1>7. HeldCurrent'
    <2> SUFFICES ASSUME NEW q \in Requests, request'[q].pc # "idle"
                 PROVE  RolesOf(request[q].user)' \subseteq held'[q]
      BY DEF HeldCurrent
    <2>1. member' = member
      BY <1>1
    <2>2. CASE q = r
      <3>1. request'[q].user = u /\ held'[q] = RolesOf(u)
        BY <1>3, <1>5, <2>2
      <3> QED
        BY <3>1, <2>1 DEF RolesOf
    <2>3. CASE q # r
      BY <1>5, <2>1, <2>3 DEF IInv, HeldCurrent, RolesOf
    <2> QED
      BY <2>2, <2>3
  <1>8. Entitled'
    <2> SUFFICES ASSUME NEW q \in Requests
                 PROVE  Passed(request'[q], held'[q])
      BY DEF Entitled, Passed, OwnMembership, Authorize
    <2>1. CASE q = r
      BY <2>1, <1>3, <1>5 DEF Passed
    <2>2. CASE q # r
      BY <2>2, <1>5 DEF IInv, Entitled
    <2> QED
      BY <2>1, <2>2
  <1>9. OneSubjectEach'
    BY <1>1 DEF IInv, OneSubjectEach
  <1> QED
    BY <1>6, <1>7, <1>8, <1>9 DEF IInv

\* Binding an identity, in either store.
LEMMA BindingKeeps ==
    ASSUME IInv, NEW r \in Requests,
           \/ MemoryBind(r) \/ PostgresBindSubject(r) \/ PostgresBindUser(r) \/ BindInsert(r)
    PROVE  IInv'
  <1> USE DEF At
  <1>1. TypeOK
    BY DEF IInv
  <1>2. CASE MemoryBind(r)
    <2>1. request[r].pc # "idle" /\ UNCHANGED <<store, member, invitation, calls, faults, held>>
      BY <1>2 DEF MemoryBind
    <2>5. request[r].subject \in Subjects
      BY <1>1 DEF TypeOK, Request
    <2>2. CASE identity[request[r].subject] = request[r].user
      <3>1. Goto(r, "pathRoles") /\ UNCHANGED identity
        BY <1>2, <2>2, <2>5 DEF MemoryBind, BoundUsers
      <3> QED
        BY <1>1, <2>1, <3>1, GotoMoves, QuietStepKeeps DEF TypeOK
    <2>3. CASE /\ identity[request[r].subject] # request[r].user
               /\ identity[request[r].subject] = Nobody /\ request[r].user \notin BoundUsers
      <3>1. BindIdentity(r) /\ Goto(r, "pathRoles")
        BY <1>2, <2>3 DEF MemoryBind
      <3> QED
        BY <1>1, <2>1, <2>3, <3>1, GotoMoves, BindKeeps
    <2>4. CASE /\ identity[request[r].subject] # request[r].user
               /\ ~(identity[request[r].subject] = Nobody /\ request[r].user \notin BoundUsers)
      <3>1. Answer(r) /\ UNCHANGED identity
        BY <1>2, <2>4 DEF MemoryBind
      <3> QED
        BY <1>1, <2>1, <3>1, AnswerMoves, QuietStepKeeps DEF TypeOK
    <2> QED
      BY <2>2, <2>3, <2>4
  <1>3. CASE PostgresBindSubject(r)
    <2>1. /\ request[r].pc # "idle"
          /\ UNCHANGED <<store, member, identity, invitation, calls, faults, held>>
          /\ Goto(r, "pathRoles") \/ Goto(r, "bindUser") \/ Answer(r)
      BY <1>3 DEF PostgresBindSubject
    <2> QED
      BY <1>1, <2>1, GotoMoves, AnswerMoves, QuietStepKeeps DEF TypeOK
  <1>4. CASE PostgresBindUser(r)
    <2>1. /\ request[r].pc # "idle"
          /\ UNCHANGED <<store, member, identity, invitation, calls, faults, held>>
          /\ Goto(r, "bindInsert") \/ Answer(r)
      BY <1>4 DEF PostgresBindUser
    <2> QED
      BY <1>1, <2>1, GotoMoves, AnswerMoves, QuietStepKeeps DEF TypeOK
  <1>5. CASE BindInsert(r)
    <2>1. request[r].pc # "idle" /\ UNCHANGED <<store, member, invitation, calls, faults, held>>
      BY <1>5 DEF BindInsert
    <2>2. CASE identity[request[r].subject] = Nobody /\ request[r].user \notin BoundUsers
      BY <1>1, <1>5, <2>1, <2>2, GotoMoves, BindKeeps DEF BindInsert
    <2>3. CASE ~(identity[request[r].subject] = Nobody /\ request[r].user \notin BoundUsers)
      BY <1>1, <1>5, <2>1, <2>3, AnswerMoves, QuietStepKeeps DEF BindInsert, TypeOK
    <2> QED
      BY <2>2, <2>3
  <1> QED
    BY <1>2, <1>3, <1>4, <1>5

\* Reading the roles of the actor.
LEMMA RolesKeep ==
    ASSUME IInv, NEW r \in Requests,
           ListPathRoles(r) \/ ListProjectRoles(r) \/ ProjectBelongs(r) \/ ListOrganizationRoles(r)
    PROVE  IInv'
  <1> USE DEF At
  <1>1. TypeOK
    BY DEF IInv
  <1>2. /\ request[r].pc # "idle"
        /\ UNCHANGED <<store, member, identity, invitation, calls>>
    BY DEF ListPathRoles, ListProjectRoles, ProjectBelongs, ListOrganizationRoles
  <1>3. "organization" \in Scopes /\ "project" \in Scopes
    BY DEF Scopes
  <1>4. \A role \in Roles \cup {"none"} : role # "none" => role \in Roles
    OBVIOUS
  <1>5. ASSUME ListPathRoles(r), NEW claim \in Claims \ {"none"}, Handle(r, claim),
               held' = [held EXCEPT ![r] = @ \cup {claim}], UNCHANGED faults
        PROVE  IInv'
    <2>1. claim \in Roles
      BY AccessAssumption
    <2>2. /\ held' \in [Requests -> SUBSET Roles]
          /\ \A q \in Requests : held'[q] = IF q = r THEN held[q] \cup {claim} ELSE held[q]
      BY <1>1, <1>5, <2>1 DEF TypeOK
    <2>3. HeldGrows
      BY <2>2 DEF HeldGrows
    <2>4. Moved(r)
      BY <1>1, <1>5, <2>2, HandleMoves
    <2>5. \A q \in Requests, u \in Users :
              request'[q].pc # "idle" /\ request[q].pc # "idle" /\ request[q].user = u
                 => RolesOf(u)' \subseteq held'[q]
      BY <1>2, <2>3 DEF IInv, HeldCurrent, RolesOf, HeldGrows
    <2>6. OneSubjectEach'
      BY <1>2 DEF IInv, OneSubjectEach
    <2> QED
      BY <1>1, <1>2, <1>5, <2>2, <2>3, <2>4, <2>5, <2>6, StepKeeps DEF TypeOK
  <1>6. ASSUME UNCHANGED held, faults' \in 0..MaxFaults, Moved(r)
        PROVE  IInv'
    BY <1>1, <1>2, <1>6, QuietStepKeeps DEF TypeOK
  <1>7. ASSUME NEW scope \in Scopes, NEW role \in Roles, Found(scope, request[r].user, role),
               Handle(r, role), UNCHANGED held
        PROVE  IInv'
    <2>1. role \in held'[r]
      BY <1>2, <1>7, FoundIsHeld
    <2>2. Moved(r)
      BY <1>1, <1>7, <2>1, HandleMoves
    <2>3. faults' \in 0..MaxFaults
      BY <1>1, <1>7, FoundFaults
    <2> QED
      BY <1>6, <1>7, <2>2, <2>3
  <1>8. faults \in 0..MaxFaults /\ (Fault => faults' \in 0..MaxFaults)
    BY <1>1, AccessAssumption DEF Fault, TypeOK
  <1>9. CASE ListPathRoles(r)
    <2>1. CASE \E claim \in Claims \ {"none"} :
                 Handle(r, claim) /\ held' = [held EXCEPT ![r] = @ \cup {claim}] /\ UNCHANGED faults
      BY <1>5, <1>9, <2>1
    <2>2. CASE Goto(r, "projectRoles") /\ UNCHANGED <<faults, held>>
      BY <1>1, <1>6, <1>8, <2>2, GotoMoves
    <2>3. ASSUME UNCHANGED held, NEW role \in Roles \cup {"none"},
                 Found("organization", request[r].user, role),
                 IF role # "none" THEN Handle(r, role) ELSE Goto(r, "projectRoles")
          PROVE  IInv'
      <3>1. CASE role # "none"
        BY <1>3, <1>4, <1>7, <2>3, <3>1
      <3>2. CASE role = "none"
        BY <1>1, <1>6, <2>3, <3>2, GotoMoves, FoundFaults
      <3> QED
        BY <3>1, <3>2
    <2> QED
      BY <1>9, <2>1, <2>2, <2>3 DEF ListPathRoles
  <1>10. CASE ListProjectRoles(r)
    <2>1. PICK role \in Roles \cup {"none"} :
              /\ Found("project", request[r].user, role)
              /\ IF role # "none" THEN Handle(r, role) ELSE Goto(r, "belongs")
              /\ UNCHANGED held
      BY <1>10 DEF ListProjectRoles
    <2>2. CASE role # "none"
      BY <1>3, <1>4, <1>7, <2>1, <2>2
    <2>3. CASE role = "none"
      BY <1>1, <1>6, <2>1, <2>3, GotoMoves, FoundFaults
    <2> QED
      BY <2>2, <2>3
  <1>11. CASE ProjectBelongs(r)
    BY <1>1, <1>6, <1>8, <1>11, GotoMoves, HandleWithoutRoleMoves DEF ProjectBelongs
  <1>12. CASE ListOrganizationRoles(r)
    <2>1. PICK role \in Roles \cup {"none"} :
              /\ Found("organization", request[r].user, role)
              /\ IF role # "none" THEN Handle(r, role) ELSE HandleWithoutRole(r)
              /\ UNCHANGED held
      BY <1>12 DEF ListOrganizationRoles
    <2>2. CASE role # "none"
      BY <1>3, <1>4, <1>7, <2>1, <2>2
    <2>3. CASE role = "none"
      BY <1>1, <1>6, <2>1, <2>3, HandleWithoutRoleMoves, FoundFaults
    <2> QED
      BY <2>2, <2>3
  <1> QED
    BY <1>9, <1>10, <1>11, <1>12

\* The writes of the handlers.
LEMMA WritesKeep ==
    ASSUME IInv, NEW r \in Requests,
           \/ \E scope \in Scopes : UpsertMember(r, scope) \/ MemoryRemove(r, scope)
                                      \/ PostgresRemoveRead(r, scope)
           \/ DeleteMember(r)
    PROVE  IInv'
  <1> USE DEF At
  <1>1. TypeOK
    BY DEF IInv
  <1>2. /\ request[r].target \in Users /\ request[r].role \in Roles
        /\ request[r].scope \in Scopes /\ faults \in 0..MaxFaults
        /\ Fault => faults' \in 0..MaxFaults
    BY <1>1, AccessAssumption DEF TypeOK, Request, Fault
  <1>3. ASSUME NEW scope \in Scopes, UpsertMember(r, scope)
        PROVE  IInv'
    <2>1. /\ request[r].pc # "idle" /\ Answer(r)
          /\ UNCHANGED <<store, identity, invitation, calls>>
      BY <1>3 DEF UpsertMember, Writes
    <2>2. Moved(r)
      BY <2>1, AnswerMoves
    <2>3. CASE SetMember(scope, request[r].target, request[r].role) /\ UNCHANGED faults
      BY <1>1, <1>2, <2>1, <2>2, <2>3, SetMemberKeeps DEF TypeOK
    <2>4. CASE Fault /\ UNCHANGED <<member, held>>
      BY <1>1, <1>2, <2>1, <2>2, <2>4, QuietStepKeeps DEF TypeOK
    <2> QED
      BY <1>3, <2>3, <2>4 DEF UpsertMember
  <1>4. ASSUME NEW scope \in Scopes, MemoryRemove(r, scope)
        PROVE  IInv'
    <2>1. /\ request[r].pc # "idle" /\ Answer(r)
          /\ SetMember(scope, request[r].target, "none")
          /\ UNCHANGED <<store, identity, invitation, calls, faults>>
      BY <1>4 DEF MemoryRemove, Writes
    <2> QED
      BY <1>1, <1>2, <2>1, AnswerMoves, SetMemberKeeps DEF TypeOK
  <1>5. ASSUME NEW scope \in Scopes, PostgresRemoveRead(r, scope)
        PROVE  IInv'
    <2>1. /\ request[r].pc = "write" /\ request[r].op = "remove"
          /\ UNCHANGED <<store, member, identity, invitation, calls, held>>
          /\ faults' \in 0..MaxFaults
          /\ Answer(r) \/ Goto(r, "delete")
      BY <1>2, <1>5 DEF PostgresRemoveRead, Writes
    <2>2. CASE Goto(r, "delete")
      <3> DEFINE t == [request[r] EXCEPT !.pc = "delete"]
      <3>1. /\ t \in Request /\ t.pc = "delete" /\ t.user = request[r].user
            /\ t.op = request[r].op /\ t.target = request[r].target
        BY <1>1 DEF TypeOK, Request
      <3>2. Passed(request[r], held[r])
        BY DEF IInv, Entitled
      <3>3. Passed(t, held'[r])
        BY <2>1, <3>1, <3>2 DEF Passed, OwnMembership
      <3>4. request' = [request EXCEPT ![r] = t]
        BY <2>2 DEF Goto
      <3>5. Moved(r)
        BY <3>1, <3>3, <3>4 DEF Moved
      <3> QED
        BY <1>1, <2>1, <3>5, QuietStepKeeps DEF TypeOK
    <2>3. CASE Answer(r)
      BY <1>1, <2>1, <2>3, AnswerMoves, QuietStepKeeps DEF TypeOK
    <2> QED
      BY <2>1, <2>2, <2>3
  <1>6. CASE DeleteMember(r)
    <2>1. /\ request[r].pc # "idle" /\ Answer(r)
          /\ SetMember(request[r].scope, request[r].target, "none")
          /\ UNCHANGED <<store, identity, invitation, calls, faults>>
      BY <1>6 DEF DeleteMember
    <2> QED
      BY <1>1, <1>2, <2>1, AnswerMoves, SetMemberKeeps DEF TypeOK
  <1> QED
    BY <1>3, <1>4, <1>5, <1>6

\* Invitations.
LEMMA InvitingKeeps ==
    ASSUME IInv, NEW r \in Requests, CreateInvitation(r) \/ AcceptInvitation(r)
    PROVE  IInv'
  <1> USE DEF At
  <1> DEFINE i == request[r].inv
             Statuses == {"none", "pending", "accepted", "expired"}
  <1>1. TypeOK /\ i \in Invitations /\ request[r].user \in Users
    BY DEF IInv, TypeOK, Request
  <1>2. /\ request[r].pc # "idle" /\ Answer(r)
        /\ UNCHANGED <<store, identity, calls, faults>>
    BY DEF CreateInvitation, AcceptInvitation, Writes
  <1>3. Moved(r)
    BY <1>2, AnswerMoves
  <1>4. invitation' \in [Invitations -> Statuses]
    <2>1. invitation \in [Invitations -> Statuses]
      BY <1>1 DEF TypeOK
    <2>2. \E status \in Statuses : invitation' \in {invitation, [invitation EXCEPT ![i] = status]}
      BY DEF CreateInvitation, AcceptInvitation
    <2> QED
      BY <2>1, <2>2
  <1>5. CASE UNCHANGED <<member, held>>
    BY <1>1, <1>2, <1>3, <1>4, <1>5, QuietStepKeeps DEF TypeOK
  <1>6. CASE SetMember(OfferedScope[i], request[r].user, OfferedRole[i])
    <2>1. OfferedScope[i] \in Scopes /\ OfferedRole[i] \in Roles
      BY <1>1, AccessAssumption
    <2> QED
      BY <1>1, <1>2, <1>3, <1>4, <1>6, <2>1, SetMemberKeeps DEF TypeOK
  <1> QED
    BY <1>5, <1>6 DEF CreateInvitation, AcceptInvitation

LEMMA StutterKeeps == ASSUME IInv, UNCHANGED vars PROVE IInv'
  BY DEF IInv, vars, TypeOK, HeldCurrent, Entitled, OneSubjectEach, Passed, RolesOf, OwnMembership,
         Authorize, ActorCanWrite, ActorCanAdmin

LEMMA NextKeeps == IInv /\ [Next]_vars => IInv'
  <1> SUFFICES ASSUME IInv, [Next]_vars PROVE IInv'
    OBVIOUS
  <1>1. CASE UNCHANGED vars
    BY <1>1, StutterKeeps
  <1>2. ASSUME NEW r \in Requests, Receive(r) PROVE IInv'
    BY <1>2, ReceiveKeeps
  <1>3. ASSUME NEW r \in Requests, Advance(r) PROVE IInv'
    <2>1. CASE MemoryBind(r) \/ PostgresBindSubject(r) \/ PostgresBindUser(r) \/ BindInsert(r)
      BY <2>1, BindingKeeps
    <2>2. CASE ListPathRoles(r) \/ ListProjectRoles(r) \/ ProjectBelongs(r)
                 \/ ListOrganizationRoles(r)
      BY <2>2, RolesKeep
    <2>3. CASE \/ UpsertOrganizationMember(r) \/ UpsertProjectMember(r)
               \/ MemoryRemoveOrganizationMember(r) \/ MemoryRemoveProjectMember(r)
               \/ PostgresRemoveOrganizationMember(r) \/ PostgresRemoveProjectMember(r)
               \/ DeleteMember(r)
      BY <2>3, WritesKeep
         DEF UpsertOrganizationMember, UpsertProjectMember, MemoryRemoveOrganizationMember,
             MemoryRemoveProjectMember, PostgresRemoveOrganizationMember,
             PostgresRemoveProjectMember, Scopes
    <2>4. CASE CreateInvitation(r) \/ AcceptInvitation(r)
      BY <2>4, InvitingKeeps
    <2> QED
      BY <1>3, <2>1, <2>2, <2>3, <2>4 DEF Advance
  <1> QED
    BY <1>1, <1>2, <1>3 DEF Next

\* The invariant that the theorems rest on.
THEOREM Invariance == Spec => []IInv
  BY InitKeeps, NextKeeps, PTL DEF Spec

\* Every variable keeps its type, through concurrent handlers and failed calls.
THEOREM AccessTypeCorrect == Spec => []TypeOK
  <1>1. IInv => TypeOK
    BY DEF IInv
  <1> QED
    BY <1>1, Invariance, PTL

-----------------------------------------------------------------------------
\* A step binds a subject that has no user, or leaves the identities alone.
LEMMA IdentityStep ==
    ASSUME IInv, [Next]_vars
    PROVE  \/ identity' = identity
           \/ \E r \in Requests : BindIdentity(r) /\ identity[request[r].subject] = Nobody
  <1> USE DEF vars
  <1>1. CASE UNCHANGED vars
    BY <1>1
  <1>2. ASSUME NEW r \in Requests, Receive(r) PROVE identity' = identity
    BY <1>2 DEF Receive
  <1>3. ASSUME NEW r \in Requests, Advance(r)
        PROVE  identity' = identity \/ (BindIdentity(r) /\ identity[request[r].subject] = Nobody)
    <2>1. CASE MemoryBind(r)
      BY <2>1 DEF MemoryBind
    <2>2. CASE BindInsert(r)
      BY <2>2 DEF BindInsert
    <2>3. CASE PostgresBindSubject(r) \/ PostgresBindUser(r)
      BY <2>3 DEF PostgresBindSubject, PostgresBindUser
    <2>4. CASE ListPathRoles(r) \/ ListProjectRoles(r) \/ ProjectBelongs(r)
                 \/ ListOrganizationRoles(r) \/ CreateInvitation(r) \/ AcceptInvitation(r)
      BY <2>4 DEF ListPathRoles, ListProjectRoles, ProjectBelongs, ListOrganizationRoles,
                  CreateInvitation, AcceptInvitation
    <2>5. CASE \/ UpsertOrganizationMember(r) \/ UpsertProjectMember(r)
               \/ MemoryRemoveOrganizationMember(r) \/ MemoryRemoveProjectMember(r)
               \/ PostgresRemoveOrganizationMember(r) \/ PostgresRemoveProjectMember(r)
               \/ DeleteMember(r)
      BY <2>5 DEF UpsertOrganizationMember, UpsertProjectMember, MemoryRemoveOrganizationMember,
                  MemoryRemoveProjectMember, PostgresRemoveOrganizationMember,
                  PostgresRemoveProjectMember, DeleteMember, UpsertMember, MemoryRemove,
                  PostgresRemoveRead
    <2> QED
      BY <1>3, <2>1, <2>2, <2>3, <2>4, <2>5 DEF Advance
  <1> QED
    BY <1>1, <1>2, <1>3 DEF Next

\* First logins at the same time, in either store, bind a subject to one user for good
\* and a user to one subject (BindUserIdentity).
THEOREM IdentityKept == Spec => IdentityKeepsUser
  <1> DEFINE Keeps == /\ \A s \in Subjects : identity[s] # Nobody => identity'[s] = identity[s]
                      /\ \A s, t \in Subjects : identity'[s] = identity'[t] /\ s # t => identity'[s] = Nobody
  <1>1. ASSUME IInv, IInv', [Next]_vars PROVE Keeps
    <2>1. \A s, t \in Subjects : identity'[s] = identity'[t] /\ s # t => identity'[s] = Nobody
      BY <1>1 DEF IInv, OneSubjectEach
    <2>2. ASSUME NEW s \in Subjects, identity[s] # Nobody
          PROVE  identity'[s] = identity[s]
      <3>1. identity \in [Subjects -> Users \cup {Nobody}]
        BY <1>1 DEF IInv, TypeOK
      <3> QED
        BY <1>1, <2>2, <3>1, IdentityStep DEF BindIdentity
    <2> QED
      BY <2>1, <2>2
  <1>2. IInv /\ IInv' /\ [Next]_vars => [Keeps]_vars
    BY <1>1
  <1> QED
    BY <1>2, Invariance, PTL DEF Spec, IdentityKeepsUser

\* A step changes the request of one slot only.
OthersKept(r) == \A q \in Requests \ {r} : request'[q] = request[q]

LEMMA ReplacedSlot ==
    ASSUME IInv, NEW r \in Requests, NEW t, request' = [request EXCEPT ![r] = t]
    PROVE  OthersKept(r)
  <1>1. request \in [Requests -> Request]
    BY DEF IInv, TypeOK
  <1> QED
    BY <1>1 DEF OthersKept

LEMMA GotoSlot == ASSUME IInv, NEW r \in Requests, NEW pc, Goto(r, pc) PROVE OthersKept(r)
  BY ReplacedSlot DEF Goto

LEMMA AnswerSlot == ASSUME IInv, NEW r \in Requests, Answer(r) PROVE OthersKept(r)
  BY ReplacedSlot DEF Answer

LEMMA HandleSlot == ASSUME IInv, NEW r \in Requests, NEW role, Handle(r, role) PROVE OthersKept(r)
  <1> DEFINE req == request[r]
  <1>1. CASE req.op = "accept"
    BY <1>1, GotoSlot DEF Handle
  <1>2. CASE req.op # "accept" /\ Authorize(role, req.op) /\ ~OwnMembership(req)
    BY <1>2, GotoSlot DEF Handle
  <1>3. CASE req.op # "accept" /\ ~(Authorize(role, req.op) /\ ~OwnMembership(req))
    BY <1>3, AnswerSlot DEF Handle
  <1> QED
    BY <1>1, <1>2, <1>3

LEMMA SlotStep ==
    ASSUME IInv, NEW r \in Requests, Receive(r) \/ Advance(r)
    PROVE  OthersKept(r)
  <1>1. CASE Receive(r)
    BY <1>1, ReplacedSlot DEF Receive
  <1>2. CASE MemoryBind(r) \/ PostgresBindSubject(r) \/ PostgresBindUser(r) \/ BindInsert(r)
    BY <1>2, GotoSlot, AnswerSlot
       DEF MemoryBind, PostgresBindSubject, PostgresBindUser, BindInsert
  <1>3. CASE ListPathRoles(r) \/ ListProjectRoles(r) \/ ProjectBelongs(r)
               \/ ListOrganizationRoles(r)
    BY <1>3, GotoSlot, AnswerSlot, HandleSlot
       DEF ListPathRoles, ListProjectRoles, ProjectBelongs, ListOrganizationRoles, HandleWithoutRole
  <1>4. CASE \/ UpsertOrganizationMember(r) \/ UpsertProjectMember(r)
             \/ MemoryRemoveOrganizationMember(r) \/ MemoryRemoveProjectMember(r)
             \/ PostgresRemoveOrganizationMember(r) \/ PostgresRemoveProjectMember(r)
             \/ DeleteMember(r) \/ CreateInvitation(r) \/ AcceptInvitation(r)
    BY <1>4, GotoSlot, AnswerSlot
       DEF UpsertOrganizationMember, UpsertProjectMember, MemoryRemoveOrganizationMember,
           MemoryRemoveProjectMember, PostgresRemoveOrganizationMember,
           PostgresRemoveProjectMember, DeleteMember, UpsertMember, MemoryRemove,
           PostgresRemoveRead, CreateInvitation, AcceptInvitation
  <1> QED
    BY <1>1, <1>2, <1>3, <1>4 DEF Advance

\* A request writes what it has passed the check for.
Written(r) ==
    /\ request[r].pc \in {"write", "delete"} /\ request[r].op \in {"upsert", "remove"} /\ Answer(r)
    /\ \E role \in Roles \cup {"none"} : SetMember(request[r].scope, request[r].target, role)

Accepted(r) ==
    /\ request[r].pc = "accept"
    /\ invitation'[request[r].inv] # invitation[request[r].inv] /\ Answer(r)
    /\ \E scope \in Scopes, role \in Roles : SetMember(scope, request[r].user, role)

LEMMA MemberStep ==
    ASSUME IInv, NEW r \in Requests, Receive(r) \/ Advance(r)
    PROVE  member' = member \/ Written(r) \/ Accepted(r)
  <1> USE DEF At
  <1>1. TypeOK /\ request[r] \in Request
    BY DEF IInv, TypeOK
  <1>2. request[r].role \in Roles /\ request[r].inv \in Invitations
    BY <1>1 DEF Request
  <1>3. CASE Receive(r)
    BY <1>3 DEF Receive
  <1>4. CASE Advance(r)
    <2>1. ASSUME NEW scope \in Scopes, UpsertMember(r, scope) \/ MemoryRemove(r, scope)
                                         \/ PostgresRemoveRead(r, scope)
          PROVE  member' = member \/ Written(r)
      BY <1>2, <2>1 DEF UpsertMember, MemoryRemove, PostgresRemoveRead, Writes, Written
    <2>2. CASE \/ UpsertOrganizationMember(r) \/ UpsertProjectMember(r)
               \/ MemoryRemoveOrganizationMember(r) \/ MemoryRemoveProjectMember(r)
               \/ PostgresRemoveOrganizationMember(r) \/ PostgresRemoveProjectMember(r)
      BY <2>1, <2>2
         DEF UpsertOrganizationMember, UpsertProjectMember, MemoryRemoveOrganizationMember,
             MemoryRemoveProjectMember, PostgresRemoveOrganizationMember,
             PostgresRemoveProjectMember, Scopes
    <2>3. CASE DeleteMember(r)
      <3>1. Passed(request[r], held[r])
        BY DEF IInv, Entitled
      <3> QED
        BY <2>3, <3>1 DEF DeleteMember, Passed, Written
    <2>4. CASE AcceptInvitation(r)
      <3> DEFINE i == request[r].inv
      <3>1. CASE UNCHANGED <<member, held>>
        BY <3>1
      <3>2. CASE /\ invitation[i] = "pending" /\ invitation' = [invitation EXCEPT ![i] = "accepted"]
                 /\ SetMember(OfferedScope[i], request[r].user, OfferedRole[i])
        <4>1. OfferedScope[i] \in Scopes /\ OfferedRole[i] \in Roles
          BY <1>2, AccessAssumption
        <4>2. invitation'[i] = "accepted"
          BY <1>1, <1>2, <3>2 DEF TypeOK
        <4>3. request[r].pc = "accept" /\ Answer(r)
          BY <2>4 DEF AcceptInvitation
        <4> QED
          BY <3>2, <4>1, <4>2, <4>3 DEF Accepted
      <3> QED
        BY <2>4, <3>1, <3>2 DEF AcceptInvitation
    <2>5. CASE \/ MemoryBind(r) \/ PostgresBindSubject(r) \/ PostgresBindUser(r) \/ BindInsert(r)
               \/ ListPathRoles(r) \/ ListProjectRoles(r) \/ ProjectBelongs(r)
               \/ ListOrganizationRoles(r) \/ CreateInvitation(r)
      BY <2>5 DEF MemoryBind, PostgresBindSubject, PostgresBindUser, BindInsert, ListPathRoles,
                  ListProjectRoles, ProjectBelongs, ListOrganizationRoles, CreateInvitation
    <2> QED
      BY <1>4, <2>2, <2>3, <2>4, <2>5 DEF Advance
  <1> QED
    BY <1>3, <1>4

\* What a write does to the memberships.
LEMMA SetMemberAt ==
    ASSUME IInv, NEW scope, NEW v, NEW role, SetMember(scope, v, role)
    PROVE  \A s \in Scopes, u \in Users : member'[s][u] # member[s][u] => s = scope /\ u = v
  BY DEF IInv, TypeOK, SetMember

LEMMA AnswerAt == ASSUME IInv, NEW r \in Requests, Answer(r) PROVE request'[r].pc = "idle"
  BY DEF IInv, TypeOK, Answer, NoRequest

\* A membership changes only for a request that has been checked with a role the actor
\* has held since the request came in, or for the user who accepts an invitation.
THEOREM ChangesEntitled == Spec => ChangedByEntitled
  <1> DEFINE ByEntitled(scope, u) ==
               \E r \in Requests : /\ request[r].pc \in {"write", "delete"} /\ At(r, "idle")'
                                   /\ request[r].target = u /\ request[r].scope = scope
                                   /\ \E role \in held[r] : Authorize(role, request[r].op)
             Changes == \A scope \in Scopes, u \in Users :
               member'[scope][u] # member[scope][u] =>
                 \/ Accepts(u)
                 \/ \E r \in Requests : /\ request[r].pc \in {"write", "delete"} /\ At(r, "idle")'
                                        /\ request[r].target = u /\ request[r].scope = scope
                                        /\ \E role \in held[r] : Authorize(role, request[r].op)
  <1>1. ASSUME IInv, Next PROVE Changes
    <2> SUFFICES ASSUME NEW scope \in Scopes, NEW u \in Users,
                        member'[scope][u] # member[scope][u]
                 PROVE  Accepts(u) \/ ByEntitled(scope, u)
      OBVIOUS
    <2>1. PICK r \in Requests : Receive(r) \/ Advance(r)
      BY <1>1 DEF Next
    <2>2. CASE Written(r)
      <3>1. request[r].target = u /\ request[r].scope = scope
        BY <1>1, <2>2, SetMemberAt DEF Written
      <3>2. At(r, "idle")'
        BY <1>1, <2>2, AnswerAt DEF Written, At
      <3>3. \E role \in held[r] : Authorize(role, request[r].op)
        BY <1>1, <2>2 DEF Written, IInv, Entitled, Passed
      <3> QED
        BY <2>2, <3>1, <3>2, <3>3 DEF Written
    <2>3. CASE Accepted(r)
      <3>1. request[r].user = u
        BY <1>1, <2>3, SetMemberAt DEF Accepted
      <3> QED
        BY <2>3, <3>1 DEF Accepted, Accepts, At
    <2> QED
      BY <1>1, <2>1, <2>2, <2>3, MemberStep
  <1>2. IInv /\ [Next]_vars => [Changes]_vars
    BY <1>1
  <1> QED
    BY <1>2, Invariance, PTL DEF Spec, ChangedByEntitled

\* An administrator of the organisation whose own request changes memberships leaves an
\* administrator behind: itself.
THEOREM AdminStays == Spec => AdminRemains
  <1> DEFINE Remains == \A r \in Requests :
               request[r].pc \in {"write", "delete"} /\ At(r, "idle")'
                 /\ request[r].user \in Admins("organization")
                   => Admins("organization")' # {}
  <1>1. ASSUME IInv, Next PROVE Remains
    <2> SUFFICES ASSUME NEW r \in Requests, request[r].pc \in {"write", "delete"},
                        At(r, "idle")', request[r].user \in Admins("organization")
                 PROVE  Admins("organization")' # {}
      OBVIOUS
    <2> DEFINE user == request[r].user
    <2>1. Receive(r) \/ Advance(r)
      <3>1. PICK q \in Requests : Receive(q) \/ Advance(q)
        BY <1>1 DEF Next
      <3>2. q = r
        BY <1>1, <3>1, SlotStep DEF OthersKept, At
      <3> QED
        BY <3>1, <3>2
    <2>2. user \in Users /\ ActorCanAdmin(member["organization"][user])
      BY DEF Admins
    <2>3. member'["organization"][user] = member["organization"][user]
      <3>1. CASE Written(r)
        <4>1. request[r].target # user
          BY <1>1, <3>1 DEF Written, IInv, Entitled, Passed, OwnMembership
        <4> QED
          BY <1>1, <2>2, <3>1, <4>1, SetMemberAt DEF Written, Scopes
      <3>2. ~Accepted(r)
        BY DEF Accepted
      <3> QED
        BY <1>1, <2>1, <3>1, <3>2, MemberStep
    <2>4. ActorCanAdmin(member'["organization"][user])
      BY <2>2, <2>3
    <2> QED
      BY <2>2, <2>4 DEF Admins, ActorCanAdmin
  <1>2. IInv /\ [Next]_vars => [Remains]_vars
    BY <1>1
  <1> QED
    BY <1>2, Invariance, PTL DEF Spec, AdminRemains
=============================================================================
