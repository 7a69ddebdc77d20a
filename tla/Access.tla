------------------------------- MODULE Access -------------------------------
(***************************************************************************)
(* Who may do what: the actor of a request, the binding of its identity to *)
(* a user, the roles read from the memberships of one organisation and of  *)
(* its project, the decision of the action policy, and the handlers that   *)
(* change memberships while other requests rely on them.                   *)
(*                                                                         *)
(* A step is one critical section of the memory store, one statement or    *)
(* transaction of the Postgres store, with what the handler decides on it. *)
(***************************************************************************)
EXTENDS Integers, FiniteSets

CONSTANTS
    Users,
    Subjects,      \* subjects of the identity provider
    Invitations,
    Invitee,       \* the user with the address of each invitation
    OfferedScope,  \* what each invitation is for
    OfferedRole,
    Requirement,   \* the action policy: what upsert, remove and invite require
    GivenRoles,    \* the roles that members have and are given
    Claims,        \* the roles that headers or tokens may carry, "none" for no role
    InitialMembers,  \* the memberships there may be at first
    NamedOps,      \* bound: the requests that come with an identity
    Parallel,      \* how many HTTP requests are served at a time
    MaxCalls,      \* bound on the HTTP requests
    MaxFaults      \* bound on failed calls of Postgres

Scopes == {"organization", "project"}

\* normalizeMemberRole lets these pass.
Roles == {"owner", "admin", "member", "editor", "writer", "viewer"}

\* What a request wants to do; accept is the only one that needs no role.
Ops == {"upsert", "remove", "invite"}

ASSUME AccessAssumption ==
    /\ Users # {} /\ Subjects # {} /\ Invitations # {}
    /\ Invitee \in [Invitations -> Users]
    /\ OfferedScope \in [Invitations -> Scopes]
    /\ OfferedRole \in [Invitations -> Roles]
    /\ Requirement \in [Ops -> {"write", "project_admin", "organization_admin"}]
    /\ GivenRoles \subseteq Roles
    /\ Claims \subseteq Roles \cup {"none"}
    /\ InitialMembers \subseteq [Scopes -> [Users -> Roles \cup {"none"}]]
    /\ NamedOps \subseteq Ops \cup {"accept"}
    /\ Parallel \in Nat \ {0} /\ {MaxCalls, MaxFaults} \subseteq Nat

VARIABLES
    store,       \* "memory" or "postgres", fixed from the start
    member,      \* the role each user has in the organisation and in the project
    identity,    \* the user each subject is bound to
    invitation,
    request,
    calls,
    faults,
    held         \* history: the roles the actor has held since its request came in

vars == <<store, member, identity, invitation, request, calls, faults, held>>

Requests == 1..Parallel

Nobody == "nobody"

Request == [pc : {"idle", "bind", "bindUser", "bindInsert", "pathRoles", "projectRoles",
                  "belongs", "organizationRoles", "write", "delete", "accept"},
            user : Users, subject : Subjects, scope : Scopes, op : Ops \cup {"accept"},
            target : Users, role : Roles, inv : Invitations]

NoRequest == [pc |-> "idle", user |-> CHOOSE u \in Users : TRUE,
              subject |-> CHOOSE s \in Subjects : TRUE, scope |-> "project", op |-> "remove",
              target |-> CHOOSE u \in Users : TRUE, role |-> "viewer",
              inv |-> CHOOSE i \in Invitations : TRUE]

RolesOf(u) == {member[scope][u] : scope \in Scopes} \ {"none"}

-----------------------------------------------------------------------------
(* The action policy *)

ActorCanWrite(role) == role \in {"owner", "admin", "member", "editor", "writer"}

ActorCanAdmin(role) == role \in {"owner", "admin"}

Authorize(role, op) ==
    IF Requirement[op] = "write" THEN ActorCanWrite(role) ELSE ActorCanAdmin(role)

-----------------------------------------------------------------------------
(* Steps *)

At(r, pc) == request[r].pc = pc

Goto(r, pc) == request' = [request EXCEPT ![r].pc = pc]

Answer(r) == request' = [request EXCEPT ![r] = NoRequest]

Fault ==
    /\ store = "postgres"
    /\ faults < MaxFaults
    /\ faults' = faults + 1

SetMember(scope, u, role) ==
    /\ member' = [member EXCEPT ![scope][u] = role]
    /\ held' = [r \in Requests |->
         IF ~At(r, "idle") /\ request[r].user = u /\ role # "none" THEN held[r] \cup {role} ELSE held[r]]

\* Faulty: an administrator may change its own membership.
OwnMembershipAllowed(req) == FALSE

\* Administrators do not change their own membership.
OwnMembership(req) == req.op \in {"upsert", "remove"} /\ req.target = req.user

\* Faulty: any role will do.
HandleAnyRole(r, role) == LET req == request[r] IN
    CASE req.op = "accept" -> Goto(r, "accept")
      [] req.op # "accept" /\ ~OwnMembership(req) -> Goto(r, "write")
      [] OTHER -> Answer(r)

\* The handler of a request whose actor has the role: what it decides before it
\* writes.
Handle(r, role) == LET req == request[r] IN
    CASE req.op = "accept" -> Goto(r, "accept")
      [] req.op # "accept" /\ Authorize(role, req.op) /\ ~OwnMembership(req) -> Goto(r, "write")
      [] OTHER -> Answer(r)

-----------------------------------------------------------------------------
(* withActor *)

Asked(u, op, scope, target, role, inv) ==
    [NoRequest EXCEPT !.user = u, !.op = op, !.scope = scope, !.target = target, !.role = role, !.inv = inv]

\* What a kind of request has no use for is always the same.
RequestsOf(u) == LET no == NoRequest IN
    {Asked(u, "upsert", scope, t, role, no.inv) : scope \in Scopes, t \in Users, role \in GivenRoles}
    \cup {Asked(u, "remove", scope, t, no.role, no.inv) : scope \in Scopes, t \in Users}
    \cup {Asked(u, "invite", "organization", no.target, no.role, i) : i \in Invitations}
    \cup {Asked(u, "accept", no.scope, no.target, no.role, i) : i \in Invitations}

\* A request that comes in. In trusted-header mode the identity may be missing.
Receive(r) == \E u \in Users : \E req \in RequestsOf(u) :
    /\ At(r, "idle") /\ \A q \in 1..(r - 1) : ~At(q, "idle")
    /\ calls < MaxCalls
    /\ calls' = calls + 1
    /\ request' \in {[request EXCEPT ![r] = [req EXCEPT !.pc = "pathRoles"]]} \cup
         {[request EXCEPT ![r] = [req EXCEPT !.pc = "bind", !.subject = s]] :
            s \in {x \in Subjects : req.op \in NamedOps}}
    /\ held' = [held EXCEPT ![r] = RolesOf(u)]
    /\ UNCHANGED <<store, member, identity, invitation, faults>>

BoundUsers == {identity[s] : s \in Subjects}

BindIdentity(r) == identity' = [identity EXCEPT ![request[r].subject] = request[r].user]

\* BindUserIdentity of the memory store is one critical section.
MemoryBind(r) == LET req == request[r] IN
    /\ At(r, "bind") /\ store = "memory"
    /\ CASE identity[req.subject] = req.user -> Goto(r, "pathRoles") /\ UNCHANGED identity
         [] identity[req.subject] = Nobody /\ req.user \notin BoundUsers ->
              BindIdentity(r) /\ Goto(r, "pathRoles")
         [] OTHER -> Answer(r) /\ UNCHANGED identity
    /\ UNCHANGED <<store, member, invitation, calls, faults, held>>

\* That of the Postgres store looks for the subject, then for the user, and inserts
\* the row. FOR UPDATE locks no row that does not exist.
PostgresBindSubject(r) == LET req == request[r] IN
    /\ At(r, "bind") /\ store = "postgres"
    /\ CASE identity[req.subject] = req.user -> Goto(r, "pathRoles")
         [] identity[req.subject] = Nobody -> Goto(r, "bindUser")
         [] OTHER -> Answer(r)
    /\ UNCHANGED <<store, member, identity, invitation, calls, faults, held>>

PostgresBindUser(r) ==
    /\ At(r, "bindUser")
    /\ IF request[r].user \in BoundUsers THEN Answer(r) ELSE Goto(r, "bindInsert")
    /\ UNCHANGED <<store, member, identity, invitation, calls, faults, held>>

\* Faulty: the table has no unique keys.
BindInsertUnchecked(r) ==
    At(r, "bindInsert") /\ BindIdentity(r) /\ Goto(r, "pathRoles")
    /\ UNCHANGED <<store, member, invitation, calls, faults, held>>

\* The unique keys of user_identities decide, with an error for the second.
BindInsert(r) == LET req == request[r] IN
    /\ At(r, "bindInsert")
    /\ IF identity[req.subject] = Nobody /\ req.user \notin BoundUsers
       THEN BindIdentity(r) /\ Goto(r, "pathRoles")
       ELSE Answer(r) /\ UNCHANGED identity
    /\ UNCHANGED <<store, member, invitation, calls, faults, held>>

-----------------------------------------------------------------------------
(* loadPersistentActorRoles: up to four calls of the store *)

\* The roles of a membership, of which a user has at most one. A failed query looks
\* like no membership.
Found(scope, u, role) ==
    \/ role = member[scope][u] /\ UNCHANGED faults
    \/ role = "none" /\ member[scope][u] # "none" /\ Fault

\* Roles that came with the request are taken as they are. For paths of the
\* organisation its roles come first.
ListPathRoles(r) == LET req == request[r] IN
    /\ At(r, "pathRoles")
    /\ \/ \E claim \in Claims \ {"none"} :
            /\ Handle(r, claim)
            /\ held' = [held EXCEPT ![r] = @ \cup {claim}]
            /\ UNCHANGED faults
       \/ /\ "none" \in Claims
          /\ IF req.op # "accept" /\ req.scope = "organization"
             THEN \E role \in Roles \cup {"none"} :
                    /\ Found("organization", req.user, role)
                    /\ IF role # "none" THEN Handle(r, role) ELSE Goto(r, "projectRoles")
             ELSE Goto(r, "projectRoles") /\ UNCHANGED faults
          /\ UNCHANGED held
    /\ UNCHANGED <<store, member, identity, invitation, calls>>

ListProjectRoles(r) == \E role \in Roles \cup {"none"} :
    /\ At(r, "projectRoles")
    /\ Found("project", request[r].user, role)
    /\ IF role # "none" THEN Handle(r, role) ELSE Goto(r, "belongs")
    /\ UNCHANGED <<store, member, identity, invitation, calls, held>>

\* Without any role only an invitation can be accepted.
HandleWithoutRole(r) == IF request[r].op = "accept" THEN Goto(r, "accept") ELSE Answer(r)

\* ProjectBelongsToOrganization. The project does; the query may fail.
ProjectBelongs(r) ==
    /\ At(r, "belongs")
    /\ \/ Goto(r, "organizationRoles") /\ UNCHANGED faults
       \/ HandleWithoutRole(r) /\ Fault
    /\ UNCHANGED <<store, member, identity, invitation, calls, held>>

ListOrganizationRoles(r) == \E role \in Roles \cup {"none"} :
    /\ At(r, "organizationRoles")
    /\ Found("organization", request[r].user, role)
    /\ IF role # "none" THEN Handle(r, role) ELSE HandleWithoutRole(r)
    /\ UNCHANGED <<store, member, identity, invitation, calls, held>>

-----------------------------------------------------------------------------
(* The handlers' writes. They act on the roles that were read, and look at     *)
(* the actor's membership no more.                                             *)

\* The handlers of organisations and of projects differ in the scope.
Writes(r, op, scope) == At(r, "write") /\ request[r].op = op /\ request[r].scope = scope

UpsertMember(r, scope) ==
    /\ Writes(r, "upsert", scope)
    /\ \/ SetMember(scope, request[r].target, request[r].role) /\ UNCHANGED faults
       \/ Fault /\ UNCHANGED <<member, held>>
    /\ Answer(r)
    /\ UNCHANGED <<store, identity, invitation, calls>>

UpsertOrganizationMember(r) == UpsertMember(r, "organization")

UpsertProjectMember(r) == UpsertMember(r, "project")

\* The memory store answers "not found" when there is no row.
MemoryRemove(r, scope) ==
    /\ store = "memory" /\ Writes(r, "remove", scope)
    /\ SetMember(scope, request[r].target, "none")
    /\ Answer(r)
    /\ UNCHANGED <<store, identity, invitation, calls, faults>>

MemoryRemoveOrganizationMember(r) == MemoryRemove(r, "organization")

MemoryRemoveProjectMember(r) == MemoryRemove(r, "project")

\* The Postgres store reads the row for the answer before it deletes it.
PostgresRemoveRead(r, scope) ==
    /\ store = "postgres" /\ Writes(r, "remove", scope)
    /\ \/ /\ IF member[scope][request[r].target] = "none" THEN Answer(r) ELSE Goto(r, "delete")
          /\ UNCHANGED faults
       \/ Answer(r) /\ Fault
    /\ UNCHANGED <<store, member, identity, invitation, calls, held>>

PostgresRemoveOrganizationMember(r) == PostgresRemoveRead(r, "organization")

PostgresRemoveProjectMember(r) == PostgresRemoveRead(r, "project")

DeleteMember(r) ==
    /\ At(r, "delete")
    /\ SetMember(request[r].scope, request[r].target, "none")
    /\ Answer(r)
    /\ UNCHANGED <<store, identity, invitation, calls, faults>>

\* createInvitation; its mail is in module InvitationMail.
CreateInvitation(r) == LET i == request[r].inv IN
    /\ Writes(r, "invite", "organization")
    /\ invitation[i] = "none"
    /\ invitation' = [invitation EXCEPT ![i] = "pending"]
    /\ Answer(r)
    /\ UNCHANGED <<store, member, identity, calls, faults, held>>

\* AcceptInvitation, in one critical section or under FOR UPDATE. It refuses an
\* invitation that is not pending, has lapsed or is for another address, and sets the
\* role whatever the user's role was.
AcceptInvitation(r) == LET i == request[r].inv u == request[r].user IN
    /\ At(r, "accept")
    /\ Answer(r)
    /\ \/ /\ invitation[i] = "pending" /\ Invitee[i] = u
          /\ invitation' = [invitation EXCEPT ![i] = "accepted"]
          /\ SetMember(OfferedScope[i], u, OfferedRole[i])
       \/ /\ invitation[i] = "pending"
          /\ invitation' = [invitation EXCEPT ![i] = "expired"]
          /\ UNCHANGED <<member, held>>
       \/ (invitation[i] # "pending" \/ Invitee[i] # u) /\ UNCHANGED <<invitation, member, held>>
    /\ UNCHANGED <<store, identity, calls, faults>>

-----------------------------------------------------------------------------

Init ==
    /\ store \in {"memory", "postgres"}
    /\ member \in InitialMembers
    /\ identity = [s \in Subjects |-> Nobody]
    /\ invitation \in [Invitations -> {"none", "pending"}]
    /\ request = [r \in Requests |-> NoRequest]
    /\ calls = 0
    /\ faults = 0
    /\ held = [r \in Requests |-> {}]

Advance(r) ==
    \/ MemoryBind(r) \/ PostgresBindSubject(r) \/ PostgresBindUser(r) \/ BindInsert(r)
    \/ ListPathRoles(r) \/ ListProjectRoles(r) \/ ProjectBelongs(r) \/ ListOrganizationRoles(r)
    \/ UpsertOrganizationMember(r) \/ UpsertProjectMember(r)
    \/ MemoryRemoveOrganizationMember(r) \/ MemoryRemoveProjectMember(r)
    \/ PostgresRemoveOrganizationMember(r) \/ PostgresRemoveProjectMember(r) \/ DeleteMember(r)
    \/ CreateInvitation(r) \/ AcceptInvitation(r)

Next == \E r \in Requests : Receive(r) \/ Advance(r)

Spec == Init /\ [][Next]_vars

-----------------------------------------------------------------------------
(* Properties *)

TypeOK ==
    /\ store \in {"memory", "postgres"}
    /\ member \in [Scopes -> [Users -> Roles \cup {"none"}]]
    /\ identity \in [Subjects -> Users \cup {Nobody}]
    /\ invitation \in [Invitations -> {"none", "pending", "accepted", "expired"}]
    /\ request \in [Requests -> Request]
    /\ calls \in 0..MaxCalls
    /\ faults \in 0..MaxFaults
    /\ held \in [Requests -> SUBSET Roles]

\* A subject never changes its user, and no user has two subjects, although requests
\* of new users bind at the same time and look before they insert.
IdentityKeepsUser ==
    [][/\ \A s \in Subjects : identity[s] # Nobody => identity'[s] = identity[s]
       /\ \A s, t \in Subjects : identity'[s] = identity'[t] /\ s # t => identity'[s] = Nobody]_vars

Admins(scope) == {u \in Users : ActorCanAdmin(member[scope][u])}

Accepts(u) == \E r \in Requests :
    At(r, "accept") /\ request[r].user = u /\ invitation'[request[r].inv] # invitation[request[r].inv]

\* A membership is changed only for a request whose actor has held a role that allows
\* it since the request came in, or because its user accepts an invitation: not with
\* roles from before a demotion that was over by then.
ChangedByEntitled ==
    [][\A scope \in Scopes, u \in Users :
         member'[scope][u] # member[scope][u] =>
           \/ Accepts(u)
           \/ \E r \in Requests : /\ request[r].pc \in {"write", "delete"} /\ At(r, "idle")'
                                  /\ request[r].target = u /\ request[r].scope = scope
                                  /\ \E role \in held[r] : Authorize(role, request[r].op)]_vars

\* An organisation loses its last administrator only in a request of someone who is
\* none: one whose membership another request has changed since, one who is let in by
\* a role in the project or in its token, or one who accepts a lower role. Nobody who
\* is still an administrator of the organisation leaves it without one.
AdminRemains ==
    [][\A r \in Requests :
         request[r].pc \in {"write", "delete"} /\ At(r, "idle")'
           /\ request[r].user \in Admins("organization")
             => Admins("organization")' # {}]_vars
=============================================================================
