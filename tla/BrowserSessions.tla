-------------------------- MODULE BrowserSessions --------------------------
(***************************************************************************)
(* The sessions that oidc_browser.go gives to browsers: login, callback,   *)
(* refresh, logout and the check of the cookie or of the bearer token of   *)
(* every API request. Cookies are signed and may be replayed at any time;  *)
(* whether a session counts is in its row.                                 *)
(*                                                                         *)
(* A step is one call of the repository, one request to the identity       *)
(* provider, or a step of module OIDCVerifier.                             *)
(***************************************************************************)
EXTENDS OIDCVerifier, Sequences

CONSTANTS
    MaxLogins,    \* bound on the logins begun
    MaxCalls,     \* bound on the HTTP requests
    FaultKinds,
    MaxFaults     \* bound on failed calls of the store, crashes and failed JWKS requests

ASSUME SessionBounds ==
    /\ {MaxLogins, MaxCalls, MaxFaults} \subseteq Nat
    /\ FaultKinds \subseteq {"store", "crash"}

VARIABLES
    session,      \* the row of each session, in the order they were made
    logins,       \* the states that oidcLogin has given out
    stateCookie,  \* the state in the browser's cookie, 0 for none
    redeemed,     \* the logins whose code the provider has taken
    request,
    calls,
    faults,
    issued,       \* the sessions whose cookie a browser has received
    \* The rest is history.
    dropped,      \* the sessions of which a request has said that it dropped them
    contested,    \* the logins of which two requests worked on a session at a time
    loggedOut     \* the logins that a logout has ended

history == <<dropped, contested, loggedOut>>
sessionVars == <<session, logins, stateCookie, redeemed, request, calls, faults, issued, history>>
vars == <<sessionVars, verifierVars>>

\* A request makes one session at most.
Sessions == 1..MaxCalls

Logins == 1..MaxLogins

\* Both stores drop a session by marking it; nothing deletes a row.
Session == [login : Logins, revoked : BOOLEAN, expired : BOOLEAN]

\* A request under way. The login is the one whose code or session it carries.
RequestState == [pc : {"idle", "exchange", "verify", "insert", "revoke", "logout", "bearer", "served"},
                 session : {0} \cup Sessions, login : {0} \cup Logins]

NoRequest == [pc |-> "idle", session |-> 0, login |-> 0]

Init ==
    /\ VerifierInit
    /\ session = <<>>
    /\ logins = 0
    /\ stateCookie = 0
    /\ request = [r \in Requests |-> NoRequest]
    /\ calls = 0
    /\ faults = 0
    /\ redeemed = {}
    /\ issued = {}
    /\ dropped = {}
    /\ contested = {}
    /\ loggedOut = {}

-----------------------------------------------------------------------------
(* Steps *)

At(r, pc) == request[r].pc = pc

\* The slots of requests are alike: a request takes the first that is free.
Begin(r) ==
    /\ At(r, "idle") /\ \A q \in 1..(r - 1) : ~At(q, "idle")
    /\ calls < MaxCalls
    /\ calls' = calls + 1

Goto(r, pc) == request' = [request EXCEPT ![r].pc = pc]

Answer(r) == request' = [request EXCEPT ![r] = NoRequest]

Fault(kind) ==
    /\ kind \in FaultKinds
    /\ faults + fetchFaults < MaxFaults
    /\ faults' = faults + 1

-----------------------------------------------------------------------------
(* The rows *)

\* UpsertOIDCBrowserSession under a random id.
UpsertOIDCBrowserSession(login) ==
    session' = Append(session, [login |-> login, revoked |-> FALSE, expired |-> FALSE])

RevokeOIDCBrowserSession(s) == session' = [session EXCEPT ![s].revoked = TRUE]

\* Faulty: a revoked session counts until it expires.
IsOIDCBrowserSessionActiveTillExpiry(s) == ~session[s].expired

IsOIDCBrowserSessionActive(s) == ~session[s].revoked /\ ~session[s].expired

\* The query in Postgres: when it fails, the session counts as revoked.
Found(s, active) ==
    \/ active = IsOIDCBrowserSessionActive(s) /\ UNCHANGED faults
    \/ ~active /\ IsOIDCBrowserSessionActive(s) /\ Fault("store")

\* verifyOIDCSession looks at the expiry in the cookie, which is that of the row, and
\* then at the row. Every cookie that was issued may be presented.
VerifyOIDCSession(s, active) == s \in issued /\ Found(s, active)

Live(login) ==
    {s \in DOMAIN session : session[s].login = login /\ IsOIDCBrowserSessionActive(s)}

\* Requests that will end a session of the login, or make one.
Working(login) == {r \in Requests : ~At(r, "idle") /\ request[r].login = login}

Contest(login) == contested' = IF Working(login) = {} THEN contested ELSE contested \cup {login}

-----------------------------------------------------------------------------
(* The handlers *)

\* The state replaces the one of a login begun in another tab.
OidcLogin ==
    /\ logins < MaxLogins
    /\ logins' = logins + 1
    /\ stateCookie' = logins'
    /\ UNCHANGED <<session, redeemed, request, calls, faults, issued, history, verifierVars>>

VerifyOIDCState(st) == st # 0 /\ st = stateCookie

\* The provider sends the browser back with the state it came with.
OidcCallback(r) == \E st \in 1..logins :
    /\ Begin(r)
    /\ VerifyOIDCState(st)
    /\ request' = [request EXCEPT ![r] = [NoRequest EXCEPT !.pc = "exchange", !.login = st]]
    /\ Contest(st)
    /\ UNCHANGED <<session, logins, stateCookie, redeemed, faults, issued, dropped, loggedOut,
                   verifierVars>>

\* The CSRF token of the session is in a header, as scripts of the page send it.
VerifyOIDCCSRF(s, header) == header = s

\* oidcRefresh needs a session that is active, and its CSRF token.
OidcRefresh(r) == \E s \in issued, header \in {0} \cup issued :
    /\ Begin(r)
    /\ VerifyOIDCSession(s, TRUE) /\ VerifyOIDCCSRF(s, header)
    /\ request' = [request EXCEPT ![r] =
         [pc |-> "exchange", session |-> s, login |-> session[s].login]]
    /\ Contest(session[s].login)
    /\ UNCHANGED <<session, logins, stateCookie, redeemed, issued, dropped, loggedOut, verifierVars>>

\* The provider takes a code once. Its answer to a refresh may lack an ID token; the
\* actor of the old session is kept then.
ExchangeOIDCToken(r) == LET st == request[r].login login == request[r].session = 0 IN
    /\ At(r, "exchange")
    /\ \/ \E key \in published, named \in BOOLEAN :
            /\ login => st \notin redeemed
            /\ redeemed' = IF login THEN redeemed \cup {st} ELSE redeemed
            /\ Goto(r, "verify")
            /\ BeginCheck(r, [key |-> key, named |-> named, form |-> "valid"])
            /\ UNCHANGED verifierOthers
       \/ ~login /\ Goto(r, "revoke") /\ UNCHANGED <<redeemed, verifierVars>>
       \/ Answer(r) /\ UNCHANGED <<redeemed, verifierVars>>
    /\ UNCHANGED <<session, logins, stateCookie, calls, faults, issued, history>>

\* actorFromOIDCIDToken
IDTokenChecked(r) ==
    /\ At(r, "verify")
    /\ \/ CheckAt(r, "accepted") /\ Goto(r, IF request[r].session = 0 THEN "insert" ELSE "revoke")
       \/ CheckAt(r, "refused") /\ Answer(r)
    /\ EndCheck(r)
    /\ UNCHANGED <<session, logins, stateCookie, redeemed, calls, faults, issued, history,
                   verifierOthers>>

\* Faulty: the refresh leaves the old session alone.
RevokeRefreshedKept(r) ==
    /\ At(r, "revoke")
    /\ Goto(r, "insert")
    /\ UNCHANGED <<session, logins, stateCookie, redeemed, calls, faults, issued, history,
                   verifierVars>>

\* The refresh drops the old session before it makes the new one.
RevokeRefreshed(r) ==
    /\ At(r, "revoke")
    /\ \/ RevokeOIDCBrowserSession(request[r].session) /\ Goto(r, "insert") /\ UNCHANGED faults
       \/ Fault("store") /\ Answer(r) /\ UNCHANGED session
    /\ UNCHANGED <<logins, stateCookie, redeemed, calls, issued, history, verifierVars>>

\* setOIDCSession, and then the cookies of the answer, which the browser may miss. The
\* callback clears the state.
SetOIDCSession(r) ==
    /\ At(r, "insert")
    /\ Answer(r)
    /\ \/ /\ UpsertOIDCBrowserSession(request[r].login)
          /\ dropped' = dropped \cup ({request[r].session} \ {0})
          /\ issued' \in {issued, issued \cup {Len(session')}}
          /\ stateCookie' = IF request[r].session = 0 /\ issued' # issued THEN 0 ELSE stateCookie
          /\ UNCHANGED faults
       \/ Fault("store") /\ UNCHANGED <<session, dropped, issued, stateCookie>>
    /\ UNCHANGED <<logins, redeemed, calls, contested, loggedOut, verifierVars>>

\* authLogout of a session that is active asks for the CSRF token.
AuthLogout(r) == \E s \in issued, header \in {0} \cup issued :
    /\ Begin(r)
    /\ VerifyOIDCSession(s, TRUE) /\ VerifyOIDCCSRF(s, header)
    /\ request' = [request EXCEPT ![r] = [pc |-> "logout", session |-> s, login |-> session[s].login]]
    /\ Contest(session[s].login)
    /\ UNCHANGED <<session, logins, stateCookie, redeemed, issued, dropped, loggedOut, verifierVars>>

\* Any other request has its cookies cleared, one whose query failed included.
AuthLogoutWithoutSession ==
    /\ UNCHANGED faults \/ \E s \in issued : VerifyOIDCSession(s, FALSE)
    /\ stateCookie' = 0
    /\ UNCHANGED <<session, logins, redeemed, request, calls, issued, history, verifierVars>>

RevokeLoggedOut(r) ==
    /\ At(r, "logout") /\ Answer(r)
    /\ \/ /\ RevokeOIDCBrowserSession(request[r].session)
          /\ stateCookie' = 0
          /\ loggedOut' = loggedOut \cup {request[r].login}
          /\ dropped' = dropped \cup {request[r].session}
          /\ UNCHANGED faults
       \/ Fault("store") /\ UNCHANGED <<session, stateCookie, loggedOut, dropped>>
    /\ UNCHANGED <<logins, redeemed, calls, issued, contested, verifierVars>>

-----------------------------------------------------------------------------
(* actorFromOIDCRequest: a bearer token goes before the cookie *)

ActorFromCookie(r) == \E s \in issued :
    /\ Begin(r)
    /\ VerifyOIDCSession(s, TRUE)
    /\ request' = [request EXCEPT ![r] = [NoRequest EXCEPT !.pc = "served", !.session = s]]
    /\ UNCHANGED <<session, logins, stateCookie, redeemed, issued, history, verifierVars>>

\* Clients send tokens that were signed at any time so far.
ActorFromToken(r) == \E token \in Token :
    /\ Begin(r)
    /\ token.key \in used /\ (token.form = "malformed" => token = NoToken)
    /\ Goto(r, "bearer")
    /\ BeginCheck(r, token)
    /\ UNCHANGED <<session, logins, stateCookie, redeemed, faults, issued, history, verifierOthers>>

BearerChecked(r) ==
    /\ At(r, "bearer") /\ check[r].pc \in {"accepted", "refused"}
    /\ IF CheckAt(r, "accepted") THEN Goto(r, "served") ELSE Answer(r)
    /\ EndCheck(r)
    /\ UNCHANGED <<session, logins, stateCookie, redeemed, calls, faults, issued, history,
                   verifierOthers>>

Serve(r) ==
    /\ At(r, "served")
    /\ Answer(r)
    /\ UNCHANGED <<session, logins, stateCookie, redeemed, calls, faults, issued, history,
                   verifierVars>>

-----------------------------------------------------------------------------
(* Time and crashes *)

SessionExpires == \E s \in DOMAIN session :
    /\ IsOIDCBrowserSessionActive(s)
    /\ session' = [session EXCEPT ![s].expired = TRUE]
    /\ UNCHANGED <<logins, stateCookie, redeemed, request, calls, faults, issued, history,
                   verifierVars>>

StateCookieExpires ==
    /\ stateCookie # 0
    /\ stateCookie' = 0
    /\ UNCHANGED <<session, logins, redeemed, request, calls, faults, issued, history, verifierVars>>

\* The control plane dies; the rows are in Postgres.
Crash ==
    /\ Fault("crash")
    /\ request' = [r \in Requests |-> NoRequest]
    /\ check' = [r \in Requests |-> NoCheck]
    /\ keys' = {} /\ fresh' = FALSE /\ excused' = {}
    /\ UNCHANGED <<session, logins, stateCookie, redeemed, calls, issued, history, published,
                   used, rotations, fetchFaults, outdated>>

-----------------------------------------------------------------------------

Arrive(r) ==
    \/ OidcCallback(r) \/ OidcRefresh(r) \/ AuthLogout(r)
    \/ ActorFromCookie(r) \/ ActorFromToken(r)

Advance(r) ==
    \/ ExchangeOIDCToken(r) \/ IDTokenChecked(r) \/ RevokeRefreshed(r) \/ SetOIDCSession(r)
    \/ RevokeLoggedOut(r) \/ BearerChecked(r) \/ Serve(r)
    \/ ActorFromBearer(r) /\ faults + fetchFaults' <= MaxFaults /\ UNCHANGED sessionVars

Next ==
    \/ OidcLogin
    \/ \E r \in Requests : Arrive(r) \/ Advance(r)
    \/ AuthLogoutWithoutSession \/ SessionExpires \/ StateCookieExpires \/ Crash
    \/ Provider /\ UNCHANGED sessionVars

Spec == Init /\ [][Next]_vars

-----------------------------------------------------------------------------
(* Properties *)

TypeOK ==
    /\ VerifierTypeOK
    /\ session \in Seq(Session) /\ Len(session) <= MaxCalls
    /\ logins \in 0..MaxLogins
    /\ stateCookie \in 0..MaxLogins
    /\ redeemed \subseteq Logins
    /\ request \in [Requests -> RequestState]
    /\ calls \in 0..MaxCalls
    /\ faults \in 0..MaxFaults
    /\ issued \subseteq DOMAIN session
    /\ dropped \subseteq DOMAIN session
    /\ contested \subseteq Logins
    /\ loggedOut \subseteq Logins

\* A login leads to one session at a time: refreshes replace it and leave no second
\* one behind, and after a confirmed logout there is none, through failed calls, lost
\* answers and crashes. Only requests that work on the same login at the same time
\* may leave more, which nothing prevents.
OneSessionPerLogin ==
    \A l \in Logins \ contested : Cardinality(Live(l)) <= IF l \in loggedOut THEN 0 ELSE 1

\* Once a refresh or a logout has answered, no request gets through with the session it
\* has replaced or ended, however often the old cookie is replayed.
ReplayRefused ==
    [][\A r \in Requests, s \in dropped : request[r].session # s => request'[r].session # s]_vars
=============================================================================
