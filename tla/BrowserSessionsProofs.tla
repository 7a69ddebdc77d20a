----------------------- MODULE BrowserSessionsProofs -----------------------
(***************************************************************************)
(* Proofs about BrowserSessions and the OIDCVerifier it uses, for every    *)
(* number of logins, requests, faults, keys and rotations.                 *)
(***************************************************************************)
EXTENDS BrowserSessions, FiniteSetTheorems, TLAPS

-----------------------------------------------------------------------------
(* The verifier *)

\* The keys withdrawn before the cache last grew stale are nowhere a verification of
\* today gets its key from.
KeysInv ==
    /\ published \subseteq used /\ outdated \subseteq used /\ published \cap outdated = {}
    /\ fresh => keys \cap outdated = {}
    /\ \A r \in Requests :
         /\ check[r].pc \in {"install", "reinstall"} => check[r].response \cap outdated = {}
         /\ CheckAt(r, "reread") => fresh
         /\ CheckAt(r, "accepted") => check[r].token.key \notin outdated

\* A request that is not excused finds the key of its token among the published ones, in
\* every answer that is still to be installed, and in the cache once it has refreshed it.
Resolved(r) ==
    /\ check[r].token.form = "valid"
    /\ Resolves(published, check[r].token)
    /\ \A q \in Requests :
         check[q].pc \in {"install", "reinstall"} => Resolves(check[q].response, check[r].token)
    /\ CheckAt(r, "reread") => Resolves(keys, check[r].token)
    /\ CheckAt(r, "lookup") /\ check[r].retried => Resolves(keys, check[r].token)
    /\ ~CheckAt(r, "refused")

ExcuseInv == \A r \in Requests : r \notin excused /\ ~CheckAt(r, "idle") => Resolved(r)

VerifierInv == VerifierTypeOK /\ KeysInv /\ ExcuseInv

\* The process starts anew, with an empty cache.
Restart ==
    /\ check' = [r \in Requests |-> NoCheck]
    /\ keys' = {} /\ fresh' = FALSE /\ excused' = {}
    /\ UNCHANGED <<published, used, rotations, fetchFaults, outdated>>

\* What a step of the sessions does to the verifier.
VerifierNext ==
    \/ UNCHANGED verifierVars
    \/ \E r \in Requests, token \in Token : BeginCheck(r, token) /\ UNCHANGED verifierOthers
    \/ \E r \in Requests : EndCheck(r) /\ UNCHANGED verifierOthers
    \/ \E r \in Requests : ActorFromBearer(r)
    \/ Provider
    \/ Restart

-----------------------------------------------------------------------------
LEMMA NoCheckType == NoCheck \in Check /\ NoToken \in Token
  BY KeysAssumption DEF NoCheck, NoToken, Check, Token, JWKS

\* A key that is found is one of those looked at.
LEMMA FoundKey ==
    ASSUME NEW jwks, NEW token, Resolves(jwks, token)
    PROVE  token.key \in jwks
  BY DEF Resolves, KeyFromMap

\* One verification moves.
LEMMA CheckStep ==
    ASSUME VerifierTypeOK, NEW r \in Requests, NEW t \in Check, check' = [check EXCEPT ![r] = t]
    PROVE  /\ check' \in [Requests -> Check]
           /\ check'[r] = t /\ \A q \in Requests : q # r => check'[q] = check[q]
  BY DEF VerifierTypeOK

LEMMA CheckMoves ==
    ASSUME VerifierTypeOK, NEW r \in Requests,
           NEW pc \in {"idle", "lookup", "fetch", "install", "reread", "refetch", "reinstall",
                       "accepted", "refused"}, CheckGoto(r, pc)
    PROVE  \E t \in Check : /\ check' = [check EXCEPT ![r] = t] /\ t.pc = pc
                            /\ t.token = check[r].token /\ t.response = check[r].response
                            /\ t.retried = check[r].retried
  <1> DEFINE t == [check[r] EXCEPT !.pc = pc]
  <1>1. check[r] \in Check /\ check' = [check EXCEPT ![r] = t]
    BY DEF VerifierTypeOK, CheckGoto
  <1>2. t \in Check /\ t.pc = pc /\ t.token = check[r].token /\ t.response = check[r].response
        /\ t.retried = check[r].retried
    BY <1>1 DEF Check
  <1> HIDE DEF t
  <1> QED
    BY <1>1, <1>2

\* A verification that goes on without touching the cache.
LEMMA QuietCheck ==
    ASSUME VerifierInv, NEW r \in Requests, NEW t \in Check, check' = [check EXCEPT ![r] = t],
           ~CheckAt(r, "idle"), t.token = check[r].token,
           excused \subseteq excused', excused' \subseteq Requests,
           fetchFaults' \in 0..MaxFetchFaults,
           UNCHANGED <<published, used, rotations, keys, fresh, outdated>>,
           t.pc \in {"install", "reinstall"} => t.response = published,
           t.pc # "reread", t.pc # "idle",
           t.pc = "accepted" => t.token.key \notin outdated,
           r \notin excused' => /\ t.pc # "refused"
                                /\ t.pc = "lookup" /\ t.retried => Resolves(keys, t.token)
    PROVE  VerifierInv'
  <1>1. /\ check' \in [Requests -> Check]
        /\ check'[r] = t /\ \A q \in Requests : q # r => check'[q] = check[q]
    BY CheckStep DEF VerifierInv
  <1>2. VerifierTypeOK'
    BY <1>1 DEF VerifierInv, VerifierTypeOK
  <1>3. KeysInv'
    BY <1>1 DEF VerifierInv, KeysInv, CheckAt
  <1>4. ASSUME NEW q \in Requests, q \notin excused', check'[q].pc # "idle"
        PROVE  Resolved(q)'
    <2>1. q \notin excused /\ ~CheckAt(q, "idle") /\ check'[q].token = check[q].token
      BY <1>1, <1>4 DEF CheckAt
    <2>2. Resolved(q)
      BY <2>1 DEF VerifierInv, ExcuseInv
    <2>3. \A p \in Requests : check'[p].pc \in {"install", "reinstall"}
                                => Resolves(check'[p].response, check[q].token)
      BY <1>1, <2>2 DEF Resolved
    <2>4. CASE q = r
      BY <1>1, <1>4, <2>1, <2>2, <2>3, <2>4 DEF Resolved, CheckAt
    <2>5. CASE q # r
      BY <1>1, <2>1, <2>2, <2>3, <2>5 DEF Resolved, CheckAt
    <2> QED
      BY <2>4, <2>5
  <1>5. ExcuseInv'
    BY <1>4 DEF ExcuseInv, CheckAt
  <1> QED
    BY <1>2, <1>3, <1>5 DEF VerifierInv

\* The signature is checked under a key that is not outdated, if under one at all.
LEMMA VerifyKeeps ==
    ASSUME VerifierInv, NEW r \in Requests, NEW found, Verify(r, found), ~CheckAt(r, "idle"),
           found = {check[r].token.key} => check[r].token.key \notin outdated,
           r \notin excused /\ check[r].retried => found = {check[r].token.key},
           UNCHANGED <<verifierOthers, excused>>
    PROVE  VerifierInv'
  <1> USE DEF VerifierInv, VerifierTypeOK
  <1>0. check[r] \in Check /\ UNCHANGED <<published, used, rotations, fetchFaults, keys, fresh, outdated>>
    BY DEF verifierOthers
  <1>1. r \notin excused => check[r].token.form = "valid"
    BY DEF ExcuseInv, Resolved
  <1>2. CASE found = {check[r].token.key}
    <2>1. CheckGoto(r, IF check[r].token.form = "valid" THEN "accepted" ELSE "refused")
      BY <1>2 DEF Verify
    <2>2. PICK t \in Check : /\ check' = [check EXCEPT ![r] = t]
                             /\ t.pc = (IF check[r].token.form = "valid" THEN "accepted" ELSE "refused")
                             /\ t.token = check[r].token
      BY <2>1, CheckMoves
    <2> QED
      BY <1>0, <1>1, <1>2, <2>2, QuietCheck
  <1>3. CASE found # {check[r].token.key} /\ ~check[r].retried
    <2> DEFINE t == [check[r] EXCEPT !.pc = "refetch", !.retried = TRUE]
    <2>1. check' = [check EXCEPT ![r] = t]
      BY <1>3 DEF Verify
    <2>2. t \in Check /\ t.pc = "refetch" /\ t.token = check[r].token
      BY <1>0 DEF Check
    <2> HIDE DEF t
    <2> QED
      BY <1>0, <2>1, <2>2, QuietCheck
  <1>4. CASE found # {check[r].token.key} /\ check[r].retried
    <2>1. CheckGoto(r, "refused")
      BY <1>4 DEF Verify
    <2>2. PICK t \in Check : /\ check' = [check EXCEPT ![r] = t] /\ t.pc = "refused"
                             /\ t.token = check[r].token
      BY <2>1, CheckMoves
    <2> QED
      BY <1>0, <1>4, <2>2, QuietCheck
  <1> QED
    BY <1>2, <1>3, <1>4

LEMMA LookupKeeps ==
    ASSUME VerifierInv, NEW r \in Requests, KeyForToken(r)
    PROVE  VerifierInv'
  <1> DEFINE found == CachedKey(check[r].token)
  <1>1. CheckAt(r, "lookup") /\ UNCHANGED <<verifierOthers, excused>> /\ VerifierTypeOK
    BY DEF KeyForToken, VerifierInv
  <1>2. CASE found = {}
    <2>1. CheckGoto(r, "fetch")
      BY <1>2 DEF KeyForToken
    <2>2. PICK t \in Check : /\ check' = [check EXCEPT ![r] = t] /\ t.pc = "fetch"
                             /\ t.token = check[r].token
      BY <1>1, <2>1, CheckMoves
    <2>3. ~CheckAt(r, "idle") /\ excused \subseteq Requests /\ fetchFaults \in 0..MaxFetchFaults
      BY <1>1 DEF CheckAt, VerifierTypeOK
    <2> QED
      BY <1>1, <2>2, <2>3, QuietCheck DEF verifierOthers
  <1>3. CASE found # {}
    <2>1. fresh /\ found = KeyFromMap(keys, check[r].token)
      BY <1>3 DEF CachedKey
    <2>2. found = {check[r].token.key} => check[r].token.key \notin outdated
      BY <2>1, FoundKey DEF VerifierInv, KeysInv, Resolves
    <2>3. r \notin excused /\ check[r].retried => found = {check[r].token.key}
      BY <1>1, <2>1 DEF VerifierInv, ExcuseInv, Resolved, Resolves, CheckAt
    <2>4. Verify(r, found) /\ ~CheckAt(r, "idle")
      BY <1>1, <1>3 DEF KeyForToken, CheckAt
    <2> HIDE DEF found
    <2> QED
      BY <1>1, <2>2, <2>3, <2>4, VerifyKeeps
  <1> QED
    BY <1>2, <1>3

LEMMA RereadKeeps ==
    ASSUME VerifierInv, NEW r \in Requests, RereadKey(r)
    PROVE  VerifierInv'
  <1> DEFINE found == KeyFromMap(keys, check[r].token)
  <1>1. CheckAt(r, "reread") /\ UNCHANGED <<verifierOthers, excused>> /\ VerifierTypeOK /\ fresh
    BY DEF RereadKey, VerifierInv, KeysInv
  <1>2. r \notin excused => found = {check[r].token.key}
    BY <1>1 DEF VerifierInv, ExcuseInv, Resolved, Resolves, CheckAt
  <1>3. CASE found = {}
    <2>1. CheckGoto(r, "refused")
      BY <1>3 DEF RereadKey
    <2>2. PICK t \in Check : /\ check' = [check EXCEPT ![r] = t] /\ t.pc = "refused"
                             /\ t.token = check[r].token
      BY <1>1, <2>1, CheckMoves
    <2>3. ~CheckAt(r, "idle") /\ excused \subseteq Requests /\ fetchFaults \in 0..MaxFetchFaults
      BY <1>1 DEF CheckAt, VerifierTypeOK
    <2> QED
      BY <1>1, <1>2, <1>3, <2>2, <2>3, QuietCheck DEF verifierOthers
  <1>4. CASE found # {}
    <2>1. found = {check[r].token.key} => check[r].token.key \notin outdated
      BY <1>1, FoundKey DEF VerifierInv, KeysInv, Resolves
    <2>2. Verify(r, found) /\ ~CheckAt(r, "idle")
      BY <1>1, <1>4 DEF RereadKey, CheckAt
    <2> HIDE DEF found
    <2> QED
      BY <1>1, <1>2, <2>1, <2>2, VerifyKeeps
  <1> QED
    BY <1>3, <1>4

LEMMA FetchKeeps ==
    ASSUME VerifierInv, NEW r \in Requests, FetchKeys(r)
    PROVE  VerifierInv'
  <1> DEFINE pc == IF CheckAt(r, "fetch") THEN "install" ELSE "reinstall"
             t == [check[r] EXCEPT !.response = published, !.pc = pc]
  <1>1. /\ check[r] \in Check /\ published \in JWKS /\ excused \subseteq Requests
        /\ fetchFaults \in 0..MaxFetchFaults
    BY DEF VerifierInv, VerifierTypeOK
  <1>2. check' = [check EXCEPT ![r] = t]
    BY DEF FetchKeys
  <1>3. pc \in {"install", "reinstall"}
    OBVIOUS
  <1>4. t \in Check /\ t.pc = pc /\ t.token = check[r].token /\ t.response = published
    <2> HIDE DEF pc
    <2> QED
      BY <1>1, <1>3 DEF Check
  <1>5. ~CheckAt(r, "idle") /\ UNCHANGED <<verifierOthers, excused>>
    BY DEF FetchKeys, CheckAt
  <1> HIDE DEF t, pc
  <1> QED
    BY <1>1, <1>2, <1>3, <1>4, <1>5, QuietCheck DEF verifierOthers

LEMMA FetchFailsKeeps ==
    ASSUME VerifierInv, NEW r \in Requests, FetchFails(r)
    PROVE  VerifierInv'
  <1>1. VerifierTypeOK /\ ~CheckAt(r, "idle") /\ excused' = excused \cup {r}
    BY DEF FetchFails, VerifierInv, CheckAt
  <1>2. PICK t \in Check : /\ check' = [check EXCEPT ![r] = t] /\ t.pc \in {"refused", "lookup"}
                           /\ t.token = check[r].token
    BY <1>1, CheckMoves DEF FetchFails
  <1>3. fetchFaults' \in 0..MaxFetchFaults
    BY <1>1, VerifierAssumption DEF FetchFails, VerifierTypeOK
  <1>4. excused \subseteq excused' /\ excused' \subseteq Requests /\ r \in excused'
    BY <1>1 DEF VerifierTypeOK
  <1>5. UNCHANGED <<published, used, rotations, keys, fresh, outdated>>
    BY DEF FetchFails
  <1> QED
    BY <1>1, <1>2, <1>3, <1>4, <1>5, QuietCheck

LEMMA InstallKeeps ==
    ASSUME VerifierInv, NEW r \in Requests, InstallKeys(r)
    PROVE  VerifierInv'
  <1> DEFINE pc == IF CheckAt(r, "install") THEN "reread" ELSE "lookup"
             t == [check[r] EXCEPT !.response = {}, !.pc = pc]
  <1>1. check[r] \in Check /\ VerifierTypeOK
    BY DEF VerifierInv, VerifierTypeOK
  <1>2. check' = [check EXCEPT ![r] = t]
    BY DEF InstallKeys
  <1>3. pc \in {"reread", "lookup"} /\ {} \in JWKS
    BY DEF JWKS
  <1>4. t \in Check /\ t.pc = pc /\ t.token = check[r].token
    <2> HIDE DEF pc
    <2> QED
      BY <1>1, <1>3 DEF Check
  <1>5. /\ check[r].pc \in {"install", "reinstall"} /\ keys' = check[r].response /\ fresh' = TRUE
        /\ UNCHANGED <<published, used, rotations, fetchFaults, excused, outdated>>
    BY DEF InstallKeys
  <1> HIDE DEF t, pc
  <1>6. /\ check' \in [Requests -> Check]
        /\ check'[r] = t /\ \A q \in Requests : q # r => check'[q] = check[q]
    BY <1>1, <1>2, <1>4, CheckStep
  <1>7. keys' \in JWKS
    BY <1>1, <1>5 DEF Check
  <1>8. VerifierTypeOK'
    BY <1>1, <1>5, <1>6, <1>7 DEF VerifierTypeOK
  <1>9. KeysInv'
    BY <1>3, <1>4, <1>5, <1>6 DEF VerifierInv, KeysInv, CheckAt
  <1>10. ASSUME NEW q \in Requests, q \notin excused', check'[q].pc # "idle"
         PROVE  Resolved(q)'
    <2>1. Resolved(q) /\ check'[q].token = check[q].token
      BY <1>4, <1>5, <1>6, <1>10 DEF VerifierInv, ExcuseInv, CheckAt
    <2>2. Resolves(keys', check[q].token)
      BY <1>5, <2>1 DEF Resolved
    <2>3. \A p \in Requests : check'[p].pc \in {"install", "reinstall"}
                                => Resolves(check'[p].response, check[q].token)
      BY <1>3, <1>4, <1>6, <2>1 DEF Resolved
    <2>4. check'[q].pc # "refused"
      BY <1>3, <1>4, <1>6, <2>1 DEF Resolved, CheckAt
    <2> QED
      BY <1>5, <2>1, <2>2, <2>3, <2>4 DEF Resolved, CheckAt
  <1>11. ExcuseInv'
    BY <1>10 DEF ExcuseInv, CheckAt
  <1> QED
    BY <1>8, <1>9, <1>11 DEF VerifierInv

LEMMA BeginKeeps ==
    ASSUME VerifierInv, NEW r \in Requests, NEW token \in Token, BeginCheck(r, token),
           UNCHANGED verifierOthers
    PROVE  VerifierInv'
  <1> DEFINE pc == IF token.form = "malformed" THEN "refused" ELSE "lookup"
             t == [NoCheck EXCEPT !.token = token, !.pc = pc]
  <1>1. VerifierTypeOK /\ UNCHANGED <<published, used, rotations, fetchFaults, keys, fresh, outdated>>
    BY DEF VerifierInv, verifierOthers
  <1>2. check' = [check EXCEPT ![r] = t]
    BY DEF BeginCheck
  <1>3. pc \in {"refused", "lookup"} /\ (pc = "refused" => token.form # "valid")
    OBVIOUS
  <1>4. t \in Check /\ t.pc = pc /\ t.token = token /\ t.retried = FALSE
    <2> HIDE DEF pc
    <2>1. NoCheck \in Check /\ NoCheck.retried = FALSE
      BY NoCheckType DEF NoCheck
    <2> QED
      BY <1>3, <2>1 DEF Check
  <1> HIDE DEF t, pc
  <1>5. /\ check' \in [Requests -> Check]
        /\ check'[r] = t /\ \A q \in Requests : q # r => check'[q] = check[q]
    BY <1>1, <1>2, <1>4, CheckStep
  <1>6. /\ excused' \subseteq Requests /\ excused \ {r} \subseteq excused'
        /\ r \notin excused' => /\ token.form = "valid" /\ Resolves(published, token)
                                /\ \A jwks \in PendingResponses : Resolves(jwks, token)
    BY <1>1 DEF BeginCheck, VerifierTypeOK
  <1>7. VerifierTypeOK'
    BY <1>1, <1>5, <1>6 DEF VerifierTypeOK
  <1>8. KeysInv'
    BY <1>1, <1>3, <1>4, <1>5 DEF VerifierInv, KeysInv, CheckAt
  <1>9. \A p \in Requests : check'[p].pc \in {"install", "reinstall"} =>
                              check[p].pc \in {"install", "reinstall"} /\ check'[p] = check[p]
    BY <1>3, <1>4, <1>5
  <1>10. ASSUME NEW q \in Requests, q \notin excused', check'[q].pc # "idle", q # r
         PROVE  Resolved(q)'
    <2>1. Resolved(q) /\ check'[q] = check[q]
      BY <1>5, <1>6, <1>10 DEF VerifierInv, ExcuseInv, CheckAt
    <2> QED
      BY <1>1, <1>9, <2>1 DEF Resolved, CheckAt
  <1>11. ASSUME r \notin excused'
         PROVE  Resolved(r)'
    <2>1. \A p \in Requests : check[p].pc \in {"install", "reinstall"} => Resolves(check[p].response, token)
      BY <1>6, <1>11 DEF PendingResponses
    <2>2. check'[r].token = token /\ ~check'[r].retried /\ check'[r].pc = "lookup"
      BY <1>3, <1>4, <1>5, <1>6, <1>11
    <2> QED
      BY <1>1, <1>6, <1>9, <1>11, <2>1, <2>2 DEF Resolved, CheckAt
  <1>12. ExcuseInv'
    BY <1>10, <1>11 DEF ExcuseInv, CheckAt
  <1> QED
    BY <1>7, <1>8, <1>12 DEF VerifierInv

LEMMA EndKeeps ==
    ASSUME VerifierInv, NEW r \in Requests, EndCheck(r), UNCHANGED verifierOthers
    PROVE  VerifierInv'
  <1>1. VerifierTypeOK /\ UNCHANGED <<published, used, rotations, fetchFaults, keys, fresh, outdated>>
    BY DEF VerifierInv, verifierOthers
  <1>2. /\ check' \in [Requests -> Check]
        /\ check'[r] = NoCheck /\ \A q \in Requests : q # r => check'[q] = check[q]
    BY <1>1, NoCheckType, CheckStep DEF EndCheck
  <1>3. NoCheck.pc = "idle" /\ excused' = excused \ {r}
    BY DEF NoCheck, EndCheck
  <1>4. VerifierTypeOK'
    BY <1>1, <1>2, <1>3 DEF VerifierTypeOK
  <1>5. KeysInv'
    BY <1>1, <1>2, <1>3 DEF VerifierInv, KeysInv, CheckAt
  <1>6. ASSUME NEW q \in Requests, q \notin excused', check'[q].pc # "idle"
        PROVE  Resolved(q)'
    <2>1. Resolved(q) /\ check'[q] = check[q]
      BY <1>2, <1>3, <1>6 DEF VerifierInv, ExcuseInv, CheckAt
    <2>2. \A p \in Requests : check'[p].pc \in {"install", "reinstall"} =>
                                check[p].pc \in {"install", "reinstall"} /\ check'[p] = check[p]
      BY <1>2, <1>3
    <2> QED
      BY <1>1, <2>1, <2>2 DEF Resolved, CheckAt
  <1>7. ExcuseInv'
    BY <1>6 DEF ExcuseInv, CheckAt
  <1> QED
    BY <1>4, <1>5, <1>7 DEF VerifierInv

\* Keys are published and withdrawn; a key that was ever published is not used again.
LEMMA RotateKeeps ==
    ASSUME VerifierInv, Rotate
    PROVE  VerifierInv'
  <1>1. PICK key \in Keys \ used, jwks \in JWKS :
          /\ rotations < MaxRotations /\ rotations' = rotations + 1
          /\ jwks \subseteq published \cup {key} /\ published' = jwks /\ used' = used \cup jwks
          /\ excused' = excused \cup
               {r \in Requests : ~CheckAt(r, "idle") /\ ~Resolves(jwks, check[r].token)}
          /\ UNCHANGED <<fetchFaults, keys, fresh, check, outdated>>
    BY DEF Rotate
  <1>2. VerifierTypeOK
    BY DEF VerifierInv
  <1>3. jwks \subseteq Keys /\ rotations' \in 0..MaxRotations
    BY <1>1, <1>2, VerifierAssumption DEF JWKS, VerifierTypeOK
  <1>4. VerifierTypeOK'
    BY <1>1, <1>2, <1>3 DEF VerifierTypeOK
  <1>5. KeysInv'
    BY <1>1 DEF VerifierInv, KeysInv, CheckAt
  <1>6. ASSUME NEW q \in Requests, q \notin excused', check'[q].pc # "idle"
        PROVE  Resolved(q)'
    <2>1. Resolved(q) /\ Resolves(published', check[q].token)
      BY <1>1, <1>6 DEF VerifierInv, ExcuseInv, CheckAt
    <2> QED
      BY <1>1, <2>1 DEF Resolved, CheckAt
  <1>7. ExcuseInv'
    BY <1>6 DEF ExcuseInv, CheckAt
  <1> QED
    BY <1>4, <1>5, <1>7 DEF VerifierInv

LEMMA StaleKeeps ==
    ASSUME VerifierInv, CacheGrowsStale
    PROVE  VerifierInv'
  <1>1. /\ \A r \in Requests : check[r].pc \in {"idle", "lookup"}
        /\ fresh' = FALSE /\ outdated' = used \ published
        /\ UNCHANGED <<published, used, rotations, fetchFaults, keys, check, excused>>
    BY DEF CacheGrowsStale
  <1>2. VerifierTypeOK'
    BY <1>1 DEF VerifierInv, VerifierTypeOK
  <1>3. KeysInv'
    BY <1>1 DEF VerifierInv, KeysInv, CheckAt
  <1>4. ExcuseInv'
    BY <1>1 DEF VerifierInv, ExcuseInv, Resolved, CheckAt
  <1> QED
    BY <1>2, <1>3, <1>4 DEF VerifierInv

LEMMA RestartKeeps ==
    ASSUME VerifierInv, Restart
    PROVE  VerifierInv'
  <1>1. /\ \A r \in Requests : check'[r] = NoCheck
        /\ check' \in [Requests -> Check]
    BY NoCheckType DEF Restart
  <1>2. NoCheck.pc = "idle" /\ {} \in JWKS
    BY DEF NoCheck, JWKS
  <1>3. VerifierTypeOK'
    BY <1>1, <1>2 DEF VerifierInv, VerifierTypeOK, Restart
  <1>4. KeysInv'
    BY <1>1, <1>2 DEF VerifierInv, KeysInv, CheckAt, Restart
  <1>5. ExcuseInv'
    BY <1>1, <1>2 DEF ExcuseInv, CheckAt
  <1> QED
    BY <1>3, <1>4, <1>5 DEF VerifierInv

\* Whatever the sessions do, the verifier keeps its invariant.
LEMMA VerifierKeeps ==
    ASSUME VerifierInv, VerifierNext
    PROVE  VerifierInv'
  <1>1. CASE UNCHANGED verifierVars
    BY <1>1 DEF verifierVars, VerifierInv, VerifierTypeOK, KeysInv, ExcuseInv, Resolved, CheckAt
  <1>2. ASSUME NEW r \in Requests, ActorFromBearer(r)
        PROVE  VerifierInv'
    BY <1>2, LookupKeeps, FetchKeeps, FetchFailsKeeps, InstallKeeps, RereadKeeps DEF ActorFromBearer
  <1> QED
    BY <1>1, <1>2, BeginKeeps, EndKeeps, RotateKeeps, StaleKeeps, RestartKeeps
       DEF VerifierNext, Provider

LEMMA VerifierStarts == VerifierInit => VerifierInv
  <1> SUFFICES ASSUME VerifierInit PROVE VerifierInv
    OBVIOUS
  <1>1. {} \in JWKS /\ {FirstKey} \in JWKS /\ NoCheck.pc = "idle"
    BY KeysAssumption DEF JWKS, NoCheck
  <1>2. VerifierTypeOK
    <2>1. 0 \in 0..MaxRotations /\ 0 \in 0..MaxFetchFaults
      BY VerifierAssumption
    <2>2. check \in [Requests -> Check]
      BY NoCheckType DEF VerifierInit
    <2> QED
      BY <1>1, <2>1, <2>2, KeysAssumption DEF VerifierInit, VerifierTypeOK
  <1>3. KeysInv /\ ExcuseInv
    BY <1>1 DEF VerifierInit, KeysInv, ExcuseInv, CheckAt
  <1> QED
    BY <1>2, <1>3 DEF VerifierInv

-----------------------------------------------------------------------------
(* The sessions *)

SessionTypeOK ==
    /\ session \in Seq(Session)
    /\ logins \in 0..MaxLogins /\ stateCookie \in 0..MaxLogins
    /\ redeemed \subseteq Logins
    /\ request \in [Requests -> RequestState]
    /\ calls \in 0..MaxCalls /\ faults \in 0..MaxFaults
    /\ issued \subseteq DOMAIN session /\ dropped \subseteq DOMAIN session
    /\ contested \subseteq Logins /\ loggedOut \subseteq Logins

\* The requests that may still make a session.
Makers == {r \in Requests : request[r].pc \in {"exchange", "verify", "revoke", "insert"}}

CountInv == Len(session) + Cardinality(Makers) <= calls

\* The requests that work on a login are those that end or make a session of it. One
\* with a session belongs to its login; the session is dropped before the new one.
RequestInv == \A r \in Requests :
    /\ request[r].pc \in {"exchange", "verify", "insert", "revoke", "logout"} <=> request[r].login # 0
    /\ At(r, "idle") => request[r].session = 0
    /\ request[r].pc \in {"revoke", "logout"} => request[r].session # 0
    /\ request[r].session = 0 /\ request[r].pc \in {"verify", "insert"} => request[r].login \in redeemed
    /\ request[r].session # 0 /\ request[r].login # 0 =>
         /\ request[r].session \in DOMAIN session
         /\ session[request[r].session].login = request[r].login
         /\ At(r, "insert") => session[request[r].session].revoked

\* A login has a row, or was ended, only after its code was redeemed.
RowsInv ==
    /\ \A s \in DOMAIN session : session[s].login \in redeemed
    /\ loggedOut \subseteq redeemed
    /\ \A s \in dropped : session[s].revoked

\* A login that is not contested has one session or one request about to make it. After
\* its logout only a callback with the code used before is left.
LoginOK(l) ==
    /\ \A r, q \in Working(l) : r = q
    /\ \A s, t \in Live(l) : s = t
    /\ l \in loggedOut => /\ Live(l) = {}
                          /\ \A r \in Working(l) : At(r, "exchange") /\ request[r].session = 0
    /\ \A r \in Working(l) :
         /\ At(r, "insert") \/ (At(r, "verify") /\ request[r].session = 0) => Live(l) = {}
         /\ request[r].session # 0 => Live(l) \subseteq {request[r].session}

LoginInv == \A l \in Logins \ contested : LoginOK(l)

SessionInv == SessionTypeOK /\ CountInv /\ RequestInv /\ RowsInv /\ LoginInv
-----------------------------------------------------------------------------
\* One request moves.
LEMMA RequestStep ==
    ASSUME SessionTypeOK, NEW r \in Requests, NEW q \in RequestState,
           request' = [request EXCEPT ![r] = q]
    PROVE  /\ request' \in [Requests -> RequestState]
           /\ request'[r] = q /\ \A p \in Requests : p # r => request'[p] = request[p]
  BY DEF SessionTypeOK

LEMMA NoRequestType == NoRequest \in RequestState
  BY DEF NoRequest, RequestState

LEMMA RequestAnswered ==
    ASSUME SessionTypeOK, NEW r \in Requests, Answer(r)
    PROVE  /\ request' \in [Requests -> RequestState]
           /\ request'[r] = NoRequest /\ \A p \in Requests : p # r => request'[p] = request[p]
  BY RequestStep, NoRequestType DEF Answer

LEMMA RequestGoes ==
    ASSUME SessionTypeOK, NEW r \in Requests,
           NEW pc \in {"idle", "exchange", "verify", "insert", "revoke", "logout", "bearer", "served"},
           Goto(r, pc)
    PROVE  /\ request' \in [Requests -> RequestState]
           /\ request'[r].pc = pc /\ request'[r].session = request[r].session
           /\ request'[r].login = request[r].login
           /\ \A p \in Requests : p # r => request'[p] = request[p]
  <1> DEFINE q == [request[r] EXCEPT !.pc = pc]
  <1>1. request[r] \in RequestState /\ request' = [request EXCEPT ![r] = q]
    BY DEF SessionTypeOK, Goto
  <1>2. /\ q \in RequestState /\ q.pc = pc /\ q.session = request[r].session
        /\ q.login = request[r].login
    BY <1>1 DEF RequestState
  <1> HIDE DEF q
  <1> QED
    BY <1>1, <1>2, RequestStep

\* A row is marked.
LEMMA RowRevoked ==
    ASSUME SessionTypeOK, NEW s \in DOMAIN session, RevokeOIDCBrowserSession(s)
    PROVE  /\ session' \in Seq(Session) /\ DOMAIN session' = DOMAIN session
           /\ Len(session') = Len(session) /\ session'[s].revoked
           /\ \A t \in DOMAIN session : /\ session'[t].login = session[t].login
                                        /\ session'[t].expired = session[t].expired
                                        /\ t # s => session'[t] = session[t]
  <1> DEFINE row == [session[s] EXCEPT !.revoked = TRUE]
  <1>1. session \in Seq(Session) /\ session[s] \in Session
    BY DEF SessionTypeOK
  <1>2. row \in Session /\ row.revoked /\ row.login = session[s].login /\ row.expired = session[s].expired
    BY <1>1 DEF Session
  <1>3. session' = [session EXCEPT ![s] = row]
    BY DEF RevokeOIDCBrowserSession
  <1> HIDE DEF row
  <1>4. /\ session' \in Seq(Session) /\ DOMAIN session' = DOMAIN session
        /\ Len(session') = Len(session) /\ session'[s] = row
        /\ \A t \in DOMAIN session : t # s => session'[t] = session[t]
    BY <1>1, <1>2, <1>3
  <1> QED
    BY <1>2, <1>4

\* Requests end, or do not work on a login, and rows only cease to count.
LEMMA SettlingKeeps ==
    ASSUME SessionInv, request' \in [Requests -> RequestState],
           \A r \in Requests :
             \/ request'[r] = request[r]
             \/ /\ request'[r].pc \in {"idle", "bearer", "served"} /\ request'[r].login = 0
                /\ request'[r].pc = "idle" => request'[r].session = 0,
           DOMAIN session' = DOMAIN session,
           \A s \in DOMAIN session : /\ session'[s].login = session[s].login
                                     /\ session[s].revoked => session'[s].revoked
                                     /\ session[s].expired => session'[s].expired,
           UNCHANGED <<redeemed, dropped, contested, loggedOut>>
    PROVE  RequestInv' /\ RowsInv' /\ LoginInv'
  <1>1. RequestInv'
    <2> SUFFICES ASSUME NEW r \in Requests
                 PROVE  /\ request'[r].pc \in {"exchange", "verify", "insert", "revoke", "logout"}
                             <=> request'[r].login # 0
                        /\ request'[r].pc = "idle" => request'[r].session = 0
                        /\ request'[r].pc \in {"revoke", "logout"} => request'[r].session # 0
                        /\ request'[r].session = 0 /\ request'[r].pc \in {"verify", "insert"}
                             => request'[r].login \in redeemed
                        /\ request'[r].session # 0 /\ request'[r].login # 0 =>
                             /\ request'[r].session \in DOMAIN session
                             /\ session'[request'[r].session].login = request'[r].login
                             /\ request'[r].pc = "insert" => session'[request'[r].session].revoked
      BY DEF RequestInv, At
    <2>1. CASE request'[r] = request[r]
      BY <2>1 DEF SessionInv, RequestInv, At
    <2>2. CASE request'[r] # request[r]
      BY <2>2
    <2> QED
      BY <2>1, <2>2
  <1>2. RowsInv'
    BY DEF SessionInv, RowsInv, SessionTypeOK
  <1>3. ASSUME NEW l \in Logins \ contested
        PROVE  LoginOK(l)'
    <2>1. LoginOK(l)
      BY DEF SessionInv, LoginInv
    <2>2. \A r \in Working(l)' : r \in Working(l) /\ request'[r] = request[r]
      BY DEF Working, At, Logins
    <2>3. Live(l)' \subseteq Live(l)
      BY DEF Live, IsOIDCBrowserSessionActive, SessionInv, SessionTypeOK, Session
    <2> QED
      BY <2>1, <2>2, <2>3 DEF LoginOK, At
  <1>4. LoginInv'
    BY <1>3 DEF LoginInv
  <1> QED
    BY <1>1, <1>2, <1>4

\* A request that works on a login arrives: with a code, or with a session that counts.
LEMMA ArrivalKeeps ==
    ASSUME SessionInv, NEW r \in Requests, NEW q \in RequestState, At(r, "idle"), q.login \in Logins,
           request' = [request EXCEPT ![r] = q], Contest(q.login),
           \/ q.pc = "exchange" /\ q.session = 0
           \/ /\ q.pc \in {"exchange", "logout"} /\ q.session \in DOMAIN session
              /\ session[q.session].login = q.login /\ IsOIDCBrowserSessionActive(q.session),
           UNCHANGED <<session, redeemed, dropped, loggedOut>>
    PROVE  RequestInv' /\ RowsInv' /\ LoginInv'
  <1>1. /\ request' \in [Requests -> RequestState]
        /\ request'[r] = q /\ \A p \in Requests : p # r => request'[p] = request[p]
    BY RequestStep DEF SessionInv
  <1>2. q.login # 0 /\ 0 \notin DOMAIN session
    BY DEF Logins, SessionInv, SessionTypeOK
  <1>3. RequestInv'
    BY <1>1, <1>2 DEF SessionInv, RequestInv, At
  <1>4. RowsInv'
    BY DEF SessionInv, RowsInv
  <1>5. ASSUME NEW l \in Logins, l \notin contested'
        PROVE  LoginOK(l)'
    <2>1. l \notin contested /\ (l = q.login => Working(l) = {})
      BY <1>5 DEF Contest
    <2>2. LoginOK(l) /\ Live(l)' = Live(l)
      BY <2>1 DEF SessionInv, LoginInv, Live, IsOIDCBrowserSessionActive
    <2>3. CASE l = q.login
      <3>1. Working(l)' = {r}
        BY <1>1, <2>1, <2>3 DEF Working, At
      <3>2. q.session # 0 => q.session \in Live(l)
        BY <1>2, <2>3 DEF Live
      <3>3. q.pc \in {"exchange", "logout"} /\ (q.session = 0 => q.pc = "exchange")
        BY <1>2
      <3>4. /\ \A s, t \in Live(l) : s = t
            /\ l \in loggedOut => Live(l) = {}
        BY <2>2 DEF LoginOK
      <3>5. /\ l \in loggedOut => q.pc = "exchange" /\ q.session = 0
            /\ q.session # 0 => Live(l) \subseteq {q.session}
        BY <3>2, <3>3, <3>4
      <3> QED
        BY <1>1, <2>2, <3>1, <3>3, <3>4, <3>5 DEF LoginOK, At
    <2>4. CASE l # q.login
      <3>1. Working(l)' = Working(l) /\ r \notin Working(l)
        BY <1>1, <2>4 DEF Working, At
      <3>2. \A p \in Working(l) : p \in Requests /\ request'[p] = request[p]
        BY <1>1, <3>1 DEF Working
      <3> QED
        BY <2>2, <3>1, <3>2 DEF LoginOK, At
    <2> QED
      BY <2>3, <2>4
  <1>6. LoginInv'
    BY <1>5 DEF LoginInv
  <1> QED
    BY <1>3, <1>4, <1>6

\* The code of a login is redeemed once, before there is a row of the login.
LEMMA ProgressKeeps ==
    ASSUME SessionInv, NEW r \in Requests, request[r].pc \in {"exchange", "verify"},
           NEW pc \in {"verify", "insert", "revoke"}, Goto(r, pc),
           request[r].session = 0 =>
             /\ pc # "revoke" /\ request[r].login \in redeemed'
             /\ At(r, "exchange") => request[r].login \notin redeemed,
           request[r].session # 0 => pc # "insert",
           redeemed \subseteq redeemed',
           UNCHANGED <<session, dropped, contested, loggedOut>>
    PROVE  RequestInv' /\ RowsInv' /\ LoginInv'
  <1>1. /\ request' \in [Requests -> RequestState]
        /\ request'[r].pc = pc /\ request'[r].session = request[r].session
        /\ request'[r].login = request[r].login
        /\ \A p \in Requests : p # r => request'[p] = request[p]
    BY RequestGoes DEF SessionInv
  <1>2. /\ request[r].pc \in {"exchange", "verify", "insert", "revoke", "logout"} <=> request[r].login # 0
        /\ request[r].session = 0 /\ request[r].pc \in {"verify", "insert"} => request[r].login \in redeemed
        /\ request[r].session # 0 /\ request[r].login # 0 =>
             /\ request[r].session \in DOMAIN session
             /\ session[request[r].session].login = request[r].login
    BY DEF SessionInv, RequestInv
  <1>3. RequestInv'
    <2> SUFFICES ASSUME NEW p \in Requests
                 PROVE  /\ request'[p].pc \in {"exchange", "verify", "insert", "revoke", "logout"}
                             <=> request'[p].login # 0
                        /\ request'[p].pc = "idle" => request'[p].session = 0
                        /\ request'[p].pc \in {"revoke", "logout"} => request'[p].session # 0
                        /\ request'[p].session = 0 /\ request'[p].pc \in {"verify", "insert"}
                             => request'[p].login \in redeemed'
                        /\ request'[p].session # 0 /\ request'[p].login # 0 =>
                             /\ request'[p].session \in DOMAIN session
                             /\ session[request'[p].session].login = request'[p].login
                             /\ request'[p].pc = "insert" => session[request'[p].session].revoked
      BY DEF RequestInv, At
    <2>1. CASE p = r
      BY <1>1, <1>2, <2>1
    <2>2. CASE p # r
      BY <1>1, <2>2 DEF SessionInv, RequestInv, At
    <2> QED
      BY <2>1, <2>2
  <1>4. RowsInv'
    BY DEF SessionInv, RowsInv
  <1>5. ASSUME NEW l \in Logins \ contested
        PROVE  LoginOK(l)'
    <2>1. LoginOK(l) /\ Live(l)' = Live(l)
      BY DEF SessionInv, LoginInv, Live, IsOIDCBrowserSessionActive
    <2>2. Working(l)' = Working(l) /\ r \in Requests /\ ~At(r, "idle")
      BY <1>1 DEF Working, At
    <2>3. CASE request[r].login = l
      <3>1. r \in Working(l) /\ \A p \in Working(l) : p = r
        BY <2>1, <2>2, <2>3 DEF LoginOK, Working
      <3>2. request[r].session = 0 /\ At(r, "exchange") => Live(l) = {} /\ l \notin loggedOut
        BY <2>3 DEF SessionInv, RowsInv, Live
      <3>3. request[r].session = 0 => Live(l) = {} /\ l \notin loggedOut
        BY <2>1, <3>1, <3>2 DEF LoginOK, At
      <3>4. request[r].session # 0 => pc # "insert" /\ Live(l) \subseteq {request[r].session} /\ l \notin loggedOut
        BY <2>1, <3>1 DEF LoginOK
      <3> QED
        BY <1>1, <2>1, <2>2, <3>1, <3>3, <3>4 DEF LoginOK, At
    <2>4. CASE request[r].login # l
      <3>1. \A p \in Working(l) : p \in Requests /\ request'[p] = request[p]
        BY <1>1, <2>4 DEF Working
      <3> QED
        BY <2>1, <2>2, <3>1 DEF LoginOK, At
    <2> QED
      BY <2>3, <2>4
  <1>6. LoginInv'
    BY <1>5 DEF LoginInv
  <1> QED
    BY <1>3, <1>4, <1>6

\* The refresh drops the old session, or the logout ends it.
LEMMA RevokeKeeps ==
    ASSUME SessionInv, NEW r \in Requests, request[r].pc \in {"revoke", "logout"},
           RevokeOIDCBrowserSession(request[r].session),
           \/ /\ At(r, "revoke") /\ Goto(r, "insert")
              /\ UNCHANGED <<dropped, loggedOut>>
           \/ /\ At(r, "logout") /\ Answer(r)
              /\ dropped' = dropped \cup {request[r].session}
              /\ loggedOut' = loggedOut \cup {request[r].login},
           UNCHANGED <<redeemed, contested>>
    PROVE  RequestInv' /\ RowsInv' /\ LoginInv'
  <1> DEFINE s == request[r].session
  <1>1. /\ request[r].login # 0 /\ s # 0 /\ s \in DOMAIN session
        /\ session[s].login = request[r].login
    BY DEF SessionInv, RequestInv
  <1>2. /\ DOMAIN session' = DOMAIN session /\ session'[s].revoked
        /\ \A t \in DOMAIN session : /\ session'[t].login = session[t].login
                                     /\ session'[t].expired = session[t].expired
                                     /\ t # s => session'[t] = session[t]
    BY <1>1, RowRevoked DEF SessionInv
  <1>3. /\ request' \in [Requests -> RequestState]
        /\ \A p \in Requests : p # r => request'[p] = request[p]
        /\ \/ /\ request'[r].pc = "insert" /\ request'[r].session = s
              /\ request'[r].login = request[r].login
              /\ UNCHANGED <<dropped, loggedOut>>
           \/ /\ request'[r].pc = "idle" /\ request'[r].session = 0 /\ request'[r].login = 0
              /\ dropped' = dropped \cup {s} /\ loggedOut' = loggedOut \cup {request[r].login}
    BY RequestGoes, RequestAnswered DEF SessionInv, NoRequest
  <1> HIDE DEF s
  <1>4. RequestInv'
    <2> SUFFICES ASSUME NEW p \in Requests
                 PROVE  /\ request'[p].pc \in {"exchange", "verify", "insert", "revoke", "logout"}
                             <=> request'[p].login # 0
                        /\ request'[p].pc = "idle" => request'[p].session = 0
                        /\ request'[p].pc \in {"revoke", "logout"} => request'[p].session # 0
                        /\ request'[p].session = 0 /\ request'[p].pc \in {"verify", "insert"}
                             => request'[p].login \in redeemed'
                        /\ request'[p].session # 0 /\ request'[p].login # 0 =>
                             /\ request'[p].session \in DOMAIN session'
                             /\ session'[request'[p].session].login = request'[p].login
                             /\ request'[p].pc = "insert" => session'[request'[p].session].revoked
      BY DEF RequestInv, At
    <2>1. CASE p = r
      BY <1>1, <1>2, <1>3, <2>1
    <2>2. CASE p # r
      BY <1>2, <1>3, <2>2 DEF SessionInv, RequestInv, At
    <2> QED
      BY <2>1, <2>2
  <1>5. RowsInv'
    <2>1. dropped \subseteq DOMAIN session /\ request[r].login \in redeemed
      BY <1>1 DEF SessionInv, SessionTypeOK, RowsInv
    <2>2. /\ dropped' \subseteq dropped \cup {s}
          /\ loggedOut' \subseteq loggedOut \cup {request[r].login}
      BY <1>3
    <2>3. \A t \in DOMAIN session : session[t].login \in redeemed
      BY DEF SessionInv, RowsInv
    <2>4. \A t \in dropped : session[t].revoked
      BY DEF SessionInv, RowsInv
    <2>5. \A t \in dropped' : session'[t].revoked
      BY <1>2, <2>1, <2>2, <2>4
    <2> QED
      BY <1>2, <2>1, <2>2, <2>3, <2>5 DEF SessionInv, RowsInv
  <1>6. ASSUME NEW l \in Logins \ contested
        PROVE  LoginOK(l)'
    <2>1. LoginOK(l) /\ Live(l)' \subseteq Live(l) \ {s}
      BY <1>2 DEF SessionInv, LoginInv, Live, IsOIDCBrowserSessionActive
    <2>2. CASE request[r].login = l
      <3>1. r \in Working(l) /\ \A p \in Working(l) : p = r
        BY <2>1, <2>2 DEF LoginOK, Working, At
      <3>2. Live(l) \subseteq {s}
        BY <1>1, <2>1, <3>1 DEF LoginOK, s
      <3>3. Live(l)' = {} /\ Working(l)' \subseteq {r}
        BY <1>3, <2>1, <2>2, <3>1, <3>2 DEF Working, At
      <3>4. l \notin loggedOut
        BY <2>1, <3>1 DEF LoginOK, At
      <3>5. r \in Working(l)' => UNCHANGED loggedOut
        BY <1>3 DEF Working, At
      <3> QED
        BY <3>3, <3>4, <3>5 DEF LoginOK
    <2>3. CASE request[r].login # l
      <3>1. Working(l)' = Working(l) /\ \A p \in Working(l) : request'[p] = request[p]
        BY <1>3, <2>3 DEF Working, At, Logins
      <3>2. l \in loggedOut' => l \in loggedOut
        BY <1>3, <2>3
      <3> QED
        BY <2>1, <3>1, <3>2 DEF LoginOK, At
    <2> QED
      BY <2>2, <2>3
  <1>7. LoginInv'
    BY <1>6 DEF LoginInv
  <1> QED
    BY <1>4, <1>5, <1>7

\* The row of a new session.
LEMMA RowMade ==
    ASSUME SessionTypeOK, NEW login \in Logins, UpsertOIDCBrowserSession(login)
    PROVE  /\ session' \in Seq(Session) /\ Len(session') = Len(session) + 1
           /\ DOMAIN session' = DOMAIN session \cup {Len(session')}
           /\ Len(session') \notin DOMAIN session /\ session'[Len(session')].login = login
           /\ \A t \in DOMAIN session : session'[t] = session[t]
  <1> DEFINE row == [login |-> login, revoked |-> FALSE, expired |-> FALSE]
  <1>1. row \in Session /\ row.login = login /\ session \in Seq(Session)
    BY DEF Session, SessionTypeOK
  <1>2. session' = Append(session, row)
    BY DEF UpsertOIDCBrowserSession
  <1> HIDE DEF row
  <1> QED
    BY <1>1, <1>2

LEMMA InsertKeeps ==
    ASSUME SessionInv, NEW r \in Requests, At(r, "insert"), Answer(r),
           UpsertOIDCBrowserSession(request[r].login),
           dropped' = dropped \cup ({request[r].session} \ {0}),
           UNCHANGED <<redeemed, contested, loggedOut>>
    PROVE  RequestInv' /\ RowsInv' /\ LoginInv'
  <1> DEFINE n == Len(session')
             s == request[r].session
             login == request[r].login
  <1>1. /\ login # 0 /\ login \in Logins
        /\ s = 0 => login \in redeemed
        /\ s # 0 => s \in DOMAIN session /\ session[s].login = login /\ session[s].revoked
    BY DEF SessionInv, RequestInv, SessionTypeOK, RequestState, At
  <1>2. /\ DOMAIN session' = DOMAIN session \cup {n} /\ n \notin DOMAIN session
        /\ session'[n].login = login /\ \A t \in DOMAIN session : session'[t] = session[t]
    BY <1>1, RowMade DEF SessionInv
  <1>3. /\ request' \in [Requests -> RequestState]
        /\ request'[r].pc = "idle" /\ request'[r].session = 0 /\ request'[r].login = 0
        /\ \A p \in Requests : p # r => request'[p] = request[p]
    BY RequestAnswered DEF SessionInv, NoRequest
  <1>4. dropped' = dropped \cup ({s} \ {0})
    OBVIOUS
  <1>5. r \in Working(login)
    BY DEF Working, At
  <1> HIDE DEF n, s, login
  <1>6. RequestInv'
    BY <1>2, <1>3 DEF SessionInv, RequestInv, At
  <1>7. RowsInv'
    <2>1. dropped \subseteq DOMAIN session /\ RowsInv
      BY DEF SessionInv, SessionTypeOK
    <2>2. login \in redeemed
      BY <1>1, <2>1 DEF RowsInv
    <2> QED
      BY <1>1, <1>2, <1>4, <2>1, <2>2 DEF RowsInv
  <1>8. ASSUME NEW l \in Logins \ contested
        PROVE  LoginOK(l)'
    <2>1. LoginOK(l) /\ Live(l)' \subseteq IF l = login THEN Live(l) \cup {n} ELSE Live(l)
      BY <1>2 DEF SessionInv, LoginInv, Live, IsOIDCBrowserSessionActive
    <2>2. CASE l = login
      <3>1. r \in Working(l) /\ \A p \in Working(l) : p = r
        BY <1>5, <2>1, <2>2 DEF LoginOK
      <3>2. Live(l) = {} /\ l \notin loggedOut
        BY <2>1, <3>1 DEF LoginOK, At
      <3>3. Working(l)' = {}
        BY <1>3, <3>1 DEF Working, At
      <3> QED
        BY <2>1, <2>2, <3>2, <3>3 DEF LoginOK
    <2>3. CASE l # login
      <3>1. Working(l)' = Working(l) /\ \A p \in Working(l) : request'[p] = request[p]
        BY <1>3, <2>3 DEF Working, At, Logins, login
      <3> QED
        BY <2>1, <2>3, <3>1 DEF LoginOK, At
    <2> QED
      BY <2>2, <2>3
  <1>9. LoginInv'
    BY <1>8 DEF LoginInv
  <1> QED
    BY <1>6, <1>7, <1>9

-----------------------------------------------------------------------------
\* Requests begun are counted before the sessions they make.
LEMMA MakersFinite ==
    ASSUME SessionTypeOK
    PROVE  IsFiniteSet(Makers) /\ Cardinality(Makers) \in Nat
  <1>1. IsFiniteSet(Requests)
    BY VerifierAssumption, FS_Interval DEF Requests
  <1>2. IsFiniteSet(Makers)
    BY <1>1, FS_Subset DEF Makers
  <1> QED
    BY <1>2, FS_CardinalityType

LEMMA CountKept ==
    ASSUME SessionTypeOK, CountInv, NEW r \in Requests, session' \in Seq(Session), calls' \in Nat,
           \/ Len(session') = Len(session) /\ Makers' \subseteq Makers /\ calls' >= calls
           \/ Len(session') = Len(session) /\ Makers' \subseteq Makers \cup {r} /\ calls' = calls + 1
           \/ /\ Len(session') = Len(session) + 1 /\ calls' = calls
              /\ r \in Makers /\ Makers' \subseteq Makers \ {r}
    PROVE  CountInv'
  <1> DEFINE n == Len(session)
             m == Cardinality(Makers)
  <1>1. n \in Nat /\ m \in Nat /\ calls \in Nat /\ IsFiniteSet(Makers) /\ n + m <= calls
    BY MakersFinite DEF SessionTypeOK, CountInv
  <1>2. PICK n1 \in Nat, c1 \in Nat : n1 = Len(session') /\ c1 = calls'
    OBVIOUS
  <1> DEFINE S == Makers'
  <1>3. CASE n1 = n /\ S \subseteq Makers /\ c1 >= calls
    <2>1. Cardinality(S) \in Nat /\ Cardinality(S) <= m
      BY <1>1, <1>3, FS_Subset, FS_CardinalityType
    <2> HIDE DEF n, m, S
    <2>2. n1 + Cardinality(S) <= c1
      BY <1>1, <1>3, <2>1
    <2> QED
      BY <1>2, <2>2 DEF CountInv, S
  <1>4. CASE n1 = n /\ S \subseteq Makers \cup {r} /\ c1 = calls + 1
    <2>1. /\ IsFiniteSet(Makers \cup {r}) /\ Cardinality(Makers \cup {r}) <= m + 1
          /\ Cardinality(Makers \cup {r}) \in Nat
      <3>1. IsFiniteSet(Makers \cup {r})
            /\ Cardinality(Makers \cup {r}) = IF r \in Makers THEN m ELSE m + 1
        BY <1>1, FS_AddElement
      <3> QED
        BY <1>1, <3>1
    <2>2. Cardinality(S) \in Nat /\ Cardinality(S) <= Cardinality(Makers \cup {r})
      BY <1>4, <2>1, FS_Subset, FS_CardinalityType
    <2> HIDE DEF n, m, S
    <2>3. n1 + Cardinality(S) <= c1
      BY <1>1, <1>4, <2>1, <2>2
    <2> QED
      BY <1>2, <2>3 DEF CountInv, S
  <1>5. CASE n1 = n + 1 /\ r \in Makers /\ S \subseteq Makers \ {r} /\ c1 = calls
    <2>1. IsFiniteSet(Makers \ {r}) /\ Cardinality(Makers \ {r}) = m - 1
      BY <1>1, <1>5, FS_RemoveElement
    <2>2. Cardinality(S) \in Nat /\ Cardinality(S) <= m - 1
      BY <1>5, <2>1, FS_Subset, FS_CardinalityType
    <2> HIDE DEF n, m, S
    <2>3. n1 + Cardinality(S) <= c1
      BY <1>1, <1>5, <2>2
    <2> QED
      BY <1>2, <2>3 DEF CountInv, S
  <1> QED
    BY <1>2, <1>3, <1>4, <1>5

\* There are fewer rows than requests.
LEMMA RowsBounded == SessionTypeOK /\ CountInv => Len(session) <= MaxCalls /\ DOMAIN session \subseteq Sessions
  <1> SUFFICES ASSUME SessionTypeOK, CountInv PROVE Len(session) <= MaxCalls /\ DOMAIN session \subseteq Sessions
    OBVIOUS
  <1>1. /\ Len(session) \in Nat /\ DOMAIN session = 1..Len(session)
        /\ MaxCalls \in Nat /\ calls \in Nat /\ calls <= MaxCalls
    BY SessionBounds DEF SessionTypeOK
  <1>2. PICK m \in Nat : m = Cardinality(Makers)
    BY MakersFinite
  <1>3. Len(session) + m <= calls
    BY <1>2 DEF CountInv
  <1> QED
    BY <1>1, <1>3 DEF Sessions

LEMMA FaultType ==
    ASSUME VerifierTypeOK, SessionTypeOK, NEW kind, Fault(kind)
    PROVE  faults' \in 0..MaxFaults
  <1>1. faults \in Nat /\ fetchFaults \in Nat /\ MaxFaults \in Nat
    BY SessionBounds DEF VerifierTypeOK, SessionTypeOK
  <1> QED
    BY <1>1 DEF Fault

LEMMA BeginType ==
    ASSUME SessionTypeOK, NEW r \in Requests, Begin(r)
    PROVE  At(r, "idle") /\ calls' \in 0..MaxCalls /\ calls' = calls + 1
  BY SessionBounds DEF Begin, SessionTypeOK

LEMMA SettlingStep ==
    ASSUME SessionInv, request' \in [Requests -> RequestState],
           \A r \in Requests :
             \/ request'[r] = request[r]
             \/ /\ request'[r].pc \in {"idle", "bearer", "served"} /\ request'[r].login = 0
                /\ request'[r].pc = "idle" => request'[r].session = 0,
           session' \in Seq(Session), DOMAIN session' = DOMAIN session, Len(session') = Len(session),
           \A s \in DOMAIN session : /\ session'[s].login = session[s].login
                                     /\ session[s].revoked => session'[s].revoked
                                     /\ session[s].expired => session'[s].expired,
           logins' \in 0..MaxLogins, stateCookie' \in 0..MaxLogins,
           calls' \in 0..MaxCalls, calls' = calls \/ calls' = calls + 1, faults' \in 0..MaxFaults,
           UNCHANGED <<redeemed, issued, dropped, contested, loggedOut>>
    PROVE  SessionInv'
  <1>1. SessionTypeOK'
    BY DEF SessionInv, SessionTypeOK
  <1>2. Makers' \subseteq Makers
    BY DEF Makers
  <1>3. CountInv'
    <2>1. calls \in Nat /\ calls' \in Nat /\ calls' >= calls /\ 1 \in Requests
      BY SessionBounds, VerifierAssumption DEF SessionInv, SessionTypeOK, Requests
    <2> QED
      BY <1>2, <2>1, CountKept DEF SessionInv
  <1> QED
    BY <1>1, <1>3, SettlingKeeps DEF SessionInv

LEMMA AnswerStep ==
    ASSUME SessionInv, NEW r \in Requests, Answer(r), faults' \in 0..MaxFaults,
           UNCHANGED <<session, logins, stateCookie, redeemed, calls, issued, history>>
    PROVE  SessionInv'
  <1>1. /\ request' \in [Requests -> RequestState]
        /\ request'[r] = NoRequest /\ \A p \in Requests : p # r => request'[p] = request[p]
    BY RequestAnswered DEF SessionInv
  <1>2. NoRequest.pc = "idle" /\ NoRequest.session = 0 /\ NoRequest.login = 0
    BY DEF NoRequest
  <1>3. /\ session \in Seq(Session) /\ logins \in 0..MaxLogins /\ stateCookie \in 0..MaxLogins
        /\ calls \in 0..MaxCalls
    BY DEF SessionInv, SessionTypeOK
  <1>4. UNCHANGED <<dropped, contested, loggedOut>>
    BY DEF history
  <1> QED
    BY <1>1, <1>2, <1>3, <1>4, SettlingStep

LEMMA ArrivalStep ==
    ASSUME SessionInv, NEW r \in Requests, NEW q \in RequestState, Begin(r), q.login \in Logins,
           request' = [request EXCEPT ![r] = q], Contest(q.login),
           \/ q.pc = "exchange" /\ q.session = 0
           \/ /\ q.pc \in {"exchange", "logout"} /\ q.session \in DOMAIN session
              /\ session[q.session].login = q.login /\ IsOIDCBrowserSessionActive(q.session),
           faults' \in 0..MaxFaults,
           UNCHANGED <<session, logins, stateCookie, redeemed, issued, dropped, loggedOut>>
    PROVE  SessionInv'
  <1>1. /\ request' \in [Requests -> RequestState]
        /\ \A p \in Requests : p # r => request'[p] = request[p]
    BY RequestStep DEF SessionInv
  <1>2. At(r, "idle") /\ calls' \in 0..MaxCalls /\ calls' = calls + 1
    BY BeginType DEF SessionInv
  <1>3. SessionTypeOK'
    BY <1>1, <1>2 DEF SessionInv, SessionTypeOK, Contest
  <1>4. Makers' \subseteq Makers \cup {r}
    BY <1>1 DEF Makers
  <1>5. CountInv'
    <2>1. calls' \in Nat /\ session' \in Seq(Session) /\ Len(session') = Len(session)
      BY <1>2 DEF SessionInv, SessionTypeOK
    <2> QED
      BY <1>2, <1>4, <2>1, CountKept DEF SessionInv
  <1> QED
    BY <1>2, <1>3, <1>5, ArrivalKeeps DEF SessionInv

LEMMA ProgressStep ==
    ASSUME SessionInv, NEW r \in Requests, request[r].pc \in {"exchange", "verify"},
           NEW pc \in {"verify", "insert", "revoke"}, Goto(r, pc),
           request[r].session = 0 =>
             /\ pc # "revoke" /\ request[r].login \in redeemed'
             /\ At(r, "exchange") => request[r].login \notin redeemed,
           request[r].session # 0 => pc # "insert",
           redeemed \subseteq redeemed', redeemed' \subseteq Logins,
           UNCHANGED <<session, logins, stateCookie, calls, faults, issued, history>>
    PROVE  SessionInv'
  <1>1. /\ request' \in [Requests -> RequestState]
        /\ \A p \in Requests : p # r => request'[p] = request[p]
    BY RequestGoes DEF SessionInv
  <1>2. UNCHANGED <<dropped, contested, loggedOut>>
    BY DEF history
  <1>3. SessionTypeOK'
    BY <1>1, <1>2 DEF SessionInv, SessionTypeOK
  <1>4. Makers' \subseteq Makers
    BY <1>1 DEF Makers
  <1>5. CountInv'
    <2>1. calls' \in Nat /\ calls' >= calls /\ session' \in Seq(Session) /\ Len(session') = Len(session)
      BY DEF SessionInv, SessionTypeOK
    <2> QED
      BY <1>4, <2>1, CountKept DEF SessionInv
  <1> QED
    BY <1>2, <1>3, <1>5, ProgressKeeps DEF SessionInv

LEMMA RevokeStep ==
    ASSUME SessionInv, NEW r \in Requests, request[r].pc \in {"revoke", "logout"},
           RevokeOIDCBrowserSession(request[r].session),
           \/ /\ At(r, "revoke") /\ Goto(r, "insert")
              /\ UNCHANGED <<dropped, loggedOut>>
           \/ /\ At(r, "logout") /\ Answer(r)
              /\ dropped' = dropped \cup {request[r].session}
              /\ loggedOut' = loggedOut \cup {request[r].login},
           stateCookie' \in 0..MaxLogins,
           UNCHANGED <<logins, redeemed, calls, faults, issued, contested>>
    PROVE  SessionInv'
  <1>1. /\ request[r].session \in DOMAIN session /\ request[r].login \in Logins
    BY DEF SessionInv, RequestInv, SessionTypeOK, RequestState
  <1>2. /\ session' \in Seq(Session) /\ DOMAIN session' = DOMAIN session /\ Len(session') = Len(session)
    BY <1>1, RowRevoked DEF SessionInv
  <1>3. /\ request' \in [Requests -> RequestState]
        /\ \A p \in Requests : p # r => request'[p] = request[p]
        /\ request'[r].pc \in {"insert", "idle"} /\ (request'[r].pc = "insert" => At(r, "revoke"))
    BY RequestGoes, RequestAnswered DEF SessionInv, NoRequest
  <1>4. SessionTypeOK'
    BY <1>1, <1>2, <1>3 DEF SessionInv, SessionTypeOK
  <1>5. Makers' \subseteq Makers
    BY <1>3 DEF Makers, At
  <1>6. CountInv'
    <2>1. calls' \in Nat /\ calls' >= calls
      BY DEF SessionInv, SessionTypeOK
    <2> QED
      BY <1>2, <1>5, <2>1, CountKept DEF SessionInv
  <1> QED
    BY <1>4, <1>6, RevokeKeeps DEF SessionInv

LEMMA InsertStep ==
    ASSUME SessionInv, NEW r \in Requests, At(r, "insert"), Answer(r),
           UpsertOIDCBrowserSession(request[r].login),
           dropped' = dropped \cup ({request[r].session} \ {0}),
           issued' \in {issued, issued \cup {Len(session')}}, stateCookie' \in 0..MaxLogins,
           UNCHANGED <<logins, redeemed, calls, faults, contested, loggedOut>>
    PROVE  SessionInv'
  <1>1. /\ request[r].login \in Logins
        /\ request[r].session # 0 => request[r].session \in DOMAIN session
    BY DEF SessionInv, RequestInv, SessionTypeOK, RequestState, At
  <1>2. /\ session' \in Seq(Session) /\ Len(session') = Len(session) + 1
        /\ DOMAIN session' = DOMAIN session \cup {Len(session')}
    BY <1>1, RowMade DEF SessionInv
  <1>3. /\ request' \in [Requests -> RequestState]
        /\ \A p \in Requests : p # r => request'[p] = request[p]
        /\ request'[r].pc = "idle"
    BY RequestAnswered DEF SessionInv, NoRequest
  <1>4. SessionTypeOK'
    BY <1>1, <1>2, <1>3 DEF SessionInv, SessionTypeOK
  <1>5. r \in Makers /\ Makers' \subseteq Makers \ {r}
    BY <1>3 DEF Makers, At
  <1>6. CountInv'
    <2>1. calls' \in Nat /\ calls' = calls
      BY DEF SessionInv, SessionTypeOK
    <2> QED
      BY <1>2, <1>5, <2>1, CountKept DEF SessionInv
  <1> QED
    BY <1>4, <1>6, InsertKeeps DEF SessionInv

-----------------------------------------------------------------------------
(* The actions of the sessions *)

\* A cookie that passes is that of a row that counts.
LEMMA CookiePasses ==
    ASSUME VerifierTypeOK, SessionInv, NEW s \in issued, VerifyOIDCSession(s, TRUE)
    PROVE  /\ s \in DOMAIN session /\ s \in Sessions /\ s # 0 /\ IsOIDCBrowserSessionActive(s)
           /\ session[s].login \in Logins /\ faults' \in 0..MaxFaults
  <1>1. s \in DOMAIN session /\ session \in Seq(Session) /\ faults \in 0..MaxFaults
    BY DEF SessionInv, SessionTypeOK
  <1>2. s \in Sessions /\ s # 0
    BY <1>1, RowsBounded DEF SessionInv, Sessions
  <1>3. session[s] \in Session
    BY <1>1
  <1> QED
    BY <1>1, <1>2, <1>3 DEF VerifyOIDCSession, Found, Session

LEMMA CallbackKeeps ==
    ASSUME VerifierTypeOK, SessionInv, NEW r \in Requests, OidcCallback(r)
    PROVE  SessionInv'
  <1>1. PICK st \in 1..logins :
          /\ Begin(r) /\ Contest(st)
          /\ request' = [request EXCEPT ![r] = [NoRequest EXCEPT !.pc = "exchange", !.login = st]]
          /\ UNCHANGED <<session, logins, stateCookie, redeemed, faults, issued, dropped, loggedOut>>
    BY DEF OidcCallback
  <1> DEFINE q == [NoRequest EXCEPT !.pc = "exchange", !.login = st]
  <1>2. st \in Logins /\ faults \in 0..MaxFaults
    BY SessionBounds DEF SessionInv, SessionTypeOK, Logins
  <1>3. q \in RequestState /\ q.pc = "exchange" /\ q.login = st /\ q.session = 0
    BY <1>2 DEF NoRequest, RequestState
  <1>4. request' = [request EXCEPT ![r] = q]
    BY <1>1
  <1> HIDE DEF q
  <1> QED
    BY <1>1, <1>2, <1>3, <1>4, ArrivalStep

LEMMA CookieArrives ==
    ASSUME VerifierTypeOK, SessionInv, NEW r \in Requests, NEW s \in issued,
           NEW pc \in {"exchange", "logout"}, Begin(r), VerifyOIDCSession(s, TRUE),
           request' = [request EXCEPT ![r] = [pc |-> pc, session |-> s, login |-> session[s].login]],
           Contest(session[s].login),
           UNCHANGED <<session, logins, stateCookie, redeemed, issued, dropped, loggedOut>>
    PROVE  SessionInv'
  <1> DEFINE q == [pc |-> pc, session |-> s, login |-> session[s].login]
  <1>1. /\ s \in DOMAIN session /\ s \in Sessions /\ IsOIDCBrowserSessionActive(s)
        /\ session[s].login \in Logins /\ faults' \in 0..MaxFaults
    BY CookiePasses
  <1>2. q \in RequestState /\ q.pc = pc /\ q.login = session[s].login /\ q.session = s
    BY <1>1 DEF RequestState
  <1>3. request' = [request EXCEPT ![r] = q]
    OBVIOUS
  <1> HIDE DEF q
  <1> QED
    BY <1>1, <1>2, <1>3, ArrivalStep

LEMMA ExchangeKeeps ==
    ASSUME SessionInv, NEW r \in Requests, ExchangeOIDCToken(r)
    PROVE  SessionInv'
  <1> DEFINE st == request[r].login
             login == request[r].session = 0
  <1>1. /\ At(r, "exchange") /\ UNCHANGED <<session, logins, stateCookie, calls, faults, issued, history>>
        /\ \/ /\ login => st \notin redeemed
              /\ redeemed' = IF login THEN redeemed \cup {st} ELSE redeemed
              /\ Goto(r, "verify")
           \/ ~login /\ Goto(r, "revoke") /\ UNCHANGED redeemed
           \/ Answer(r) /\ UNCHANGED redeemed
    BY DEF ExchangeOIDCToken
  <1>2. st \in Logins /\ redeemed \subseteq Logins /\ faults \in 0..MaxFaults
    BY <1>1 DEF SessionInv, RequestInv, SessionTypeOK, RequestState, At
  <1>3. CASE /\ login => st \notin redeemed
             /\ redeemed' = IF login THEN redeemed \cup {st} ELSE redeemed
             /\ Goto(r, "verify")
    <2>1. redeemed \subseteq redeemed' /\ redeemed' \subseteq Logins /\ (login => st \in redeemed')
      BY <1>2, <1>3
    <2> QED
      BY <1>1, <1>3, <2>1, ProgressStep DEF At
  <1>4. CASE ~login /\ Goto(r, "revoke") /\ UNCHANGED redeemed
    BY <1>1, <1>2, <1>4, ProgressStep DEF At
  <1>5. CASE Answer(r) /\ UNCHANGED redeemed
    BY <1>1, <1>2, <1>5, AnswerStep
  <1> QED
    BY <1>1, <1>3, <1>4, <1>5

LEMMA IDTokenKeeps ==
    ASSUME SessionInv, NEW r \in Requests, IDTokenChecked(r)
    PROVE  SessionInv'
  <1>1. /\ At(r, "verify")
        /\ UNCHANGED <<session, logins, stateCookie, redeemed, calls, faults, issued, history>>
        /\ \/ Goto(r, IF request[r].session = 0 THEN "insert" ELSE "revoke")
           \/ Answer(r)
    BY DEF IDTokenChecked
  <1>2. /\ request[r].session = 0 => request[r].login \in redeemed
        /\ redeemed \subseteq Logins /\ faults \in 0..MaxFaults
    BY <1>1 DEF SessionInv, RequestInv, SessionTypeOK, At
  <1>3. CASE Goto(r, "insert") /\ request[r].session = 0
    BY <1>1, <1>2, <1>3, ProgressStep DEF At
  <1>4. CASE Goto(r, "revoke") /\ request[r].session # 0
    BY <1>1, <1>2, <1>4, ProgressStep DEF At
  <1>5. CASE Answer(r)
    BY <1>1, <1>2, <1>5, AnswerStep
  <1> QED
    BY <1>1, <1>3, <1>4, <1>5

LEMMA RefreshedKeeps ==
    ASSUME VerifierTypeOK, SessionInv, NEW r \in Requests, RevokeRefreshed(r)
    PROVE  SessionInv'
  <1>1. /\ At(r, "revoke") /\ UNCHANGED <<logins, stateCookie, redeemed, calls, issued, history>>
        /\ stateCookie \in 0..MaxLogins
    BY DEF RevokeRefreshed, SessionInv, SessionTypeOK
  <1>2. CASE RevokeOIDCBrowserSession(request[r].session) /\ Goto(r, "insert") /\ UNCHANGED faults
    BY <1>1, <1>2, RevokeStep DEF At, history
  <1>3. CASE Fault("store") /\ Answer(r) /\ UNCHANGED session
    BY <1>1, <1>3, FaultType, AnswerStep DEF SessionInv
  <1> QED
    BY <1>2, <1>3 DEF RevokeRefreshed

LEMMA LoggedOutKeeps ==
    ASSUME VerifierTypeOK, SessionInv, NEW r \in Requests, RevokeLoggedOut(r)
    PROVE  SessionInv'
  <1>1. /\ At(r, "logout") /\ Answer(r) /\ UNCHANGED <<logins, redeemed, calls, issued, contested>>
        /\ 0 \in 0..MaxLogins
    BY SessionBounds DEF RevokeLoggedOut
  <1>2. CASE /\ RevokeOIDCBrowserSession(request[r].session) /\ stateCookie' = 0
             /\ loggedOut' = loggedOut \cup {request[r].login}
             /\ dropped' = dropped \cup {request[r].session} /\ UNCHANGED faults
    BY <1>1, <1>2, RevokeStep DEF At
  <1>3. CASE Fault("store") /\ UNCHANGED <<session, stateCookie, loggedOut, dropped>>
    BY <1>1, <1>3, FaultType, AnswerStep DEF SessionInv, history
  <1> QED
    BY <1>2, <1>3 DEF RevokeLoggedOut

LEMMA SetKeeps ==
    ASSUME VerifierTypeOK, SessionInv, NEW r \in Requests, SetOIDCSession(r)
    PROVE  SessionInv'
  <1>1. /\ At(r, "insert") /\ Answer(r) /\ UNCHANGED <<logins, redeemed, calls, contested, loggedOut>>
        /\ 0 \in 0..MaxLogins /\ stateCookie \in 0..MaxLogins
    BY SessionBounds DEF SetOIDCSession, SessionInv, SessionTypeOK
  <1>2. CASE /\ UpsertOIDCBrowserSession(request[r].login)
             /\ dropped' = dropped \cup ({request[r].session} \ {0})
             /\ issued' \in {issued, issued \cup {Len(session')}}
             /\ stateCookie' = (IF request[r].session = 0 /\ issued' # issued THEN 0 ELSE stateCookie)
             /\ UNCHANGED faults
    BY <1>1, <1>2, InsertStep
  <1>3. CASE Fault("store") /\ UNCHANGED <<session, dropped, issued, stateCookie>>
    BY <1>1, <1>3, FaultType, AnswerStep DEF SessionInv, history
  <1> QED
    BY <1>2, <1>3 DEF SetOIDCSession

\* A request that does not work on a login goes from one place to another.
LEMMA BystanderKeeps ==
    ASSUME SessionInv, NEW r \in Requests, NEW q \in RequestState,
           request' = [request EXCEPT ![r] = q],
           q.pc \in {"bearer", "served"}, q.login = 0,
           calls' \in 0..MaxCalls, calls' = calls \/ calls' = calls + 1, faults' \in 0..MaxFaults,
           UNCHANGED <<session, logins, stateCookie, redeemed, issued, history>>
    PROVE  SessionInv'
  <1>1. /\ request' \in [Requests -> RequestState]
        /\ request'[r] = q /\ \A p \in Requests : p # r => request'[p] = request[p]
    BY RequestStep DEF SessionInv
  <1>2. /\ session \in Seq(Session) /\ logins \in 0..MaxLogins /\ stateCookie \in 0..MaxLogins
    BY DEF SessionInv, SessionTypeOK
  <1>3. UNCHANGED <<dropped, contested, loggedOut>>
    BY DEF history
  <1> QED
    BY <1>1, <1>2, <1>3, SettlingStep

LEMMA CookieServedKeeps ==
    ASSUME VerifierTypeOK, SessionInv, NEW r \in Requests, ActorFromCookie(r)
    PROVE  SessionInv'
  <1>1. PICK s \in issued :
          /\ Begin(r) /\ VerifyOIDCSession(s, TRUE)
          /\ request' = [request EXCEPT ![r] = [NoRequest EXCEPT !.pc = "served", !.session = s]]
          /\ UNCHANGED <<session, logins, stateCookie, redeemed, issued, history>>
    BY DEF ActorFromCookie
  <1> DEFINE q == [NoRequest EXCEPT !.pc = "served", !.session = s]
  <1>2. s \in Sessions /\ faults' \in 0..MaxFaults
    BY <1>1, CookiePasses
  <1>3. q \in RequestState /\ q.pc = "served" /\ q.login = 0
    BY <1>2 DEF NoRequest, RequestState
  <1>4. request' = [request EXCEPT ![r] = q]
    BY <1>1
  <1> HIDE DEF q
  <1> QED
    BY <1>1, <1>2, <1>3, <1>4, BeginType, BystanderKeeps DEF SessionInv

\* A request that does not work on a login has none.
LEMMA BystanderGoes ==
    ASSUME SessionInv, NEW r \in Requests, request[r].pc \in {"idle", "bearer", "served"},
           NEW pc \in {"bearer", "served"}, Goto(r, pc)
    PROVE  \E q \in RequestState : /\ request' = [request EXCEPT ![r] = q]
                                   /\ q.pc = pc /\ q.login = 0
  <1> DEFINE q == [request[r] EXCEPT !.pc = pc]
  <1>1. request[r] \in RequestState /\ request[r].login = 0 /\ request' = [request EXCEPT ![r] = q]
    BY DEF SessionInv, SessionTypeOK, RequestInv, Goto
  <1>2. q \in RequestState /\ q.pc = pc /\ q.login = 0
    BY <1>1 DEF RequestState
  <1> HIDE DEF q
  <1> QED
    BY <1>1, <1>2

LEMMA TokenKeeps ==
    ASSUME SessionInv, NEW r \in Requests, ActorFromToken(r)
    PROVE  SessionInv'
  <1>1. /\ Begin(r) /\ Goto(r, "bearer")
        /\ UNCHANGED <<session, logins, stateCookie, redeemed, faults, issued, history>>
    BY DEF ActorFromToken
  <1>2. At(r, "idle") /\ calls' \in 0..MaxCalls /\ calls' = calls + 1 /\ faults \in 0..MaxFaults
    BY <1>1, BeginType DEF SessionInv, SessionTypeOK
  <1>3. PICK q \in RequestState : /\ request' = [request EXCEPT ![r] = q]
                                  /\ q.pc = "bearer" /\ q.login = 0
    BY <1>1, <1>2, BystanderGoes DEF At
  <1> QED
    BY <1>1, <1>2, <1>3, BystanderKeeps

LEMMA BearerKeeps ==
    ASSUME SessionInv, NEW r \in Requests, BearerChecked(r)
    PROVE  SessionInv'
  <1>1. /\ At(r, "bearer") /\ (Goto(r, "served") \/ Answer(r))
        /\ UNCHANGED <<session, logins, stateCookie, redeemed, calls, faults, issued, history>>
        /\ faults \in 0..MaxFaults /\ calls \in 0..MaxCalls
    BY DEF BearerChecked, SessionInv, SessionTypeOK
  <1>2. CASE Goto(r, "served")
    <2>1. PICK q \in RequestState : /\ request' = [request EXCEPT ![r] = q]
                                    /\ q.pc = "served" /\ q.login = 0
      BY <1>1, <1>2, BystanderGoes DEF At
    <2> QED
      BY <1>1, <2>1, BystanderKeeps
  <1>3. CASE Answer(r)
    BY <1>1, <1>3, AnswerStep
  <1> QED
    BY <1>1, <1>2, <1>3

LEMMA RequestKeeps ==
    ASSUME VerifierTypeOK, SessionInv, NEW r \in Requests, Arrive(r) \/ Advance(r)
    PROVE  SessionInv'
  <1>1. ASSUME OidcRefresh(r) \/ AuthLogout(r)
        PROVE  SessionInv'
    <2>1. PICK s \in issued, pc \in {"exchange", "logout"} :
            /\ Begin(r) /\ VerifyOIDCSession(s, TRUE) /\ Contest(session[s].login)
            /\ request' = [request EXCEPT ![r] = [pc |-> pc, session |-> s, login |-> session[s].login]]
            /\ UNCHANGED <<session, logins, stateCookie, redeemed, issued, dropped, loggedOut>>
      BY <1>1 DEF OidcRefresh, AuthLogout
    <2> QED
      BY <2>1, CookieArrives
  <1>2. ASSUME Serve(r)
        PROVE  SessionInv'
    <2>1. /\ Answer(r) /\ faults' \in 0..MaxFaults
          /\ UNCHANGED <<session, logins, stateCookie, redeemed, calls, faults, issued, history>>
      BY <1>2 DEF Serve, SessionInv, SessionTypeOK
    <2> QED
      BY <2>1, AnswerStep
  <1>3. ASSUME UNCHANGED sessionVars
        PROVE  SessionInv'
    BY <1>3 DEF sessionVars, history, SessionInv, SessionTypeOK, CountInv, Makers, RequestInv, RowsInv,
                LoginInv, LoginOK, Working, Live, IsOIDCBrowserSessionActive, At
  <1> QED
    BY <1>1, <1>2, <1>3, CallbackKeeps, CookieServedKeeps, TokenKeeps, ExchangeKeeps, IDTokenKeeps,
       RefreshedKeeps, SetKeeps, LoggedOutKeeps, BearerKeeps DEF Arrive, Advance

\* What happens besides the requests leaves them alone, or ends them all.
LEMMA SurroundingsKeep ==
    ASSUME VerifierTypeOK, SessionInv,
           \/ OidcLogin \/ AuthLogoutWithoutSession \/ SessionExpires \/ StateCookieExpires \/ Crash
    PROVE  SessionInv'
  <1>1. /\ session \in Seq(Session) /\ logins \in 0..MaxLogins /\ stateCookie \in 0..MaxLogins
        /\ calls \in 0..MaxCalls /\ faults \in 0..MaxFaults
        /\ request \in [Requests -> RequestState] /\ 0 \in 0..MaxLogins
    BY SessionBounds DEF SessionInv, SessionTypeOK
  <1>2. CASE OidcLogin
    <2>1. logins' \in 0..MaxLogins /\ stateCookie' \in 0..MaxLogins
      BY <1>1, <1>2, SessionBounds DEF OidcLogin
    <2> QED
      BY <1>1, <1>2, <2>1, SettlingStep DEF OidcLogin, history
  <1>3. CASE AuthLogoutWithoutSession
    <2>1. faults' \in 0..MaxFaults
      BY <1>1, <1>3, FaultType DEF AuthLogoutWithoutSession, VerifyOIDCSession, Found, SessionInv
    <2> QED
      BY <1>1, <1>3, <2>1, SettlingStep DEF AuthLogoutWithoutSession, history
  <1>4. CASE SessionExpires
    <2>1. PICK s \in DOMAIN session : session' = [session EXCEPT ![s].expired = TRUE]
      BY <1>4 DEF SessionExpires
    <2> DEFINE row == [session[s] EXCEPT !.expired = TRUE]
    <2>2. session[s] \in Session /\ session' = [session EXCEPT ![s] = row]
      BY <1>1, <2>1
    <2>3. row \in Session /\ row.login = session[s].login /\ row.revoked = session[s].revoked /\ row.expired
      BY <2>2 DEF Session
    <2> HIDE DEF row
    <2>4. /\ session' \in Seq(Session) /\ DOMAIN session' = DOMAIN session
          /\ Len(session') = Len(session) /\ session'[s] = row
          /\ \A t \in DOMAIN session : t # s => session'[t] = session[t]
      BY <1>1, <2>2, <2>3
    <2>5. \A t \in DOMAIN session : /\ session'[t].login = session[t].login
                                    /\ session[t].revoked => session'[t].revoked
                                    /\ session[t].expired => session'[t].expired
      BY <2>3, <2>4
    <2> QED
      BY <1>1, <1>4, <2>4, <2>5, SettlingStep DEF SessionExpires, history
  <1>5. CASE StateCookieExpires
    BY <1>1, <1>5, SettlingStep DEF StateCookieExpires, history
  <1>6. CASE Crash
    <2>1. faults' \in 0..MaxFaults
      BY <1>6, FaultType DEF Crash, SessionInv
    <2>2. /\ request' \in [Requests -> RequestState]
          /\ \A r \in Requests : request'[r] = NoRequest
      BY <1>6, NoRequestType DEF Crash
    <2>3. NoRequest.pc = "idle" /\ NoRequest.session = 0 /\ NoRequest.login = 0
      BY DEF NoRequest
    <2> QED
      BY <1>1, <1>6, <2>1, <2>2, <2>3, SettlingStep DEF Crash, history
  <1> QED
    BY <1>2, <1>3, <1>4, <1>5, <1>6

-----------------------------------------------------------------------------
(* The specification *)

\* A step of the sessions moves the verifier as VerifierNext says.
LEMMA VerifierMoves ==
    ASSUME VerifierTypeOK, [Next]_vars
    PROVE  VerifierNext
  <1>1. ASSUME NEW r \in Requests, Arrive(r) \/ Advance(r)
        PROVE  VerifierNext
    <2>1. ASSUME ExchangeOIDCToken(r)
          PROVE  VerifierNext
      <3>1. CASE UNCHANGED verifierVars
        BY <3>1 DEF VerifierNext
      <3>2. CASE ~UNCHANGED verifierVars
        <4>1. PICK key \in published, named \in BOOLEAN :
                /\ BeginCheck(r, [key |-> key, named |-> named, form |-> "valid"])
                /\ UNCHANGED verifierOthers
          BY <2>1, <3>2 DEF ExchangeOIDCToken
        <4>2. [key |-> key, named |-> named, form |-> "valid"] \in Token
          BY DEF VerifierTypeOK, JWKS, Token
        <4> QED
          BY <4>1, <4>2 DEF VerifierNext
      <3> QED
        BY <3>1, <3>2
    <2>2. ASSUME IDTokenChecked(r) \/ BearerChecked(r)
          PROVE  VerifierNext
      BY <2>2 DEF IDTokenChecked, BearerChecked, VerifierNext
    <2>3. ASSUME ActorFromToken(r)
          PROVE  VerifierNext
      BY <2>3 DEF ActorFromToken, VerifierNext
    <2>4. ASSUME ActorFromBearer(r)
          PROVE  VerifierNext
      BY <2>4 DEF VerifierNext
    <2>5. ASSUME \/ OidcCallback(r) \/ OidcRefresh(r) \/ AuthLogout(r) \/ ActorFromCookie(r)
                 \/ RevokeRefreshed(r) \/ SetOIDCSession(r) \/ RevokeLoggedOut(r) \/ Serve(r)
          PROVE  UNCHANGED verifierVars
      BY <2>5 DEF OidcCallback, OidcRefresh, AuthLogout, ActorFromCookie, RevokeRefreshed,
                  SetOIDCSession, RevokeLoggedOut, Serve
    <2>6. UNCHANGED verifierVars => VerifierNext
      BY DEF VerifierNext
    <2> QED
      BY <1>1, <2>1, <2>2, <2>3, <2>4, <2>5, <2>6 DEF Arrive, Advance
  <1>2. ASSUME OidcLogin \/ AuthLogoutWithoutSession \/ SessionExpires \/ StateCookieExpires
        PROVE  VerifierNext
    BY <1>2 DEF OidcLogin, AuthLogoutWithoutSession, SessionExpires, StateCookieExpires, VerifierNext
  <1>3. ASSUME Crash
        PROVE  VerifierNext
    BY <1>3 DEF Crash, Restart, VerifierNext
  <1>4. ASSUME Provider
        PROVE  VerifierNext
    BY <1>4 DEF VerifierNext
  <1>5. ASSUME UNCHANGED vars
        PROVE  VerifierNext
    BY <1>5 DEF vars, VerifierNext
  <1> QED
    BY <1>1, <1>2, <1>3, <1>4, <1>5 DEF Next

IInv == VerifierInv /\ SessionInv

LEMMA InvariantStarts == Init => IInv
  <1> SUFFICES ASSUME Init PROVE IInv
    OBVIOUS
  <1>1. /\ session = <<>> /\ logins = 0 /\ stateCookie = 0 /\ calls = 0 /\ faults = 0
        /\ redeemed = {} /\ issued = {} /\ dropped = {} /\ contested = {} /\ loggedOut = {}
        /\ request \in [Requests -> RequestState] /\ \A r \in Requests : request[r] = NoRequest
    BY NoRequestType DEF Init
  <1>2. NoRequest.pc = "idle" /\ NoRequest.session = 0 /\ NoRequest.login = 0
    BY DEF NoRequest
  <1>3. SessionTypeOK
    <2>1. 0 \in 0..MaxLogins /\ 0 \in 0..MaxCalls /\ 0 \in 0..MaxFaults
      BY SessionBounds
    <2> QED
      BY <1>1, <2>1 DEF SessionTypeOK
  <1>4. Makers = {} /\ Len(session) = 0
    BY <1>1, <1>2 DEF Makers
  <1>5. CountInv
    BY <1>1, <1>4, FS_EmptySet DEF CountInv
  <1>6. RequestInv /\ RowsInv
    BY <1>1, <1>2 DEF RequestInv, RowsInv, At
  <1>7. \A l \in Logins : Working(l) = {} /\ Live(l) = {}
    BY <1>1, <1>2 DEF Working, Live, At
  <1>8. LoginInv
    BY <1>1, <1>7 DEF LoginInv, LoginOK
  <1>9. VerifierInv
    BY VerifierStarts DEF Init
  <1> QED
    BY <1>3, <1>5, <1>6, <1>8, <1>9 DEF IInv, SessionInv

LEMMA InvariantKept == IInv /\ [Next]_vars => IInv'
  <1> SUFFICES ASSUME IInv, [Next]_vars PROVE IInv'
    OBVIOUS
  <1>1. VerifierInv /\ SessionInv /\ VerifierTypeOK
    BY DEF IInv, VerifierInv
  <1>2. VerifierInv'
    BY <1>1, VerifierMoves, VerifierKeeps
  <1>3. UNCHANGED sessionVars => SessionInv'
    BY <1>1 DEF sessionVars, history, SessionInv, SessionTypeOK, CountInv, Makers, RequestInv, RowsInv,
                LoginInv, LoginOK, Working, Live, IsOIDCBrowserSessionActive, At
  <1>4. UNCHANGED vars => UNCHANGED sessionVars
    BY DEF vars
  <1>5. SessionInv'
    BY <1>1, <1>3, <1>4, RequestKeeps, SurroundingsKeep DEF Next
  <1> QED
    BY <1>2, <1>5 DEF IInv

\* The cache of keys and the session rows are always as the invariant says.
LEMMA Invariant == Spec => []IInv
  BY InvariantStarts, InvariantKept, PTL DEF Spec

\* Every variable keeps its type. There are never more rows than requests begun: each
\* request makes one session at most.
THEOREM SessionTypeCorrect == Spec => []TypeOK
  <1>1. IInv => TypeOK
    <2> SUFFICES ASSUME IInv PROVE TypeOK
      OBVIOUS
    <2>1. VerifierTypeOK /\ SessionTypeOK /\ Len(session) <= MaxCalls
      BY RowsBounded DEF IInv, VerifierInv, SessionInv
    <2> QED
      BY <2>1 DEF TypeOK, SessionTypeOK
  <1> QED
    BY <1>1, Invariant, PTL

\* A login has one live session at a time, and none after a confirmed logout, unless two
\* requests worked on it at once: for any number of browsers' requests, failures of the
\* store and crashes between the revocation of the old row and the insert of the new one.
THEOREM OneSessionKept == Spec => []OneSessionPerLogin
  <1>1. IInv => OneSessionPerLogin
    <2> SUFFICES ASSUME IInv, NEW l \in Logins \ contested
                 PROVE  Cardinality(Live(l)) <= IF l \in loggedOut THEN 0 ELSE 1
      BY DEF OneSessionPerLogin
    <2>1. /\ \A s, t \in Live(l) : s = t
          /\ l \in loggedOut => Live(l) = {}
      BY DEF IInv, SessionInv, LoginInv, LoginOK
    <2>2. CASE Live(l) = {}
      BY <2>2, FS_EmptySet
    <2>3. CASE Live(l) # {}
      <3>1. PICK s \in Live(l) : Live(l) = {s}
        BY <2>1, <2>3
      <3>2. Cardinality(Live(l)) = 1
        BY <3>1, FS_Singleton
      <3> QED
        BY <2>1, <2>3, <3>2
    <2> QED
      BY <2>2, <2>3
  <1> QED
    BY <1>1, Invariant, PTL

\* The cookie of a session that a refresh or a logout has said to have dropped gets no
\* request through, however often and whenever it is replayed: its row was revoked before
\* the answer, and no step makes a row count again.
THEOREM DroppedStaysOut == Spec => ReplayRefused
  <1>1. ASSUME IInv, [Next]_vars
        PROVE  [\A r \in Requests, s \in dropped : request[r].session # s => request'[r].session # s]_vars
    <2>1. CASE UNCHANGED vars
      BY <2>1
    <2>2. CASE Next
      <3> SUFFICES ASSUME NEW q \in Requests, NEW d \in dropped, request[q].session # d
                   PROVE  request'[q].session # d
        OBVIOUS
      <3>1. /\ VerifierTypeOK /\ SessionInv /\ SessionTypeOK /\ session[d].revoked
            /\ d \in DOMAIN session /\ d # 0
        <4>1. VerifierTypeOK /\ SessionInv /\ SessionTypeOK /\ RowsInv
          BY <1>1 DEF IInv, VerifierInv, SessionInv
        <4>2. session[d].revoked
          BY <4>1 DEF RowsInv
        <4>3. d \in DOMAIN session /\ d \in Sessions
          BY <4>1, RowsBounded DEF SessionInv, SessionTypeOK
        <4> QED
          BY <4>1, <4>2, <4>3 DEF Sessions
      <3>2. NoRequest.session = 0
        BY DEF NoRequest
      <3>3. ASSUME NEW s \in issued, VerifyOIDCSession(s, TRUE)
            PROVE  s # d
        BY <3>1, <3>3, CookiePasses DEF IsOIDCBrowserSessionActive
      <3>4. ASSUME NEW r \in Requests, Answer(r)
            PROVE  request'[q].session # d
        BY <3>1, <3>2, <3>4, RequestAnswered
      <3>5. ASSUME NEW r \in Requests,
                   NEW pc \in {"idle", "exchange", "verify", "insert", "revoke", "logout", "bearer", "served"},
                   Goto(r, pc)
            PROVE  request'[q].session # d
        BY <3>1, <3>5, RequestGoes
      <3>6. ASSUME NEW r \in Requests, NEW p, p.session # d, request' = [request EXCEPT ![r] = p]
            PROVE  request'[q].session # d
        BY <3>1, <3>6 DEF SessionTypeOK
      <3>7. ASSUME UNCHANGED request
            PROVE  request'[q].session # d
        BY <3>7
      <3>8. ASSUME NEW r \in Requests, Arrive(r)
            PROVE  request'[q].session # d
        <4>1. ASSUME OidcCallback(r)
              PROVE  request'[q].session # d
          <5>1. PICK st : request' = [request EXCEPT ![r] = [NoRequest EXCEPT !.pc = "exchange", !.login = st]]
            BY <4>1 DEF OidcCallback
          <5>2. [NoRequest EXCEPT !.pc = "exchange", !.login = st].session = 0
            BY DEF NoRequest
          <5> QED
            BY <3>1, <3>6, <5>1, <5>2
        <4>2. ASSUME OidcRefresh(r) \/ AuthLogout(r)
              PROVE  request'[q].session # d
          <5>1. PICK s \in issued, pc \in {"exchange", "logout"} :
                  /\ VerifyOIDCSession(s, TRUE)
                  /\ request' = [request EXCEPT ![r] =
                       [pc |-> pc, session |-> s, login |-> session[s].login]]
            BY <4>2 DEF OidcRefresh, AuthLogout
          <5>2. [pc |-> pc, session |-> s, login |-> session[s].login].session = s /\ s # d
            BY <3>3, <5>1
          <5> QED
            BY <3>6, <5>1, <5>2
        <4>3. ASSUME ActorFromCookie(r)
              PROVE  request'[q].session # d
          <5>1. PICK s \in issued : /\ VerifyOIDCSession(s, TRUE)
                                    /\ request' = [request EXCEPT ![r] =
                                         [NoRequest EXCEPT !.pc = "served", !.session = s]]
            BY <4>3 DEF ActorFromCookie
          <5>2. [NoRequest EXCEPT !.pc = "served", !.session = s].session = s /\ s # d
            BY <3>3, <5>1 DEF NoRequest
          <5> QED
            BY <3>6, <5>1, <5>2
        <4>4. ASSUME ActorFromToken(r)
              PROVE  request'[q].session # d
          BY <3>5, <4>4 DEF ActorFromToken
        <4> QED
          BY <3>8, <4>1, <4>2, <4>3, <4>4 DEF Arrive
      <3>9. ASSUME NEW r \in Requests, Advance(r)
            PROVE  request'[q].session # d
        <4>1. UNCHANGED sessionVars => UNCHANGED request
          BY DEF sessionVars
        <4> QED
          BY <3>4, <3>5, <3>7, <3>9, <4>1
             DEF Advance, ExchangeOIDCToken, IDTokenChecked, RevokeRefreshed, SetOIDCSession,
                 RevokeLoggedOut, BearerChecked, Serve
      <3>10. ASSUME \/ OidcLogin \/ AuthLogoutWithoutSession \/ SessionExpires \/ StateCookieExpires
                    \/ Provider /\ UNCHANGED sessionVars
             PROVE  UNCHANGED request
        BY <3>10 DEF OidcLogin, AuthLogoutWithoutSession, SessionExpires, StateCookieExpires, sessionVars
      <3>11. ASSUME Crash
             PROVE  request'[q].session # d
        BY <3>1, <3>2, <3>11 DEF Crash
      <3> QED
        BY <2>2, <3>7, <3>8, <3>9, <3>10, <3>11 DEF Next
    <2> QED
      BY <1>1, <2>1, <2>2
  <1> QED
    BY <1>1, Invariant, PTL DEF Spec, ReplayRefused

\* A token under a key that the provider publishes all along is accepted whatever the
\* cache holds, unless a JWKS request of its own failed or an answer from before the key
\* was published came in between: the one retry of ActorFromBearer is enough.
THEOREM PublishedKeyPasses == Spec => []PublishedKeyAccepted
  <1>1. IInv => PublishedKeyAccepted
    BY DEF IInv, VerifierInv, ExcuseInv, Resolved, PublishedKeyAccepted, CheckAt
  <1> QED
    BY <1>1, Invariant, PTL

\* No token is accepted under a key withdrawn before the cache last grew stale, although
\* requests install without a lock what they fetched: no answer is older than that.
THEOREM WithdrawnKeyRejected == Spec => []WithdrawnKeyRefused
  <1>1. IInv => WithdrawnKeyRefused
    BY DEF IInv, VerifierInv, KeysInv, WithdrawnKeyRefused
  <1> QED
    BY <1>1, Invariant, PTL

=============================================================================
