---------------------------- MODULE OIDCVerifier ----------------------------
(***************************************************************************)
(* The verification of tokens by OIDCVerifier: its cache of signing keys,  *)
(* filled from the identity provider's JWKS by requests that hold no lock, *)
(* while the provider rotates its keys.                                    *)
(*                                                                         *)
(* Of a token's claims the model keeps whether they pass, and of the time  *)
(* only whether the cache is older than the ten minutes it is good for.    *)
(***************************************************************************)
EXTENDS Integers, FiniteSets

CONSTANTS
    Keys,           \* the signing keys the provider uses
    FirstKey,       \* the key it begins with
    KidOf,          \* the id of each key; a new key may take the id of an old one
    Parallel,       \* how many HTTP requests are served at a time
    MaxRotations,   \* bound on the changes of the provider's keys
    MaxFetchFaults  \* bound on the JWKS requests that fail

ASSUME KeysAssumption == IsFiniteSet(Keys) /\ FirstKey \in Keys /\ DOMAIN KidOf = Keys
ASSUME VerifierAssumption == Parallel \in Nat \ {0} /\ {MaxRotations, MaxFetchFaults} \subseteq Nat

VARIABLES
    published,    \* the keys in the provider's JWKS
    used,         \* the keys it has published so far
    rotations,
    fetchFaults,
    keys,         \* OIDCVerifier.keys
    fresh,        \* loaded is less than ten minutes ago
    check,        \* the verification each request is in
    \* The rest is history.
    excused,      \* the requests whose token need not pass
    outdated      \* the keys that were withdrawn before the cache last grew stale

verifierVars == <<published, used, rotations, fetchFaults, keys, fresh, check, excused, outdated>>

\* What the start and the end of a verification leave alone, excused apart.
verifierOthers == <<published, used, rotations, fetchFaults, keys, fresh, outdated>>

Requests == 1..Parallel

\* A JWKS has one key under an id.
JWKS == {jwks \in SUBSET Keys : \A k, l \in jwks : KidOf[k] = KidOf[l] => k = l}

\* What parseJWT and validateClaims find is one of the forms. A token may lack the id
\* of the key that has signed it.
Token == [key : Keys, named : BOOLEAN, form : {"valid", "malformed", "badClaims"}]

NoToken == [key |-> FirstKey, named |-> FALSE, form |-> "malformed"]

Check == [pc : {"idle", "lookup", "fetch", "install", "reread", "refetch", "reinstall",
                "accepted", "refused"},
          token : Token, response : JWKS, retried : BOOLEAN]

NoCheck == [pc |-> "idle", token |-> NoToken, response |-> {}, retried |-> FALSE]

VerifierInit ==
    /\ published = {FirstKey}
    /\ used = {FirstKey}
    /\ rotations = 0
    /\ fetchFaults = 0
    /\ keys = {}
    /\ fresh = FALSE
    /\ check = [r \in Requests |-> NoCheck]
    /\ excused = {}
    /\ outdated = {}

-----------------------------------------------------------------------------
(* Lookup *)

\* keyFromMap: at most one key. Without an id there must be only one to choose from.
KeyFromMap(jwks, token) ==
    IF token.named THEN {key \in jwks : KidOf[key] = KidOf[token.key]}
                   ELSE {key \in jwks : Cardinality(jwks) = 1}

\* The key found for the token is the one that has signed it.
Resolves(jwks, token) == KeyFromMap(jwks, token) = {token.key}

CheckAt(r, pc) == check[r].pc = pc

CheckGoto(r, pc) == check' = [check EXCEPT ![r].pc = pc]

\* The answers that are still to be installed.
PendingResponses == {check[q].response : q \in {p \in Requests : check[p].pc \in {"install", "reinstall"}}}

\* ActorFromBearer refuses a token that does not parse or is not RS256 before it
\* looks for a key.
BeginCheck(r, token) ==
    /\ check' = [check EXCEPT ![r] =
         [NoCheck EXCEPT !.token = token, !.pc = IF token.form = "malformed" THEN "refused" ELSE "lookup"]]
    /\ excused' = IF /\ token.form = "valid"
                     /\ Resolves(published, token)
                     /\ \A jwks \in PendingResponses : Resolves(jwks, token)
                  THEN excused \ {r} ELSE excused \cup {r}

EndCheck(r) == check' = [check EXCEPT ![r] = NoCheck] /\ excused' = excused \ {r}

\* Faulty: a signature that does not verify is final.
VerifyOnce(r, found) ==
    CheckGoto(r, IF found = {check[r].token.key} /\ check[r].token.form = "valid"
                 THEN "accepted" ELSE "refused")

\* VerifyPKCS1v15 under the key that was found. The first failure makes
\* ActorFromBearer refresh the keys and try once more.
Verify(r, found) ==
    CASE found = {check[r].token.key} ->
            CheckGoto(r, IF check[r].token.form = "valid" THEN "accepted" ELSE "refused")
      [] found # {check[r].token.key} /\ ~check[r].retried ->
            check' = [check EXCEPT ![r].pc = "refetch", ![r].retried = TRUE]
      [] OTHER -> CheckGoto(r, "refused")

\* Faulty: a cached key is good for ever.
CachedKeyForEver(token) == KeyFromMap(keys, token)

\* keyForToken takes the key from the cache when it is there and not stale.
CachedKey(token) == IF fresh THEN KeyFromMap(keys, token) ELSE {}

KeyForToken(r) == LET found == CachedKey(check[r].token) IN
    /\ CheckAt(r, "lookup")
    /\ IF found = {} THEN CheckGoto(r, "fetch") ELSE Verify(r, found)
    /\ UNCHANGED <<verifierOthers, excused>>

-----------------------------------------------------------------------------
(* refreshKeys: the request, and then the exchange of the cache *)

FetchKeys(r) ==
    /\ check[r].pc \in {"fetch", "refetch"}
    /\ check' = [check EXCEPT ![r].response = published,
                              ![r].pc = IF CheckAt(r, "fetch") THEN "install" ELSE "reinstall"]
    /\ UNCHANGED <<verifierOthers, excused>>

\* keyForToken gives up; the refresh of ActorFromBearer ignores the error.
FetchFails(r) ==
    /\ check[r].pc \in {"fetch", "refetch"}
    /\ fetchFaults < MaxFetchFaults
    /\ fetchFaults' = fetchFaults + 1
    /\ CheckGoto(r, IF CheckAt(r, "fetch") THEN "refused" ELSE "lookup")
    /\ excused' = excused \cup {r}
    /\ UNCHANGED <<published, used, rotations, keys, fresh, outdated>>

InstallKeys(r) ==
    /\ check[r].pc \in {"install", "reinstall"}
    /\ keys' = check[r].response
    /\ fresh' = TRUE
    /\ check' = [check EXCEPT ![r].response = {},
                              ![r].pc = IF CheckAt(r, "install") THEN "reread" ELSE "lookup"]
    /\ UNCHANGED <<published, used, rotations, fetchFaults, excused, outdated>>

\* Meanwhile another request may have installed what it had fetched before.
RereadKey(r) == LET found == KeyFromMap(keys, check[r].token) IN
    /\ CheckAt(r, "reread")
    /\ IF found = {} THEN CheckGoto(r, "refused") ELSE Verify(r, found)
    /\ UNCHANGED <<verifierOthers, excused>>

ActorFromBearer(r) ==
    KeyForToken(r) \/ FetchKeys(r) \/ FetchFails(r) \/ InstallKeys(r) \/ RereadKey(r)

-----------------------------------------------------------------------------
(* The provider, and time *)

\* The provider adds a key, withdraws some, or both.
Rotate == \E key \in Keys \ used : \E jwks \in JWKS \ {published, {}} :
    /\ rotations < MaxRotations
    /\ rotations' = rotations + 1
    /\ jwks \subseteq published \cup {key}
    /\ published' = jwks
    /\ used' = used \cup jwks
    /\ excused' = excused \cup
         {r \in Requests : ~CheckAt(r, "idle") /\ ~Resolves(jwks, check[r].token)}
    /\ UNCHANGED <<fetchFaults, keys, fresh, check, outdated>>

\* Ten minutes pass. A verification takes a few JWKS requests of five seconds.
CacheGrowsStale ==
    /\ fresh
    /\ \A r \in Requests : check[r].pc \in {"idle", "lookup"}
    /\ fresh' = FALSE
    /\ outdated' = used \ published
    /\ UNCHANGED <<published, used, rotations, fetchFaults, keys, check, excused>>

Provider == Rotate \/ CacheGrowsStale

-----------------------------------------------------------------------------
(* Properties *)

VerifierTypeOK ==
    /\ published \in JWKS /\ keys \in JWKS /\ used \subseteq Keys
    /\ rotations \in 0..MaxRotations
    /\ fetchFaults \in 0..MaxFetchFaults
    /\ fresh \in BOOLEAN
    /\ check \in [Requests -> Check]
    /\ excused \subseteq Requests
    /\ outdated \subseteq Keys

\* A token that is valid under a key which the provider publishes all along is
\* accepted whatever the cache holds, unless a JWKS request of its own fails or an
\* answer from before the key was published is installed on the way.
PublishedKeyAccepted ==
    \A r \in Requests : CheckAt(r, "refused") => r \in excused

\* No token is accepted under a key that the provider had withdrawn when the cache
\* last ran out, although requests install what they fetched without a lock.
WithdrawnKeyRefused ==
    \A r \in Requests : CheckAt(r, "accepted") => check[r].token.key \notin outdated
=============================================================================
