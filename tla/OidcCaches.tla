------------------------------ MODULE OidcCaches ------------------------------
(***************************************************************************)
(* OidcProviderClient: concurrent calls share a cached discovery document  *)
(* and a cached key set, while the provider rotates its signing keys.      *)
(*                                                                         *)
(* A cache entry is dated with the moment its request was made, and the    *)
(* answers of concurrent requests may arrive, and be stored, in any order: *)
(* an older key set may replace a newer one.  A token that the key set at  *)
(* hand cannot verify is tried once more with a set fetched for it.        *)
(* Every step between two awaits is an action here; that adds              *)
(* interleavings the event loop does not have and drops none.              *)
(***************************************************************************)
EXTENDS Integers

CONSTANTS
    Callers,        \* tasks that use one client at the same time
    Keys,           \* signing keys of the provider, in use one after another
    Forged,         \* the key of a token that no key set can decode
    None,           \* nothing
    Operations,     \* which of the client's operations are called
    CacheSeconds,   \* auth_discovery_cache_seconds, auth_jwks_cache_seconds
    MaxClock        \* bound on the instants explored

ASSUME NoneAssumption == None \notin Keys \union Nat \union {Forged}
ASSUME KeyAssumption == Forged \notin Keys
ASSUME CacheAssumption == CacheSeconds \in Nat \ {0} /\ MaxClock \in Nat

VARIABLES
    clock,                  \* time.monotonic()
    published,              \* keys the provider has ever published
    retiredAt,              \* when it withdrew each of them, or None
    cache, loadedAt,        \* _metadata and _key_set with their dates
    pc, op,                 \* where each call is, and which one it is
    key,                    \* who signed the token it verifies
    began, current,         \* when it began; whether its key was published then
    asked,                  \* its local variable now, while a request is out
    reply,                  \* what the provider answered to it
    forced                  \* force_refresh

provider == <<published, retiredAt>>
call == <<op, key, began, current>>
request == <<asked, reply, forced>>
vars == <<clock, provider, cache, loadedAt, pc, call, request>>

Docs == {"metadata", "keys"}
Published == {k \in published : retiredAt[k] = None}

\* A call that is over has verified its token, has refused it as badly
\* signed, or has ended in any other way.
Ended == {"verified", "rejected", "idle"}

\* build_authorization_url and end_session_url need the metadata only;
\* exchange_authorization_code posts a code and verifies the answer,
\* exchange_client_credentials posts; verify_access_token verifies.
Ops == {"url", "login", "credentials", "verify"}

ASSUME OperationAssumption == Operations \subseteq Ops

Init ==
    /\ clock = 0
    /\ published \in SUBSET Keys
    /\ retiredAt = [k \in Keys |-> None]
    /\ cache = [d \in Docs |-> None]
    /\ loadedAt = [d \in Docs |-> 0]
    /\ pc = [c \in Callers |-> "idle"]
    /\ op = [c \in Callers |-> "url"]
    /\ key = [c \in Callers |-> Forged]
    /\ began = [c \in Callers |-> 0]
    /\ current = [c \in Callers |-> FALSE]
    /\ asked = [c \in Callers |-> None]
    /\ reply = [c \in Callers |-> None]
    /\ forced = [c \in Callers |-> FALSE]

TypeOK ==
    /\ clock \in 0..MaxClock
    /\ published \subseteq Keys /\ retiredAt \in [Keys -> Nat \union {None}]
    /\ cache \in [Docs -> {None} \union SUBSET Keys]
    /\ loadedAt \in [Docs -> Nat]
    /\ pc \in [Callers -> Docs \union Ended \union {"post"}]
    /\ op \in [Callers -> Ops]
    /\ key \in [Callers -> Keys \union {Forged}]
    /\ began \in [Callers -> Nat] /\ current \in [Callers -> BOOLEAN]
    /\ asked \in [Callers -> Nat \union {None}]
    /\ reply \in [Callers -> {None} \union SUBSET Keys]
    /\ forced \in [Callers -> BOOLEAN]

-----------------------------------------------------------------------------
Goto(c, stage) == pc' = [pc EXCEPT ![c] = stage] /\ UNCHANGED <<forced, call>>

\* The call returns or raises.
Finish(c, result) ==
    /\ pc' = [pc EXCEPT ![c] = result]
    /\ op' = [op EXCEPT ![c] = "url"]
    /\ key' = [key EXCEPT ![c] = Forged]
    /\ began' = [began EXCEPT ![c] = 0]
    /\ current' = [current EXCEPT ![c] = FALSE]
    /\ forced' = [forced EXCEPT ![c] = FALSE]

\* A faulty variant: the token is refused without a fresh key set.
Retry_Never(c) == Finish(c, "rejected")

\* for refresh in (False, True): once more, with a set fetched for the token.
Retry(c) ==
    IF forced[c] THEN Finish(c, "rejected")
                 ELSE forced' = [forced EXCEPT ![c] = TRUE] /\ UNCHANGED <<pc, call>>

\* jwt.decode with the key set of this call.  Whatever it raises is tried
\* once more: a key that is missing, but also another's signature, a token
\* that is malformed or of a wrong algorithm, which are all Forged here.
\* A decoded token may fail its claims, and then nothing is tried again:
\* issuer, audience, nonce, times, subject, the binding and scopes of a
\* workload.
Decode(c, set) ==
    IF key[c] \in set THEN Finish(c, "verified") \/ Finish(c, "idle") ELSE Retry(c)

\* What the call does with the document it needed.
Use(c, doc) ==
    IF pc[c] = "keys" THEN Decode(c, doc)
    ELSE CASE op[c] = "url" -> Finish(c, "idle")
           [] op[c] \in {"login", "credentials"} -> Goto(c, "post")
           [] op[c] = "verify" -> Goto(c, "keys")

Fresh(d) == cache[d] # None /\ clock - loadedAt[d] < CacheSeconds

-----------------------------------------------------------------------------
Start(c) ==
    /\ pc[c] \in Ended
    /\ pc' = [pc EXCEPT ![c] = "metadata"]
    /\ op' \in {[op EXCEPT ![c] = o] : o \in Operations}
    /\ key' \in {[key EXCEPT ![c] = k] : k \in Keys \union {Forged}}
    /\ began' = [began EXCEPT ![c] = clock]
    /\ current' = [current EXCEPT ![c] = key'[c] \in Published]
    /\ UNCHANGED <<clock, provider, cache, loadedAt, request>>

Needs(c) == pc[c] \in Docs /\ asked[c] = None

\* get_metadata and _get_key_set: a fresh entry is used ...
UseCached(c) ==
    /\ Needs(c) /\ ~forced[c] /\ Fresh(pc[c])
    /\ Use(c, cache[pc[c]])
    /\ UNCHANGED <<clock, provider, cache, loadedAt, asked, reply>>

\* ... else the document is requested; now is taken before the request.
Ask(c) ==
    /\ Needs(c) /\ (forced[c] \/ ~Fresh(pc[c]))
    /\ asked' = [asked EXCEPT ![c] = clock]
    /\ UNCHANGED <<clock, provider, cache, loadedAt, pc, call, reply, forced>>

\* A faulty variant: an error document of the provider is taken for keys.
Reply_Unchecked(c) ==
    /\ asked[c] # None /\ reply[c] = None
    /\ reply' = [reply EXCEPT ![c] = {Forged}]
    /\ UNCHANGED <<clock, provider, cache, loadedAt, pc, call, asked, forced>>

\* The provider answers with what it publishes at that moment.
Reply(c) ==
    /\ asked[c] # None /\ reply[c] = None
    /\ reply' = [reply EXCEPT ![c] = IF pc[c] = "keys" THEN Published ELSE {}]
    /\ UNCHANGED <<clock, provider, cache, loadedAt, pc, call, asked, forced>>

Answered(c) == reply[c] # None

EndRequest(c) ==
    /\ asked' = [asked EXCEPT ![c] = None]
    /\ reply' = [reply EXCEPT ![c] = None]

\* A faulty variant: the entry is dated with the arrival of the answer.
Receive_Redated(c) ==
    /\ Answered(c)
    /\ cache' = [cache EXCEPT ![pc[c]] = reply[c]]
    /\ loadedAt' = [loadedAt EXCEPT ![pc[c]] = clock]
    /\ Use(c, reply[c])
    /\ EndRequest(c)
    /\ UNCHANGED <<clock, provider>>

\* The answer arrives: it is stored, whatever was stored meanwhile.
Receive(c) ==
    /\ Answered(c)
    /\ cache' = [cache EXCEPT ![pc[c]] = reply[c]]
    /\ loadedAt' = [loadedAt EXCEPT ![pc[c]] = asked[c]]
    /\ Use(c, reply[c])
    /\ EndRequest(c)
    /\ UNCHANGED <<clock, provider>>

\* No answer, or one that is not a valid document: ServiceUnavailableError,
\* which no caller in this module catches.
Unavailable(c) ==
    /\ asked[c] # None
    /\ Finish(c, "idle")
    /\ EndRequest(c)
    /\ UNCHANGED <<clock, provider, cache, loadedAt>>

\* The token endpoint fails, refuses or answers with the token of the
\* service; a login may bring an id_token to verify.
Post(c) ==
    /\ pc[c] = "post"
    /\ \/ Finish(c, "idle")
       \/ op[c] = "login" /\ Goto(c, "keys")
    /\ UNCHANGED <<clock, provider, cache, loadedAt, asked, reply>>

-----------------------------------------------------------------------------
\* The provider starts and stops publishing keys.
Publish(k) ==
    /\ k \notin published
    /\ published' = published \union {k}
    /\ UNCHANGED <<clock, retiredAt, cache, loadedAt, pc, call, request>>

Retire(k) ==
    /\ k \in Published
    /\ retiredAt' = [retiredAt EXCEPT ![k] = clock]
    /\ UNCHANGED <<clock, published, cache, loadedAt, pc, call, request>>

Tick ==
    /\ clock < MaxClock
    /\ clock' = clock + 1
    /\ UNCHANGED <<provider, cache, loadedAt, pc, call, request>>

Step(c) == UseCached(c) \/ Ask(c) \/ Receive(c) \/ Unavailable(c) \/ Post(c)

Next ==
    \/ \E c \in Callers : Start(c) \/ Reply(c) \/ Step(c)
    \/ \E k \in Keys : Publish(k) \/ Retire(k)
    \/ Tick

Spec == Init /\ [][Next]_vars

-----------------------------------------------------------------------------
(* Properties.                                                             *)

Ends(c, result) == pc[c] # result /\ pc'[c] = result

\* A key the provider has withdrawn verifies nothing once the cache period
\* is over: the age of an entry counts from its request, so neither a slow
\* answer nor an older one stored over a newer one makes it live longer.
RetiredKeysExpire ==
    [][\A c \in Callers : Ends(c, "verified") =>
          /\ key[c] \in published
          /\ \/ retiredAt[key[c]] = None
             \/ retiredAt[key[c]] + CacheSeconds > began[c]]_vars

\* A token signed with a key published before its verification began, and
\* not withdrawn, is never taken for a bad one: not by a stale cache entry,
\* and not by an older key set that another task stores meanwhile.
CurrentKeysVerify ==
    [][\A c \in Callers :
          Ends(c, "rejected") /\ current[c] => retiredAt[key[c]] # None]_vars
=============================================================================
