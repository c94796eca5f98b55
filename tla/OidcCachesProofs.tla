---------------------------- MODULE OidcCachesProofs ----------------------------
(***************************************************************************)
(* Proofs about the caches of the OIDC client, for any callers, keys and   *)
(* cache period.                                                           *)
(*                                                                         *)
(* An entry carries the date of its request.  Whatever it contains was     *)
(* still published then, so a key in it was withdrawn no earlier than its  *)
(* date: true of an answer when the provider gives it, and kept by storing *)
(* it under that date, in whatever order answers arrive.  And a token is   *)
(* refused only with a set that was asked for on its behalf, after its     *)
(* key had been seen published.                                            *)
(***************************************************************************)
EXTENDS OidcCaches, TLAPS

\* A request is out only while its call is at a document, and the provider
\* answers only requests; clocks read before an await are behind the clock.
RequestsAreOpen ==
    \A c \in Callers :
        /\ asked[c] # None => pc[c] \in Docs /\ began[c] <= asked[c] /\ asked[c] <= clock
        /\ reply[c] # None => asked[c] # None
        /\ began[c] <= clock

\* A key of this set was published at that instant.
PublishedAt(set, date) ==
    \A k \in set : k \in published /\ (retiredAt[k] = None \/ date <= retiredAt[k])

\* The key sets of the cache and of answers on their way go with their dates.
SetsAreDated ==
    /\ loadedAt["keys"] <= clock
    /\ cache["keys"] # None => PublishedAt(cache["keys"], loadedAt["keys"])
    /\ \A c \in Callers :
          pc[c] = "keys" /\ reply[c] # None => PublishedAt(reply[c], asked[c])

\* A call that began while its key was published sees the key in any answer
\* to a request of its own, unless the key is withdrawn by now.
CurrentAreAnswered ==
    \A c \in Callers : current[c] =>
        /\ key[c] \in published
        /\ pc[c] = "keys" /\ reply[c] # None => key[c] \in reply[c] \/ retiredAt[key[c]] # None

IInv == TypeOK /\ RequestsAreOpen /\ SetsAreDated /\ CurrentAreAnswered

LEMMA InitInv == Init => IInv
BY NoneAssumption, CacheAssumption
DEF Init, IInv, TypeOK, RequestsAreOpen, SetsAreDated, CurrentAreAnswered, Docs, Ended, Ops

-----------------------------------------------------------------------------
(* What a step of one call does to the calls.                              *)

\* The call of c goes on as it is, or is over; the other calls stand still.
CallStep(c) ==
    /\ pc' \in [Callers -> Docs \union Ended \union {"post"}]
    /\ op' \in [Callers -> Ops]
    /\ key' \in [Callers -> Keys \union {Forged}]
    /\ began' \in [Callers -> Nat] /\ current' \in [Callers -> BOOLEAN]
    /\ forced' \in [Callers -> BOOLEAN]
    /\ \/ key'[c] = key[c] /\ began'[c] = began[c] /\ current'[c] = current[c]
       \/ began'[c] = 0 /\ current'[c] = FALSE
    /\ \A d \in Callers \ {c} :
          pc'[d] = pc[d] /\ key'[d] = key[d] /\ began'[d] = began[d] /\ current'[d] = current[d]

LEMMA FinishEffect ==
    ASSUME IInv, NEW c \in Callers, NEW result \in Ended, Finish(c, result)
    PROVE  CallStep(c) /\ pc'[c] = result
BY DEF IInv, TypeOK, Finish, CallStep, Ops

LEMMA GotoEffect ==
    ASSUME IInv, NEW c \in Callers, NEW stage \in Docs \union {"post"}, Goto(c, stage)
    PROVE  CallStep(c) /\ pc'[c] = stage
BY DEF IInv, TypeOK, Goto, CallStep, call

LEMMA DecodeEffect ==
    ASSUME IInv, NEW c \in Callers, NEW set, Decode(c, set)
    PROVE  /\ CallStep(c)
           /\ pc'[c] = "verified" => pc[c] = "verified" \/ key[c] \in set
           /\ pc'[c] = "rejected" => pc[c] = "rejected" \/ (key[c] \notin set /\ forced[c])
<1>1. CASE key[c] \in set
    BY <1>1, FinishEffect DEF Decode, Ended
<1>2. CASE key[c] \notin set /\ forced[c]
    BY <1>2, FinishEffect DEF Decode, Retry, Ended
<1>3. CASE key[c] \notin set /\ ~forced[c]
    BY <1>3 DEF Decode, Retry, IInv, TypeOK, CallStep, call
<1> QED  BY <1>1, <1>2, <1>3 DEF IInv, TypeOK

LEMMA UseEffect ==
    ASSUME IInv, NEW c \in Callers, NEW set, pc[c] \in Docs, Use(c, set)
    PROVE  /\ CallStep(c)
           /\ pc'[c] = "verified" => pc[c] = "keys" /\ key[c] \in set
           /\ pc'[c] = "rejected" => pc[c] = "keys" /\ key[c] \notin set /\ forced[c]
<1>1. CASE pc[c] = "keys"
    <2>1. Decode(c, set)
        BY <1>1 DEF Use
    <2> QED  BY <1>1, <2>1, DecodeEffect
<1>2. CASE pc[c] # "keys"
    <2>1. CASE op[c] = "url"
        <3>1. Finish(c, "idle")
            BY <1>2, <2>1 DEF Use
        <3>2. CallStep(c) /\ pc'[c] = "idle"
            BY <3>1, FinishEffect DEF Ended
        <3> QED  BY <3>2
    <2>2. CASE op[c] \in {"login", "credentials"}
        <3>1. Goto(c, "post")
            BY <1>2, <2>2 DEF Use
        <3>2. CallStep(c) /\ pc'[c] = "post"
            BY <3>1, GotoEffect
        <3> QED  BY <3>2
    <2>3. CASE op[c] = "verify"
        BY <1>2, <2>3, GotoEffect DEF Use, Docs
    <2> QED  BY <2>1, <2>2, <2>3 DEF IInv, TypeOK, Ops
<1> QED  BY <1>1, <1>2

-----------------------------------------------------------------------------
(* Steps of a call that leave it without a request.                        *)

Quiet(c) ==
    /\ asked' \in [Callers -> Nat \union {None}]
    /\ reply' \in [Callers -> {None} \union SUBSET Keys]
    /\ asked'[c] = None /\ reply'[c] = None
    /\ \A d \in Callers \ {c} : asked'[d] = asked[d] /\ reply'[d] = reply[d]

LEMMA CallInv ==
    ASSUME IInv, NEW c \in Callers, CallStep(c), Quiet(c), UNCHANGED <<clock, provider>>,
           cache' \in [Docs -> {None} \union SUBSET Keys], loadedAt' \in [Docs -> Nat],
           loadedAt'["keys"] <= clock,
           cache'["keys"] # None => PublishedAt(cache'["keys"], loadedAt'["keys"])
    PROVE  IInv'
<1>1. published' = published /\ retiredAt' = retiredAt
    BY DEF provider
<1>2. TypeOK'
    BY <1>1 DEF IInv, TypeOK, CallStep, Quiet
<1>3. RequestsAreOpen'
    BY DEF IInv, TypeOK, RequestsAreOpen, CallStep, Quiet
<1>4. SetsAreDated'
    BY <1>1 DEF IInv, SetsAreDated, PublishedAt, CallStep, Quiet
<1>5. CurrentAreAnswered'
    BY <1>1 DEF IInv, CurrentAreAnswered, CallStep, Quiet
<1> QED  BY <1>2, <1>3, <1>4, <1>5 DEF IInv

LEMMA EndRequestQuiets ==
    ASSUME IInv, NEW c \in Callers, EndRequest(c)
    PROVE  Quiet(c)
BY DEF IInv, TypeOK, EndRequest, Quiet

\* A call that has sent no request has no answer either.
LEMMA NothingAsked ==
    ASSUME IInv, NEW c \in Callers, asked[c] = None, UNCHANGED <<asked, reply>>
    PROVE  Quiet(c)
BY DEF IInv, TypeOK, RequestsAreOpen, Quiet

LEMMA CacheKept ==
    ASSUME IInv
    PROVE  /\ cache \in [Docs -> {None} \union SUBSET Keys] /\ loadedAt \in [Docs -> Nat]
           /\ loadedAt["keys"] <= clock
           /\ cache["keys"] # None => PublishedAt(cache["keys"], loadedAt["keys"])
BY DEF IInv, TypeOK, SetsAreDated

LEMMA UseCachedInv ==
    ASSUME IInv, NEW c \in Callers, UseCached(c)
    PROVE  IInv'
<1>1. CallStep(c)
    BY UseEffect DEF UseCached, Needs
<1>2. Quiet(c)
    BY NothingAsked DEF UseCached, Needs
<1> QED  BY <1>1, <1>2, CacheKept, CallInv DEF UseCached

LEMMA ReceiveInv ==
    ASSUME IInv, NEW c \in Callers, Receive(c)
    PROVE  IInv'
<1>1. /\ pc[c] \in Docs /\ asked[c] \in Nat /\ asked[c] <= clock /\ reply[c] \in SUBSET Keys
      /\ pc[c] = "keys" => PublishedAt(reply[c], asked[c])
    BY DEF IInv, TypeOK, RequestsAreOpen, SetsAreDated, Receive, Answered
<1>2. CallStep(c) /\ Quiet(c)
    BY <1>1, UseEffect, EndRequestQuiets DEF Receive
<1>3. /\ cache' \in [Docs -> {None} \union SUBSET Keys] /\ loadedAt' \in [Docs -> Nat]
      /\ loadedAt'["keys"] <= clock
      /\ cache'["keys"] # None => PublishedAt(cache'["keys"], loadedAt'["keys"])
    BY <1>1, CacheKept DEF Receive, Docs
<1> QED  BY <1>2, <1>3, CallInv DEF Receive

LEMMA UnavailableInv ==
    ASSUME IInv, NEW c \in Callers, Unavailable(c)
    PROVE  IInv'
<1>1. CallStep(c) /\ Quiet(c)
    BY FinishEffect, EndRequestQuiets DEF Unavailable, Ended
<1> QED  BY <1>1, CacheKept, CallInv DEF Unavailable

LEMMA PostInv ==
    ASSUME IInv, NEW c \in Callers, Post(c)
    PROVE  IInv'
<1>1. CallStep(c)
    BY FinishEffect, GotoEffect DEF Post, Ended, Docs
<1>2. Quiet(c)
    <2>1. asked[c] = None
        BY DEF IInv, RequestsAreOpen, Post, Docs
    <2> QED  BY <2>1, NothingAsked DEF Post
<1> QED  BY <1>1, <1>2, CacheKept, CallInv DEF Post

-----------------------------------------------------------------------------
(* The other steps.                                                        *)

LEMMA StartInv ==
    ASSUME IInv, NEW c \in Callers, Start(c)
    PROVE  IInv'
<1>1. /\ pc' = [pc EXCEPT ![c] = "metadata"]
      /\ began' = [began EXCEPT ![c] = clock]
      /\ current' = [current EXCEPT ![c] = key'[c] \in Published]
    BY DEF Start
<1>2. op' \in [Callers -> Ops]
    BY OperationAssumption DEF IInv, TypeOK, Start
<1>3. PICK k \in Keys \union {Forged} : key' = [key EXCEPT ![c] = k]
    BY DEF Start
<1>4. UNCHANGED <<clock, published, retiredAt, cache, loadedAt, asked, reply, forced>>
    BY DEF Start, provider, request
<1>5. TypeOK'
    BY <1>1, <1>2, <1>3, <1>4 DEF IInv, TypeOK, Docs, Published
<1>6. asked[c] = None /\ reply[c] = None
    BY DEF IInv, RequestsAreOpen, Start, Docs, Ended
<1>7. RequestsAreOpen'
    BY <1>1, <1>4, <1>6 DEF IInv, TypeOK, RequestsAreOpen
<1>8. SetsAreDated'
    BY <1>1, <1>4 DEF IInv, TypeOK, SetsAreDated, PublishedAt
<1>9. CurrentAreAnswered'
    BY <1>1, <1>3, <1>4 DEF IInv, TypeOK, CurrentAreAnswered, Published
<1> QED  BY <1>5, <1>7, <1>8, <1>9 DEF IInv

LEMMA AskInv ==
    ASSUME IInv, NEW c \in Callers, Ask(c)
    PROVE  IInv'
<1>1. UNCHANGED <<clock, published, retiredAt, cache, loadedAt, pc, op, key, began, current, reply, forced>>
    BY DEF Ask, provider, call
<1>2. asked' = [asked EXCEPT ![c] = clock] /\ pc[c] \in Docs /\ asked[c] = None /\ reply[c] = None
    BY DEF IInv, RequestsAreOpen, Ask, Needs
<1> QED  BY <1>1, <1>2
    DEF IInv, TypeOK, RequestsAreOpen, SetsAreDated, CurrentAreAnswered, PublishedAt

\* An answer is what is published now, after the request was dated.
LEMMA ReplyInv ==
    ASSUME IInv, NEW c \in Callers, Reply(c)
    PROVE  IInv'
<1>1. UNCHANGED <<clock, published, retiredAt, cache, loadedAt, pc, op, key, began, current, asked, forced>>
    BY DEF Reply, provider, call
<1>2. /\ asked[c] # None
      /\ reply' = [reply EXCEPT ![c] = IF pc[c] = "keys" THEN Published ELSE {}]
    BY DEF Reply
<1>3. Published \subseteq Keys /\ \A date : PublishedAt(Published, date)
    BY DEF IInv, TypeOK, Published, PublishedAt
<1>4. TypeOK' /\ RequestsAreOpen'
    BY <1>1, <1>2, <1>3 DEF IInv, TypeOK, RequestsAreOpen
<1>5. SetsAreDated'
    BY <1>1, <1>2, <1>3 DEF IInv, TypeOK, SetsAreDated, PublishedAt
<1>6. CurrentAreAnswered'
    BY <1>1, <1>2 DEF IInv, TypeOK, CurrentAreAnswered, Published
<1> QED  BY <1>4, <1>5, <1>6 DEF IInv

LEMMA PublishInv ==
    ASSUME IInv, NEW k \in Keys, Publish(k)
    PROVE  IInv'
BY DEF IInv, TypeOK, RequestsAreOpen, SetsAreDated, CurrentAreAnswered, PublishedAt, Publish,
       call, request

\* A key is withdrawn now, after the date of every set that contains it.
LEMMA RetireInv ==
    ASSUME IInv, NEW k \in Keys, Retire(k)
    PROVE  IInv'
<1>1. UNCHANGED <<clock, published, cache, loadedAt, pc, op, key, began, current, asked, reply, forced>>
    BY DEF Retire, call, request
<1>2. retiredAt[k] = None /\ retiredAt' = [retiredAt EXCEPT ![k] = clock] /\ clock \in Nat /\ clock # None
    BY NoneAssumption DEF IInv, TypeOK, Retire, Published
<1>3. TypeOK' /\ RequestsAreOpen'
    BY <1>1, <1>2 DEF IInv, TypeOK, RequestsAreOpen
<1>4. ASSUME NEW set \in SUBSET Keys, NEW date \in Nat, date <= clock, PublishedAt(set, date)
      PROVE  PublishedAt(set, date)'
    BY <1>1, <1>2, <1>4 DEF IInv, TypeOK, PublishedAt
<1>5. SetsAreDated'
    <2>1. cache["keys"] # None => PublishedAt(cache["keys"], loadedAt["keys"])'
        BY <1>1, <1>4 DEF IInv, TypeOK, SetsAreDated, Docs
    <2>2. \A c \in Callers :
              pc[c] = "keys" /\ reply[c] # None => PublishedAt(reply[c], asked[c])'
        BY <1>1, <1>4 DEF IInv, TypeOK, SetsAreDated, RequestsAreOpen
    <2> QED  BY <1>1, <2>1, <2>2 DEF IInv, SetsAreDated
<1>6. CurrentAreAnswered'
    BY <1>1, <1>2 DEF IInv, TypeOK, CurrentAreAnswered
<1> QED  BY <1>3, <1>5, <1>6 DEF IInv

LEMMA TickInv == ASSUME IInv, Tick PROVE IInv'
<1>1. UNCHANGED <<published, retiredAt, cache, loadedAt, pc, op, key, began, current, asked, reply, forced>>
    BY DEF Tick, provider, call, request
<1>2. clock \in Nat /\ clock' = clock + 1 /\ clock' \in 0..MaxClock
    BY CacheAssumption DEF IInv, TypeOK, Tick
<1>3. TypeOK'
    BY <1>1, <1>2 DEF IInv, TypeOK
<1>4. RequestsAreOpen'
    BY <1>1, <1>2 DEF IInv, TypeOK, RequestsAreOpen
<1>5. SetsAreDated'
    BY <1>1, <1>2 DEF IInv, TypeOK, SetsAreDated, PublishedAt, Docs
<1>6. CurrentAreAnswered'
    BY <1>1 DEF IInv, CurrentAreAnswered
<1> QED  BY <1>3, <1>4, <1>5, <1>6 DEF IInv

LEMMA StepInv == IInv /\ [Next]_vars => IInv'
<1> SUFFICES ASSUME IInv, [Next]_vars
             PROVE  IInv'
    OBVIOUS
<1>1. CASE UNCHANGED vars
    BY <1>1
    DEF IInv, TypeOK, RequestsAreOpen, SetsAreDated, CurrentAreAnswered, PublishedAt, vars,
        provider, call, request
<1>2. CASE Next
    BY <1>2, UseCachedInv, ReceiveInv, UnavailableInv, PostInv, StartInv, AskInv, ReplyInv,
       PublishInv, RetireInv, TickInv DEF Next, Step
<1> QED  BY <1>1, <1>2

LEMMA Invariant == Spec => []IInv
BY InitInv, StepInv, PTL DEF Spec

-----------------------------------------------------------------------------
\* The clock, the provider, the caches and the calls keep their types.
THEOREM Types == Spec => []TypeOK
<1>1. IInv => TypeOK
    BY DEF IInv
<1> QED  BY <1>1, Invariant, PTL

\* A verification ends when its call uses a key set, cached or received.
LEMMA VerificationEnds ==
    ASSUME IInv, [Next]_vars, NEW c \in Callers,
           Ends(c, "verified") \/ Ends(c, "rejected")
    PROVE  UseCached(c) \/ Receive(c)
<1>1. PICK d \in Callers : Start(d) \/ Reply(d) \/ Step(d)
    BY DEF Next, vars, Ends, Publish, Retire, Tick
<1>2. CASE Start(d) \/ Reply(d) \/ Ask(d)
    BY <1>2 DEF IInv, TypeOK, Ends, Start, Reply, Ask
<1>3. CASE Unavailable(d)
    <2>1. CallStep(d) /\ pc'[d] = "idle"
        BY <1>3, FinishEffect DEF Unavailable, Ended
    <2> QED  BY <2>1 DEF CallStep, Ends
<1>4. CASE Post(d)
    <2>1. CallStep(d) /\ pc'[d] \in {"idle", "keys"}
        BY <1>4, FinishEffect, GotoEffect DEF Post, Ended, Docs
    <2> QED  BY <2>1 DEF CallStep, Ends
<1>5. CASE UseCached(d)
    <2>1. CallStep(d)
        BY <1>5, UseEffect DEF UseCached, Needs
    <2> QED  BY <1>5, <2>1 DEF CallStep, Ends
<1>6. CASE Receive(d)
    <2>1. CallStep(d)
        BY <1>6, UseEffect DEF IInv, RequestsAreOpen, Receive, Answered
    <2> QED  BY <1>6, <2>1 DEF CallStep, Ends
<1> QED  BY <1>1, <1>2, <1>3, <1>4, <1>5, <1>6 DEF Step

\* A withdrawn key verifies nothing once the cache period is over.
THEOREM WithdrawnExpire == Spec => RetiredKeysExpire
<1>1. ASSUME IInv, [Next]_vars, NEW c \in Callers, Ends(c, "verified")
      PROVE  /\ key[c] \in published
             /\ \/ retiredAt[key[c]] = None
                \/ retiredAt[key[c]] + CacheSeconds > began[c]
    <2>1. CASE UseCached(c)
        <3>1. /\ pc[c] = "keys" /\ key[c] \in cache["keys"]
              /\ cache["keys"] # None /\ clock - loadedAt["keys"] < CacheSeconds
            BY <1>1, <2>1, UseEffect DEF UseCached, Needs, Ends, Fresh
        <3>2. PublishedAt(cache["keys"], loadedAt["keys"]) /\ began[c] <= clock
            BY <1>1, <3>1 DEF IInv, SetsAreDated, RequestsAreOpen
        <3> QED  BY <1>1, <3>1, <3>2, CacheAssumption DEF IInv, TypeOK, PublishedAt, Docs
    <2>2. CASE Receive(c)
        <3>1. pc[c] = "keys" /\ key[c] \in reply[c] /\ reply[c] # None
            BY <1>1, <2>2, UseEffect DEF IInv, RequestsAreOpen, Receive, Answered, Ends
        <3>2. PublishedAt(reply[c], asked[c]) /\ asked[c] \in Nat /\ began[c] <= asked[c]
            BY <1>1, <3>1 DEF IInv, TypeOK, SetsAreDated, RequestsAreOpen
        <3> QED  BY <1>1, <3>1, <3>2, CacheAssumption DEF IInv, TypeOK, PublishedAt
    <2> QED  BY <1>1, <2>1, <2>2, VerificationEnds
<1>2. IInv /\ [Next]_vars => [\A c \in Callers : Ends(c, "verified") =>
          /\ key[c] \in published
          /\ \/ retiredAt[key[c]] = None
             \/ retiredAt[key[c]] + CacheSeconds > began[c]]_vars
    BY <1>1
<1> QED  BY <1>2, Invariant, PTL DEF Spec, RetiredKeysExpire

\* A token of a key that is published throughout is not taken for a bad one.
THEOREM CurrentVerify == Spec => CurrentKeysVerify
<1>1. ASSUME IInv, [Next]_vars, NEW c \in Callers, Ends(c, "rejected"), current[c]
      PROVE  retiredAt[key[c]] # None
    <2>1. ~UseCached(c)
        BY <1>1, UseEffect DEF UseCached, Needs, Ends
    <2>2. Receive(c)
        BY <1>1, <2>1, VerificationEnds
    <2>3. pc[c] = "keys" /\ key[c] \notin reply[c] /\ reply[c] # None
        BY <1>1, <2>2, UseEffect DEF IInv, RequestsAreOpen, Receive, Answered, Ends
    <2> QED  BY <1>1, <2>3 DEF IInv, CurrentAreAnswered
<1>2. IInv /\ [Next]_vars => [\A c \in Callers :
          Ends(c, "rejected") /\ current[c] => retiredAt[key[c]] # None]_vars
    BY <1>1
<1> QED  BY <1>2, Invariant, PTL DEF Spec, CurrentKeysVerify
=============================================================================
