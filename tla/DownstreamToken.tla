--------------------------- MODULE DownstreamToken ---------------------------
(***************************************************************************)
(* DownstreamServiceClient: concurrent requests share one service token.   *)
(*                                                                         *)
(* _token is checked, and checked again under an asyncio.Lock, which hands *)
(* itself over in the order of arrival.  The issuer dates a token from the *)
(* moment it issues it; the client dates it from the moment the answer     *)
(* arrives, and trusts it until Margin (30 seconds) before its end.        *)
(* Callers may be cancelled at any await.                                  *)
(***************************************************************************)
EXTENDS Naturals, SequencesExt

CONSTANTS
    Callers,        \* tasks that may call request_json at the same time
    None,           \* no token, nobody, no expires_in
    Lifetimes,      \* seconds for which the issuer issues tokens
    DefaultTtl,     \* the 300 seconds assumed when expires_in is absent
    MaxTtl,         \* the 3600 seconds after which a token is renewed anyway
    Margin,         \* the 30 seconds before its end a token is given up
    MaxClock        \* bound on the instants explored

ASSUME NoneAssumption == None \notin Callers \union Nat
ASSUME TimeAssumption ==
    /\ Lifetimes \subseteq Nat /\ MaxClock \in Nat
    /\ {DefaultTtl, MaxTtl, Margin} \subseteq Nat \ {0}

VARIABLES
    clock,      \* time.monotonic()
    pc,         \* where each caller is
    owner,      \* who holds _token_lock
    waiters,    \* who waits for it, first come first served
    issued,     \* when the issuer issued the token on its way, or None
    lifetime,   \* for how long
    validUntil, \* when _access_token really ends, or None without a token
    expiresAt,  \* _access_token_expires_at
    delay,      \* history: how long the answer with that token took
    overstated  \* history: seconds its ttl exceeds its real lifetime by

vars == <<clock, pc, owner, waiters, issued, lifetime, validUntil, expiresAt,
          delay, overstated>>
token == <<validUntil, expiresAt, delay, overstated>>
flight == <<issued, lifetime>>

PCs == {"idle", "waiting", "exchange", "sending"}

TypeOK ==
    /\ clock \in 0..MaxClock
    /\ pc \in [Callers -> PCs]
    /\ owner \in Callers \union {None}
    /\ waiters \in Seq(Callers)
    /\ issued \in Nat \union {None}
    /\ lifetime \in Nat
    /\ validUntil \in Nat \union {None}
    /\ expiresAt \in Nat /\ delay \in Nat /\ overstated \in Nat

Init ==
    /\ clock = 0
    /\ pc = [c \in Callers |-> "idle"]
    /\ owner = None
    /\ waiters = <<>>
    /\ issued = None
    /\ lifetime = 0
    /\ validUntil = None
    /\ expiresAt = 0
    /\ delay = 0 /\ overstated = 0

-----------------------------------------------------------------------------
Goto(c, label) == pc' = [pc EXCEPT ![c] = label]

\* A faulty variant: the margin is added to the wrong side.
Usable_LateMargin == validUntil # None /\ expiresAt + Margin > clock

\* The first, and the second, check of _token.
Usable == validUntil # None /\ expiresAt > clock + Margin

\* max(1, min(int(expires_in), 3600)), or 300 without a usable expires_in.
Ttl(seconds) ==
    CASE seconds = None   -> DefaultTtl
      [] seconds = 0      -> 1
      [] seconds > MaxTtl -> MaxTtl
      [] OTHER            -> seconds

Excess(ttl, life) == IF ttl > life THEN ttl - life ELSE 0

\* A faulty variant: no second check.
SecondCheck_Missing(c) == owner' = c /\ Goto(c, "exchange")

\* The caller has the lock: somebody else may have fetched a token meanwhile.
SecondCheck(c) ==
    IF Usable THEN owner' = None /\ Goto(c, "sending")
              ELSE owner' = c /\ Goto(c, "exchange")

-----------------------------------------------------------------------------
\* request_json with an allowed route; any other is refused before _token.
RequestJson(c) ==
    /\ pc[c] = "idle"
    /\ \/ Usable /\ Goto(c, "sending") /\ UNCHANGED <<owner, waiters>>
       \/ /\ ~Usable /\ owner = None /\ waiters = <<>>
          /\ SecondCheck(c) /\ UNCHANGED waiters
       \/ /\ ~Usable /\ ~(owner = None /\ waiters = <<>>)
          /\ waiters' = Append(waiters, c)
          /\ Goto(c, "waiting")
          /\ UNCHANGED owner
    /\ UNCHANGED <<clock, token, flight>>

\* The lock is free and its first waiter runs.
Acquire(c) ==
    /\ owner = None /\ waiters # <<>> /\ Head(waiters) = c
    /\ waiters' = Tail(waiters)
    /\ SecondCheck(c)
    /\ UNCHANGED <<clock, token, flight>>

\* exchange_client_credentials: the issuer issues a token ...
Issue(c) ==
    /\ pc[c] = "exchange" /\ issued = None
    /\ issued' = clock
    /\ lifetime' \in Lifetimes
    /\ UNCHANGED <<clock, pc, owner, waiters, token>>

\* ... and its answer arrives: with the real lifetime, or with none that can
\* be used, and however long the issuer and the network took.
Receive(c) ==
    /\ pc[c] = "exchange" /\ issued # None
    /\ validUntil' = issued + lifetime
    /\ delay' = clock - issued
    /\ \E seconds \in {lifetime, None} :
          /\ expiresAt' = clock + Ttl(seconds)
          /\ overstated' = Excess(Ttl(seconds), lifetime)
    /\ issued' = None /\ lifetime' = 0
    /\ owner' = None
    /\ Goto(c, "sending")
    /\ UNCHANGED <<clock, waiters>>

\* A faulty variant: the lock is not released when the exchange raises.
ExchangeFails_KeepsLock(c) ==
    /\ pc[c] = "exchange"
    /\ issued' = None /\ lifetime' = 0
    /\ Goto(c, "idle")
    /\ UNCHANGED <<clock, token, owner, waiters>>

\* require_downstream_identity finds no configuration, or the provider is
\* unavailable, rejects the client or answers nonsense, or c is cancelled.
ExchangeFails(c) ==
    /\ pc[c] = "exchange"
    /\ issued' = None /\ lifetime' = 0
    /\ owner' = None
    /\ Goto(c, "idle")
    /\ UNCHANGED <<clock, token, waiters>>

\* The request is sent with the token and answered, rejected or lost: the
\* token stays whatever the answer.
Respond(c) ==
    /\ pc[c] = "sending"
    /\ Goto(c, "idle")
    /\ UNCHANGED <<clock, owner, waiters, token, flight>>

\* A waiting caller is cancelled; the others keep their places.
CancelWaiter(c) ==
    /\ pc[c] = "waiting"
    /\ \E i \in 1..Len(waiters) : waiters[i] = c /\ waiters' = RemoveAt(waiters, i)
    /\ Goto(c, "idle")
    /\ UNCHANGED <<clock, owner, token, flight>>

Tick ==
    /\ clock < MaxClock
    /\ clock' = clock + 1
    /\ UNCHANGED <<pc, owner, waiters, token, flight>>

Step(c) == Acquire(c) \/ Receive(c) \/ ExchangeFails(c) \/ Respond(c)

Next ==
    \/ \E c \in Callers : RequestJson(c) \/ Issue(c) \/ Step(c) \/ CancelWaiter(c)
    \/ Tick

Spec == Init /\ [][Next]_vars

\* The event loop runs ready tasks and HTTP calls end, by timeout at last.
FairSpec == Spec /\ \A c \in Callers : WF_vars(Step(c))

-----------------------------------------------------------------------------
(* Properties.                                                             *)

\* A token the client would still hand out is past its end by no more than
\* its answer's delay and its ttl's excess leave over of the margin: whatever
\* happens while others fetch, wait, fail or are cancelled, a token with a
\* stated lifetime is valid when its answer took no longer than Margin.
StaleTokensAreBounded == Usable => clock + Margin < validUntil + delay + overstated

\* However many callers find the token gone at once, one exchange is in
\* flight, and the lock belongs to the one who waits for it.
OneExchangeAtATime ==
    \A c \in Callers : pc[c] = "exchange" <=> owner = c

\* The token a waiter finds when its turn comes is not fetched again: while
\* a token is usable no exchange starts.
ExchangesAreNeeded ==
    [][\A c \in Callers :
          pc[c] # "exchange" /\ pc'[c] = "exchange" => ~Usable /\ issued = None]_vars

\* A failed or cancelled exchange does not leave the others waiting.
EveryRequestEnds == \A c \in Callers : pc[c] # "idle" ~> pc[c] = "idle"
=============================================================================
