------------------------- MODULE DownstreamTokenProofs -------------------------
(***************************************************************************)
(* Proofs about the shared service token, for any callers, lifetimes and   *)
(* delays.                                                                 *)
(*                                                                         *)
(* The client dates a token late by the delay of its answer, and by what   *)
(* it adds to the lifetime, and no more.  And a token is on its way only   *)
(* while somebody owns the lock.                                           *)
(***************************************************************************)
EXTENDS DownstreamToken, TLAPS

FlightIsOwned == issued # None => owner # None /\ issued <= clock

DatedLate == validUntil # None => expiresAt <= validUntil + delay + overstated

IInv == TypeOK /\ OneExchangeAtATime /\ FlightIsOwned /\ DatedLate

LEMMA InitInv == Init => IInv
BY NoneAssumption, TimeAssumption
DEF Init, IInv, TypeOK, PCs, OneExchangeAtATime, FlightIsOwned, DatedLate

\* Whoever gets the lock keeps it for an exchange, or gives it back.
LEMMA SecondCheckInv ==
    ASSUME IInv, NEW c \in Callers, owner = None, SecondCheck(c)
    PROVE  /\ pc' \in [Callers -> PCs] /\ owner' \in Callers \union {None}
           /\ OneExchangeAtATime'
BY NoneAssumption DEF IInv, TypeOK, PCs, OneExchangeAtATime, SecondCheck, Goto

LEMMA RequestInv ==
    ASSUME IInv, NEW c \in Callers, RequestJson(c)
    PROVE  IInv'
<1>1. pc[c] = "idle" /\ UNCHANGED <<clock, token, flight>>
    BY DEF RequestJson
<1>2. CASE Usable /\ Goto(c, "sending") /\ UNCHANGED <<owner, waiters>>
    BY <1>1, <1>2
    DEF IInv, TypeOK, PCs, OneExchangeAtATime, FlightIsOwned, DatedLate, Goto, token, flight
<1>3. CASE ~Usable /\ owner = None /\ waiters = <<>> /\ SecondCheck(c) /\ UNCHANGED waiters
    BY <1>1, <1>3, SecondCheckInv DEF IInv, TypeOK, FlightIsOwned, DatedLate, token, flight
<1>4. CASE waiters' = Append(waiters, c) /\ Goto(c, "waiting") /\ UNCHANGED owner
    <2>1. waiters' \in Seq(Callers)
        BY <1>4 DEF IInv, TypeOK
    <2> QED  BY <1>1, <1>4, <2>1
        DEF IInv, TypeOK, PCs, OneExchangeAtATime, FlightIsOwned, DatedLate, Goto, token, flight
<1> QED  BY <1>2, <1>3, <1>4 DEF RequestJson

LEMMA AcquireInv ==
    ASSUME IInv, NEW c \in Callers, Acquire(c)
    PROVE  IInv'
<1>1. waiters' \in Seq(Callers)
    BY DEF IInv, TypeOK, Acquire
<1> QED  BY <1>1, SecondCheckInv
    DEF IInv, TypeOK, FlightIsOwned, DatedLate, Acquire, token, flight

LEMMA IssueInv ==
    ASSUME IInv, NEW c \in Callers, Issue(c)
    PROVE  IInv'
<1>1. owner = c /\ c # None
    BY NoneAssumption DEF IInv, OneExchangeAtATime, Issue
<1> QED  BY <1>1, TimeAssumption
    DEF IInv, TypeOK, OneExchangeAtATime, FlightIsOwned, DatedLate, Issue, token

\* The client takes a token for as long as it was issued and the excess.
LEMMA TtlBound ==
    ASSUME NEW life \in Nat, NEW seconds \in {life, None}
    PROVE  /\ Ttl(seconds) \in Nat /\ Excess(Ttl(seconds), life) \in Nat
           /\ Ttl(seconds) <= life + Excess(Ttl(seconds), life)
<1>1. Ttl(seconds) \in Nat
    BY NoneAssumption, TimeAssumption DEF Ttl
<1> QED  BY <1>1 DEF Excess

LEMMA ReceiveInv ==
    ASSUME IInv, NEW c \in Callers, Receive(c)
    PROVE  IInv'
<1>1. PICK seconds \in {lifetime, None} :
        expiresAt' = clock + Ttl(seconds) /\ overstated' = Excess(Ttl(seconds), lifetime)
    BY DEF Receive
<1>2. Ttl(seconds) \in Nat /\ overstated' \in Nat /\ Ttl(seconds) <= lifetime + overstated'
    BY <1>1, TtlBound DEF IInv, TypeOK
<1>3. issued \in Nat /\ issued <= clock /\ delay' = clock - issued /\ delay' \in Nat
    BY DEF IInv, TypeOK, FlightIsOwned, Receive
<1>4. DatedLate' /\ expiresAt' \in Nat /\ validUntil' \in Nat
    <2>1. clock \in Nat /\ lifetime \in Nat /\ validUntil' = issued + lifetime
        BY TimeAssumption DEF IInv, TypeOK, Receive
    <2> QED  BY <1>1, <1>2, <1>3, <2>1 DEF DatedLate
<1>5. pc' \in [Callers -> PCs] /\ OneExchangeAtATime'
    BY NoneAssumption DEF IInv, TypeOK, PCs, OneExchangeAtATime, Receive, Goto
<1> QED  BY <1>2, <1>3, <1>4, <1>5 DEF IInv, TypeOK, FlightIsOwned, Receive

LEMMA FailureInv ==
    ASSUME IInv, NEW c \in Callers, ExchangeFails(c) \/ Respond(c) \/ CancelWaiter(c)
    PROVE  IInv'
<1>1. waiters' \in Seq(Callers)
    <2>1. CASE CancelWaiter(c)
        <3>1. PICK i \in 1..Len(waiters) : waiters' = RemoveAt(waiters, i)
            BY <2>1 DEF CancelWaiter
        <3>2. /\ waiters \in Seq(Callers) /\ Len(waiters) \in Nat /\ i \in Int
              /\ SubSeq(waiters, 1, i - 1) \in Seq(Callers)
              /\ SubSeq(waiters, i + 1, Len(waiters)) \in Seq(Callers)
            BY <3>1 DEF IInv, TypeOK
        <3> QED  BY <3>1, <3>2 DEF RemoveAt
    <2> QED  BY <2>1 DEF IInv, TypeOK, ExchangeFails, Respond
<1>2. TypeOK'
    BY <1>1 DEF IInv, TypeOK, PCs, ExchangeFails, Respond, CancelWaiter, Goto, token, flight
<1>3. OneExchangeAtATime'
    BY NoneAssumption
    DEF IInv, TypeOK, OneExchangeAtATime, ExchangeFails, Respond, CancelWaiter, Goto
<1>4. FlightIsOwned' /\ DatedLate'
    BY DEF IInv, FlightIsOwned, DatedLate, ExchangeFails, Respond, CancelWaiter, token, flight
<1> QED  BY <1>2, <1>3, <1>4 DEF IInv

LEMMA TickInv == ASSUME IInv, Tick PROVE IInv'
BY TimeAssumption
DEF IInv, TypeOK, OneExchangeAtATime, FlightIsOwned, DatedLate, Tick, token, flight

LEMMA StepInv == IInv /\ [Next]_vars => IInv'
<1> SUFFICES ASSUME IInv, [Next]_vars
             PROVE  IInv'
    OBVIOUS
<1>1. CASE UNCHANGED vars
    BY <1>1 DEF IInv, TypeOK, OneExchangeAtATime, FlightIsOwned, DatedLate, vars, token, flight
<1>2. CASE Next
    BY <1>2, RequestInv, AcquireInv, IssueInv, ReceiveInv, FailureInv, TickInv DEF Next, Step
<1> QED  BY <1>1, <1>2

LEMMA Invariant == Spec => []IInv
BY InitInv, StepInv, PTL DEF Spec

-----------------------------------------------------------------------------
\* The clock, the callers, the lock, its queue and the token keep their types.
THEOREM Types == Spec => []TypeOK
<1>1. IInv => TypeOK
    BY DEF IInv
<1> QED  BY <1>1, Invariant, PTL

\* A token the client would hand out is past its end by no more than its
\* answer's delay and its ttl's excess leave over of the margin.
THEOREM BoundedStaleness == Spec => []StaleTokensAreBounded
<1>1. IInv => StaleTokensAreBounded
    BY TimeAssumption, NoneAssumption
    DEF IInv, TypeOK, DatedLate, Usable, StaleTokensAreBounded
<1> QED  BY <1>1, Invariant, PTL

\* The lock belongs to the one caller whose exchange is in flight.
THEOREM OneExchange == Spec => []OneExchangeAtATime
<1>1. IInv => OneExchangeAtATime
    BY DEF IInv
<1> QED  BY <1>1, Invariant, PTL

\* No exchange starts while a token is usable or another is on its way.
THEOREM NeededExchanges == Spec => ExchangesAreNeeded
<1>1. ASSUME IInv, [Next]_vars, NEW c \in Callers, pc[c] # "exchange", pc'[c] = "exchange"
      PROVE  ~Usable /\ issued = None
    <2>1. PICK d \in Callers : RequestJson(d) \/ Acquire(d)
        BY <1>1 DEF IInv, TypeOK, Next, Step, vars, Issue, Receive, ExchangeFails, Respond,
                    CancelWaiter, Tick, Goto
    <2> QED  BY <1>1, <2>1
        DEF IInv, TypeOK, FlightIsOwned, RequestJson, Acquire, SecondCheck, Goto
<1>2. IInv /\ [Next]_vars => [\A c \in Callers :
          pc[c] # "exchange" /\ pc'[c] = "exchange" => ~Usable /\ issued = None]_vars
    BY <1>1
<1> QED  BY <1>2, Invariant, PTL DEF Spec, ExchangesAreNeeded
=============================================================================
