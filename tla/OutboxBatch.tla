----------------------------- MODULE OutboxBatch -----------------------------
(***************************************************************************)
(* claim_batch, mark_published and mark_failed: publishers lease batches   *)
(* of outbox rows and record what became of each message.                  *)
(*                                                                         *)
(* Every call is a transaction of its own.  NOW() is the instant the       *)
(* transaction began; clock_timestamp() is the instant a statement runs.   *)
(* Time may pass between BEGIN, the statement, COMMIT and the answer, so   *)
(* a slow claim may hand out a lease that is over before anyone holds it.  *)
(*                                                                         *)
(* Nothing binds a publisher to its batch: it may claim again while it     *)
(* holds entries of earlier claims, even the same message once more, and   *)
(* it answers entries in any order, late, repeatedly or never.             *)
(***************************************************************************)
EXTENDS Naturals, FiniteSets

CONSTANTS
    Messages,       \* numbers, in the order of created_at, id
    Owners,         \* publishers, each with an owner string of its own
    None,           \* nobody, no transaction
    NotBefore,      \* the not-before instant of each message
    Limit,          \* the largest batch
    LeaseSeconds, RetrySeconds,
    MaxClock        \* bound on the instants explored

ASSUME MessageAssumption == Messages \subseteq Nat /\ NotBefore \in [Messages -> Nat]
ASSUME OwnerAssumption == None \notin Owners \union Nat
ASSUME PolicyAssumption ==
    /\ Limit \in Nat \ {0} /\ LeaseSeconds \in Nat \ {0}
    /\ RetrySeconds \in Nat \ {0} /\ MaxClock \in Nat

VARIABLES
    row,        \* outbox_message, committed
    draft,      \* rows an open transaction has locked and rewritten
    clock,      \* the clock of PostgreSQL
    now,        \* NOW() of a publisher's open transaction, or None
    batch,      \* claims in a publisher's hands: <<message, attempt_count>>
    recording,  \* the claim whose outcome its transaction records, or None
    overdue,    \* history: grants that were over when they were committed
    again       \* history: those in hand whose owner claimed the message anew

vars == <<row, draft, clock, now, batch, recording, overdue, again>>

Row == [status : {"pending", "delivering", "published"}, owner : Owners \union {None},
        lease : Nat, available : Nat, attempts : Nat]

Claims == Messages \X Nat

\* A function of some of the messages.
IsPartial(f, S) == DOMAIN f \subseteq Messages /\ f \in [DOMAIN f -> S]

Init ==
    /\ row = [m \in Messages |-> [status |-> "pending", owner |-> None, lease |-> 0,
                                  available |-> NotBefore[m], attempts |-> 0]]
    /\ draft = [o \in Owners |-> <<>>]
    /\ clock = 0
    /\ now = [o \in Owners |-> None]
    /\ batch = [o \in Owners |-> {}]
    /\ recording = [o \in Owners |-> None]
    /\ overdue = {}
    /\ again = [o \in Owners |-> {}]

-----------------------------------------------------------------------------
\* Rows locked by an open transaction.
Locked(m) == \E o \in Owners : m \in DOMAIN draft[o]

\* A faulty variant: rows being delivered are taken whatever their lease.
Candidate_AnyLease(o, m) ==
    /\ row[m].available <= now[o] /\ NotBefore[m] <= clock
    /\ row[m].status \in {"pending", "delivering"}

\* The WHERE clause of the claim.
Candidate(o, m) ==
    /\ row[m].available <= now[o]
    /\ NotBefore[m] <= clock
    /\ \/ row[m].status = "pending"
       \/ row[m].status = "delivering" /\ row[m].lease < now[o]

\* ORDER BY, SKIP LOCKED and LIMIT: the first rows that are not locked.
Chosen(o) ==
    LET free == {m \in Messages : Candidate(o, m) /\ ~Locked(m)}
    IN  {m \in free : Cardinality({n \in free : n < m}) < Limit}

Claimed(o, m) ==
    [row[m] EXCEPT !.status = "delivering", !.owner = o,
                   !.lease = now[o] + LeaseSeconds, !.attempts = @ + 1]

\* Faulty variants: the owner, or the lease, is not compared.
Marks_AnyOwner(o, m) == row[m].status = "delivering" /\ row[m].lease > clock
Marks_AnyLease(o, m) == row[m].status = "delivering" /\ row[m].owner = o

\* The WHERE clause of both marks.
Marks(o, m) ==
    row[m].status = "delivering" /\ row[m].owner = o /\ row[m].lease > clock

Published(m) == [row[m] EXCEPT !.status = "published", !.owner = None, !.lease = 0]

Failed(o, m) ==
    [row[m] EXCEPT !.status = "pending", !.owner = None, !.lease = 0,
                   !.available = now[o] + RetrySeconds]

-----------------------------------------------------------------------------
\* A transaction begins: NOW() is fixed.
Begin(o) ==
    /\ now[o] = None
    /\ now' = [now EXCEPT ![o] = clock]
    /\ UNCHANGED <<row, draft, clock, batch, recording, overdue, again>>

\* claim_batch, whatever the publisher still has in hand.
ClaimBatch(o) ==
    /\ now[o] # None /\ draft[o] = <<>>
    /\ Chosen(o) # {}
    /\ draft' = [draft EXCEPT ![o] = [m \in Chosen(o) |-> Claimed(o, m)]]
    /\ UNCHANGED <<row, clock, now, batch, recording, overdue, again>>

\* mark_published and mark_failed wait for the row lock and then write; they
\* are told the message, not which claim of it the outcome is about ...
Mark(o, claim) ==
    LET m == claim[1]
    IN  /\ now[o] # None /\ draft[o] = <<>>
        /\ ~Locked(m) /\ Marks(o, m)
        /\ \E outcome \in {Published(m), Failed(o, m)} :
              draft' = [draft EXCEPT ![o] = [n \in {m} |-> outcome]]
        /\ recording' = [recording EXCEPT ![o] = claim]
        /\ UNCHANGED <<row, clock, now, batch, overdue, again>>

\* ... or find no such delivery and raise: the transaction rolls back.
MarkTooLate(o, claim) ==
    /\ now[o] # None /\ draft[o] = <<>>
    /\ ~Locked(claim[1]) /\ ~Marks(o, claim[1])
    /\ batch' = [batch EXCEPT ![o] = @ \ {claim}]
    /\ again' = [again EXCEPT ![o] = @ \ {claim}]
    /\ now' = [now EXCEPT ![o] = None]
    /\ UNCHANGED <<row, draft, clock, recording, overdue>>

Grants(o) == {m \in DOMAIN draft[o] : draft[o][m].status = "delivering"}

Granted(o) == {<<m, draft[o][m].attempts>> : m \in Grants(o)}

EndTransaction(o) ==
    /\ draft' = [draft EXCEPT ![o] = <<>>]
    /\ recording' = [recording EXCEPT ![o] = None]
    /\ now' = [now EXCEPT ![o] = None]

\* COMMIT: a claim's rows are returned, a marked claim is done with; or the
\* answer is lost, and the publisher has what it had.
Commit(o) ==
    /\ now[o] # None
    /\ row' = [m \in Messages |-> IF m \in DOMAIN draft[o] THEN draft[o][m] ELSE row[m]]
    /\ batch' \in {batch, [batch EXCEPT ![o] = (@ \ {recording[o]}) \union Granted(o)]}
    /\ overdue' = overdue \union {claim \in Granted(o) : draft[o][claim[1]].lease <= clock}
    /\ again' = [again EXCEPT ![o] =
          {claim \in batch[o] \intersect batch'[o] :
              claim \in again[o] \/ claim[1] \in Grants(o)}]
    /\ EndTransaction(o)
    /\ UNCHANGED clock

\* A statement or COMMIT fails: the publisher goes on with what it had ...
Rollback(o) ==
    /\ now[o] # None
    /\ EndTransaction(o)
    /\ UNCHANGED <<row, clock, batch, overdue, again>>

\* ... or it dies, and its batch is forgotten.
Crash(o) ==
    /\ batch' = [batch EXCEPT ![o] = {}]
    /\ again' = [again EXCEPT ![o] = {}]
    /\ EndTransaction(o)
    /\ UNCHANGED <<row, clock, overdue>>

Tick ==
    /\ clock < MaxClock /\ clock' = clock + 1
    /\ UNCHANGED <<row, draft, now, batch, recording, overdue, again>>

Next ==
    \/ \E o \in Owners :
          \/ Begin(o) \/ ClaimBatch(o) \/ Commit(o) \/ Rollback(o) \/ Crash(o)
          \/ \E claim \in batch[o] : Mark(o, claim) \/ MarkTooLate(o, claim)
    \/ Tick

Spec == Init /\ [][Next]_vars

-----------------------------------------------------------------------------
(* Properties.                                                             *)

TypeOK ==
    /\ row \in [Messages -> Row]
    /\ \A o \in Owners : IsPartial(draft[o], Row)
    /\ batch \in [Owners -> SUBSET Claims]
    /\ recording \in [Owners -> Claims \union {None}]
    /\ clock \in 0..MaxClock
    /\ now \in [Owners -> Nat \union {None}]
    /\ overdue \subseteq Claims
    /\ again \in [Owners -> SUBSET Claims]

\* What a publisher records never touches somebody else's claim, however
\* late it comes and whoever claimed in between.  It is about the very claim
\* it answers, unless the publisher itself claimed the message again before:
\* rows carry no claim number, so the outcome then goes to its own new claim.
MarksOwnClaim ==
    [][\A o \in Owners, m \in Messages :
          m \in DOMAIN draft[o] /\ row'[m] # row[m] /\ row'[m].status # "delivering"
              => /\ row[m].owner = o
                 /\ \/ recording[o] = <<m, row[m].attempts>>
                    \/ recording[o] \in again[o]]_vars

\* No delivery is taken over while its lease is live by the clock of the
\* database, however late the transaction that takes over began.
NoTakeoverOfLiveLease ==
    [][\A m \in Messages :
          row[m].status = "delivering" /\ row'[m].attempts > row[m].attempts
              => row[m].lease < clock]_vars

\* A lease that was over when its claim committed is good for nothing: the
\* publisher can record no outcome under it, so somebody else will claim.
OverdueGrantsRecordNothing ==
    [][\A m \in Messages :
          <<m, row[m].attempts>> \in overdue /\ row'[m] # row[m]
              => row'[m].attempts = row[m].attempts + 1]_vars
=============================================================================
