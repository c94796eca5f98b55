---------------------------- MODULE OutboxEnqueue ----------------------------
(***************************************************************************)
(* enqueue: business transactions add intents to outbox_message under a    *)
(* unique deduplication key.                                               *)
(*                                                                         *)
(* Each transaction makes any number of calls and then commits, or rolls   *)
(* back at any moment.  An INSERT that meets the uncommitted row of        *)
(* another transaction waits for it; ON CONFLICT DO UPDATE locks the       *)
(* existing row whether or not its WHERE clause lets the update through.   *)
(* A row's id is the pair of its transaction and key: an inserted row can  *)
(* be inserted by one call only, so the pair is as unique as uuid4.        *)
(***************************************************************************)
CONSTANTS
    Transactions,   \* business transactions, one attempt each
    Keys,           \* deduplication keys
    Bodies,         \* topic, aggregate key, payload and caller's headers
    Instants,       \* not-before instants, in UTC
    None            \* no row, no call, no instant

ASSUME NoneAssumption ==
    /\ None \notin Transactions \union Instants
    /\ None \notin Transactions \X Keys

VARIABLES
    table,      \* committed rows, by deduplication key
    mine,       \* rows a transaction has inserted and not committed
    lock,       \* the transaction that inserted or locked the row of a key
    state,      \* open, committed or rolled back
    call,       \* the enqueue call a transaction is executing
    answers     \* what its calls returned: the id, or None for ValueError

vars == <<table, mine, lock, state, call, answers>>

\* An event as the caller built it.  reserved is the delivery header placed
\* in headers by hand, notBefore the field meant for it.
Event == [body : Bodies, reserved : Instants \union {None},
          notBefore : Instants \union {None}]

Intent == [body : Bodies, header : Instants \union {None}]
Id == Transactions \X Keys
Row == [id : Id, intent : Intent]
Call == [key : Keys, event : Event]
Answer == [key : Keys, intent : Intent, id : Id \union {None}]

ASSUME RowAssumption == None \notin Row

TypeOK ==
    /\ table \in [Keys -> Row \union {None}]
    /\ mine \in [Transactions -> [Keys -> Row \union {None}]]
    /\ lock \in [Keys -> Transactions \union {None}]
    /\ state \in [Transactions -> {"open", "committed", "rolled back"}]
    /\ call \in [Transactions -> Call \union {None}]
    /\ answers \in [Transactions -> SUBSET Answer]

Init ==
    /\ table = [k \in Keys |-> None]
    /\ mine = [t \in Transactions |-> [k \in Keys |-> None]]
    /\ lock = [k \in Keys |-> None]
    /\ state = [t \in Transactions |-> "open"]
    /\ call = [t \in Transactions |-> None]
    /\ answers = [t \in Transactions |-> {}]

-----------------------------------------------------------------------------
\* Faulty variants (not part of the specification): the INSERT does not wait
\* for the transaction that holds the key ...
Free_NoWait(t, k) == t \in Transactions /\ k \in Keys

\* ... an intent that differs is taken for the one on record ...
Same_AnyIntent(row, e) == row # None

\* Revalidation: the delivery header is reserved for not_before.
Valid(e) == e.reserved = None

\* The columns an event is stored as: not_before travels as a header.
Transport(e) ==
    [body |-> e.body, header |-> IF e.notBefore # None THEN e.notBefore ELSE e.reserved]

\* What the caller asked for.
Meaning(e) == [body |-> e.body, header |-> e.notBefore]

\* The row of the key that t sees, its own included.
Visible(t, k) == IF mine[t][k] # None THEN mine[t][k] ELSE table[k]

\* No uncommitted row of another transaction has the key.
Free(t, k) == lock[k] \in {None, t}
Insertable(t, k) == Free(t, k) /\ Visible(t, k) = None

\* The WHERE clause of DO UPDATE.
Same(row, e) == row.intent = Transport(e)

Answered(t, id) ==
    /\ answers' = [answers EXCEPT ![t] =
          @ \union {[key |-> call[t].key, intent |-> Meaning(call[t].event), id |-> id]}]
    /\ call' = [call EXCEPT ![t] = None]

LockKey(t) == lock' = [lock EXCEPT ![call[t].key] = t]

-----------------------------------------------------------------------------
\* enqueue is called; an invalid event raises before any statement.
Enqueue(t, k, e) ==
    /\ state[t] = "open" /\ call[t] = None
    /\ Valid(e)
    /\ call' = [call EXCEPT ![t] = [key |-> k, event |-> e]]
    /\ UNCHANGED <<table, mine, lock, state, answers>>

\* The key is free and unknown: the row is inserted.
Insert(t) ==
    /\ call[t] # None
    /\ Insertable(t, call[t].key)
    /\ mine' = [mine EXCEPT ![t][call[t].key] =
          [id |-> <<t, call[t].key>>, intent |-> Transport(call[t].event)]]
    /\ LockKey(t)
    /\ Answered(t, <<t, call[t].key>>)
    /\ UNCHANGED <<table, state>>

Conflict(t) ==
    /\ call[t] # None
    /\ Free(t, call[t].key) /\ Visible(t, call[t].key) # None

\* The row on record has the same intent: its id is the answer.
Match(t) ==
    /\ Conflict(t)
    /\ Same(Visible(t, call[t].key), call[t].event)
    /\ LockKey(t)
    /\ Answered(t, Visible(t, call[t].key).id)
    /\ UNCHANGED <<table, mine, state>>

\* A faulty variant: a refused call is repeated until it succeeds.
Refuse_Retries(t) ==
    /\ Conflict(t)
    /\ ~Same(Visible(t, call[t].key), call[t].event)
    /\ LockKey(t)
    /\ UNCHANGED <<table, mine, state, call, answers>>

\* Another intent is on record: ValueError.  The row stays locked, and the
\* caller may go on or roll back.
Refuse(t) ==
    /\ Conflict(t)
    /\ ~Same(Visible(t, call[t].key), call[t].event)
    /\ LockKey(t)
    /\ Answered(t, None)
    /\ UNCHANGED <<table, mine, state>>

-----------------------------------------------------------------------------
\* The end of a business transaction: its rows and its domain state together.
Finish(t, end) ==
    /\ state[t] = "open"
    /\ state' = [state EXCEPT ![t] = end]
    /\ mine' = [mine EXCEPT ![t] = [k \in Keys |-> None]]
    /\ lock' = [k \in Keys |-> IF lock[k] = t THEN None ELSE lock[k]]

Commit(t) ==
    /\ call[t] = None
    /\ table' = [k \in Keys |-> Visible(t, k)]
    /\ Finish(t, "committed")
    /\ UNCHANGED <<call, answers>>

\* An exception, a lost connection or a crash, in the middle of a call too.
Rollback(t) ==
    /\ Finish(t, "rolled back")
    /\ call' = [call EXCEPT ![t] = None]
    /\ UNCHANGED <<table, answers>>

\* Transactions that wait for each other in a circle.
Deadlocked(t) ==
    \E S \in SUBSET Transactions :
        /\ t \in S
        /\ \A u \in S : call[u] # None /\ lock[call[u].key] \in S \ {u}

DeadlockAbort(t) == Deadlocked(t) /\ Rollback(t)

Execute(t) == Insert(t) \/ Match(t) \/ Refuse(t)

Next ==
    \E t \in Transactions :
        \/ \E k \in Keys, e \in Event : Enqueue(t, k, e)
        \/ Execute(t) \/ Commit(t) \/ Rollback(t)

Spec == Init /\ [][Next]_vars

\* PostgreSQL executes a statement it can execute and breaks up deadlocks;
\* business transactions do not go on for ever.
FairSpec ==
    Spec /\ \A t \in Transactions :
        WF_vars(Execute(t)) /\ SF_vars(Commit(t)) /\ WF_vars(DeadlockAbort(t))

-----------------------------------------------------------------------------
(* Properties.                                                             *)

\* A call is refused only because of a row that is really on record with
\* another intent, not because of one that was rolled back: the row stands
\* when the refused transaction has committed.
RefusalsAreJustified ==
    \A t \in Transactions :
        state[t] = "committed" =>
            \A a \in answers[t] : a.id = None =>
                table[a.key] # None /\ table[a.key].intent # a.intent

\* Concurrent calls with one key: all that succeed in committed transactions
\* name the one committed row, which carries the intent each of them asked
\* for; a retry finds its first row and an intent is never replaced.
Receipts == {a \in UNION {answers[t] : t \in {u \in Transactions : state[u] = "committed"}} :
                a.id # None}

Ledger == INSTANCE IntentLedger WITH ledger <- table, receipts <- Receipts

ImplementsLedger == Ledger!LedgerSpec

\* Whatever order two transactions use their keys in, no call waits for ever.
EveryCallReturns == \A t \in Transactions : call[t] # None ~> call[t] = None
=============================================================================
