-------------------------- MODULE OutboxEnqueueProofs --------------------------
(***************************************************************************)
(* Proofs about enqueue: whatever transactions, keys and intents there     *)
(* are, the outbox implements the ledger.                                  *)
(*                                                                         *)
(* The argument follows the lock of a key.  An uncommitted row is under    *)
(* its transaction's lock and alone; what a call answered stays true       *)
(* because the lock it took keeps others from the key until the end, and   *)
(* the end either makes the visible row the committed one or takes the     *)
(* answer back with the transaction.                                       *)
(***************************************************************************)
EXTENDS OutboxEnqueue, TLAPS

\* A row bears out what a call was answered.
Tells(row, a) ==
    /\ row # None
    /\ a.id # None => row = [id |-> a.id, intent |-> a.intent]
    /\ a.id = None => row.intent # a.intent

RowsAreLocked ==
    \A t \in Transactions, k \in Keys :
        mine[t][k] # None => lock[k] = t /\ table[k] = None

LocksAreOpen ==
    /\ \A k \in Keys : lock[k] # None => state[lock[k]] = "open"
    /\ \A t \in Transactions : call[t] # None => state[t] = "open" /\ Valid(call[t].event)

AnswersStand ==
    \A t \in Transactions : \A a \in answers[t] :
        /\ state[t] = "open" => lock[a.key] = t /\ Tells(Visible(t, a.key), a)
        /\ state[t] = "committed" => Tells(table[a.key], a)

IInv == TypeOK /\ RowsAreLocked /\ LocksAreOpen /\ AnswersStand

LEMMA InitInv == Init => IInv
BY NoneAssumption DEF Init, IInv, TypeOK, RowsAreLocked, LocksAreOpen, AnswersStand

\* What a transaction sees of a key is a row or nothing.
LEMMA VisibleType ==
    ASSUME TypeOK, NEW t \in Transactions, NEW k \in Keys
    PROVE  Visible(t, k) \in Row \union {None}
BY DEF TypeOK, Visible

\* A valid event is stored as it was meant.
LEMMA TransportMeans ==
    ASSUME NEW e \in Event, Valid(e)
    PROVE  Transport(e) = Meaning(e) /\ Transport(e) \in Intent
BY DEF Event, Valid, Transport, Meaning, Intent

LEMMA AnswerType ==
    ASSUME TypeOK, NEW t \in Transactions, NEW a \in answers[t]
    PROVE  a.key \in Keys /\ a.id \in Id \union {None}
<1>1. a \in Answer
    BY DEF TypeOK
<1> QED  BY <1>1 DEF Answer

LEMMA EnqueueInv ==
    ASSUME IInv, NEW t \in Transactions, NEW k \in Keys, NEW e \in Event, Enqueue(t, k, e)
    PROVE  IInv'
<1>1. TypeOK'
    BY DEF IInv, TypeOK, Enqueue, Call
<1>2. RowsAreLocked' /\ AnswersStand'
    BY DEF IInv, RowsAreLocked, AnswersStand, Visible, Enqueue
<1>3. LocksAreOpen'
    BY DEF IInv, TypeOK, LocksAreOpen, Enqueue
<1> QED  BY <1>1, <1>2, <1>3 DEF IInv

\* A call in progress and what it sees of its key.
LEMMA CallFacts ==
    ASSUME IInv, NEW t \in Transactions, call[t] # None
    PROVE  /\ call[t] \in Call /\ call[t].key \in Keys
           /\ state[t] = "open"
           /\ Transport(call[t].event) = Meaning(call[t].event)
           /\ Meaning(call[t].event) \in Intent
<1>1. call[t] \in Call
    BY DEF IInv, TypeOK
<1> QED  BY <1>1, TransportMeans DEF IInv, LocksAreOpen, Call

\* While t has the lock of a key to itself, nobody else has a row of it, nor
\* an answer about it that is not settled.
LEMMA FreeFacts ==
    ASSUME IInv, NEW t \in Transactions, NEW k \in Keys, Free(t, k),
           NEW u \in Transactions, u # t
    PROVE  /\ mine[u][k] = None
           /\ \A a \in answers[u] : a.key = k => state[u] # "open"
BY NoneAssumption DEF IInv, Free, RowsAreLocked, AnswersStand

\* The three ways a call ends keep the types, given the answer's.
LEMMA AnsweredTypes ==
    ASSUME IInv, NEW t \in Transactions, call[t] # None,
           NEW id \in Id \union {None}, Answered(t, id), LockKey(t)
    PROVE  /\ call' \in [Transactions -> Call \union {None}]
           /\ answers' \in [Transactions -> SUBSET Answer]
           /\ lock' \in [Keys -> Transactions \union {None}]
<1> DEFINE a == [key |-> call[t].key, intent |-> Meaning(call[t].event), id |-> id]
<1>1. a \in Answer
    BY CallFacts DEF Answer
<1>2. answers' = [answers EXCEPT ![t] = @ \union {a}]
    BY DEF Answered
<1>3. answers' \in [Transactions -> SUBSET Answer]
    BY <1>1, <1>2 DEF IInv, TypeOK
<1>4. call' \in [Transactions -> Call \union {None}]
    BY DEF IInv, TypeOK, Answered
<1>5. lock' \in [Keys -> Transactions \union {None}]
    BY CallFacts DEF IInv, TypeOK, LockKey
<1> QED  BY <1>3, <1>4, <1>5

LEMMA InsertInv ==
    ASSUME IInv, NEW t \in Transactions, Insert(t)
    PROVE  IInv'
<1> DEFINE k == call[t].key
           row == [id |-> <<t, k>>, intent |-> Transport(call[t].event)]
           b == [key |-> k, intent |-> Meaning(call[t].event), id |-> <<t, k>>]
<1>1. /\ call[t] # None /\ k \in Keys /\ state[t] = "open"
      /\ Transport(call[t].event) = Meaning(call[t].event)
      /\ Meaning(call[t].event) \in Intent
    BY CallFacts DEF Insert
<1>2. row \in Row /\ row # None /\ <<t, k>> \in Id /\ <<t, k>> # None
    BY <1>1, RowAssumption, NoneAssumption DEF Row, Id
<1>3. /\ Free(t, k) /\ mine[t][k] = None /\ table[k] = None
    BY <1>1 DEF Insert, Insertable, Visible
<1>4. /\ mine' = [mine EXCEPT ![t][k] = row]
      /\ lock' = [lock EXCEPT ![k] = t]
      /\ answers' = [answers EXCEPT ![t] = @ \union {b}]
      /\ call' = [call EXCEPT ![t] = None]
      /\ table' = table /\ state' = state
    BY DEF Insert, LockKey, Answered
<1>5. TypeOK'
    <2>1. mine' \in [Transactions -> [Keys -> Row \union {None}]]
        BY <1>1, <1>2, <1>4 DEF IInv, TypeOK
    <2>2. /\ call' \in [Transactions -> Call \union {None}]
          /\ answers' \in [Transactions -> SUBSET Answer]
          /\ lock' \in [Keys -> Transactions \union {None}]
        BY <1>1, <1>2, AnsweredTypes DEF Insert
    <2> QED  BY <2>1, <2>2, <1>4 DEF IInv, TypeOK
<1>6. RowsAreLocked'
    <2> SUFFICES ASSUME NEW u \in Transactions, NEW j \in Keys, mine'[u][j] # None
                 PROVE  lock'[j] = u /\ table[j] = None
        BY <1>4 DEF RowsAreLocked
    <2>1. CASE j = k
        <3>1. u = t
            BY <2>1, <1>1, <1>3, <1>4, FreeFacts DEF IInv, TypeOK
        <3> QED  BY <2>1, <3>1, <1>1, <1>3, <1>4 DEF IInv, TypeOK
    <2>2. CASE j # k
        <3>1. mine'[u][j] = mine[u][j] /\ lock'[j] = lock[j]
            BY <2>2, <1>1, <1>4 DEF IInv, TypeOK
        <3> QED  BY <3>1 DEF IInv, RowsAreLocked
    <2> QED  BY <2>1, <2>2
<1>7. LocksAreOpen'
    BY <1>1, <1>4 DEF IInv, TypeOK, LocksAreOpen
<1>8. AnswersStand'
    <2> SUFFICES ASSUME NEW u \in Transactions, NEW a \in answers'[u]
                 PROVE  /\ state[u] = "open" => lock'[a.key] = u /\ Tells(Visible(u, a.key)', a)
                        /\ state[u] = "committed" => Tells(table[a.key], a)
        BY <1>4 DEF AnswersStand
    <2>1. CASE u = t /\ a = b
        <3>1. a.key = k
            BY <2>1
        <3>2. Visible(u, a.key)' = row
            BY <2>1, <3>1, <1>1, <1>2, <1>4 DEF Visible, IInv, TypeOK
        <3>3. Tells(row, b)
            BY <1>1, <1>2 DEF Tells
        <3>4. lock'[a.key] = u
            BY <2>1, <3>1, <1>1, <1>4 DEF IInv, TypeOK
        <3>5. state[u] = "open"
            BY <2>1, <1>1
        <3> HIDE DEF row, b
        <3> QED  BY <2>1, <3>2, <3>3, <3>4, <3>5
    <2>2. CASE ~(u = t /\ a = b)
        <3>1. a \in answers[u] /\ a.key \in Keys
            <4>1. a \in answers[u]
                BY <2>2, <1>4 DEF IInv, TypeOK
            <4> QED  BY <4>1, AnswerType DEF IInv
        <3>2. CASE state[u] = "open"
            <4>1. a.key # k
                <5> SUFFICES ASSUME a.key = k
                             PROVE  FALSE
                    OBVIOUS
                <5>1. u = t
                    BY <3>1, <3>2, <1>1, <1>3, FreeFacts
                <5>2. Tells(Visible(t, k), a)
                    BY <5>1, <3>1, <3>2 DEF IInv, AnswersStand
                <5> QED  BY <5>2, <1>3 DEF Tells, Visible
            <4>2. lock'[a.key] = lock[a.key] /\ Visible(u, a.key)' = Visible(u, a.key)
                BY <3>1, <4>1, <1>4 DEF IInv, TypeOK, Visible
            <4> QED  BY <3>1, <3>2, <4>2 DEF IInv, AnswersStand
        <3> QED  BY <3>1, <3>2 DEF IInv, AnswersStand
    <2> QED  BY <2>1, <2>2
<1> QED  BY <1>5, <1>6, <1>7, <1>8 DEF IInv

\* A call that meets a row answers about it and locks it.
LEMMA AnswerInv ==
    ASSUME IInv, NEW t \in Transactions, Match(t) \/ Refuse(t)
    PROVE  IInv'
<1> DEFINE k == call[t].key
           row == Visible(t, k)
<1>1. /\ call[t] # None /\ k \in Keys /\ state[t] = "open"
      /\ Transport(call[t].event) = Meaning(call[t].event)
      /\ Free(t, k) /\ row # None
    BY CallFacts DEF Match, Refuse, Conflict
<1>2. row \in Row
    BY <1>1, VisibleType DEF IInv
<1>3. PICK id \in Id \union {None} :
        /\ Answered(t, id) /\ LockKey(t)
        /\ Tells(row, [key |-> k, intent |-> Meaning(call[t].event), id |-> id])
    <2>1. CASE Match(t)
        <3>1. row = [id |-> row.id, intent |-> Meaning(call[t].event)] /\ row.id \in Id
            BY <2>1, <1>1, <1>2 DEF Match, Same, Row
        <3>2. row.id # None
            BY <3>1, NoneAssumption DEF Id
        <3>3. Tells(row, [key |-> k, intent |-> Meaning(call[t].event), id |-> row.id])
            BY <3>1, <3>2, <1>1 DEF Tells
        <3> QED  BY <2>1, <3>1, <3>3 DEF Match
    <2>2. CASE Refuse(t)
        <3>1. Tells(row, [key |-> k, intent |-> Meaning(call[t].event), id |-> None])
            BY <2>2, <1>1 DEF Refuse, Same, Tells
        <3> QED  BY <2>2, <3>1 DEF Refuse
    <2> QED  BY <2>1, <2>2
<1> DEFINE b == [key |-> k, intent |-> Meaning(call[t].event), id |-> id]
<1>4. /\ mine' = mine /\ table' = table /\ state' = state
      /\ lock' = [lock EXCEPT ![k] = t]
      /\ answers' = [answers EXCEPT ![t] = @ \union {b}]
      /\ call' = [call EXCEPT ![t] = None]
    BY <1>3 DEF Match, Refuse, LockKey, Answered
<1>5. TypeOK'
    BY <1>1, <1>3, <1>4, AnsweredTypes DEF IInv, TypeOK
<1>6. RowsAreLocked'
    <2> SUFFICES ASSUME NEW u \in Transactions, NEW j \in Keys, mine[u][j] # None
                 PROVE  lock'[j] = u /\ table[j] = None
        BY <1>4 DEF RowsAreLocked
    <2>1. lock[j] = u /\ table[j] = None
        BY DEF IInv, RowsAreLocked
    <2>2. j = k => u = t
        BY <1>1, FreeFacts
    <2> QED  BY <2>1, <2>2, <1>1, <1>4 DEF IInv, TypeOK
<1>7. LocksAreOpen'
    BY <1>1, <1>4 DEF IInv, TypeOK, LocksAreOpen
<1>8. AnswersStand'
    <2> SUFFICES ASSUME NEW u \in Transactions, NEW a \in answers'[u]
                 PROVE  /\ state[u] = "open" => lock'[a.key] = u /\ Tells(Visible(u, a.key), a)
                        /\ state[u] = "committed" => Tells(table[a.key], a)
        BY <1>4 DEF AnswersStand, Visible
    <2>1. CASE u = t /\ a = b
        BY <2>1, <1>1, <1>3, <1>4 DEF IInv, TypeOK
    <2>2. CASE ~(u = t /\ a = b)
        <3>1. a \in answers[u] /\ a.key \in Keys
            <4>1. a \in answers[u]
                BY <2>2, <1>4 DEF IInv, TypeOK
            <4> QED  BY <4>1, AnswerType DEF IInv
        <3>2. CASE state[u] = "open"
            <4>1. lock'[a.key] = u
                BY <3>1, <3>2, <1>1, <1>4, FreeFacts DEF IInv, TypeOK, AnswersStand
            <4> QED  BY <3>1, <3>2, <4>1 DEF IInv, AnswersStand
        <3> QED  BY <3>1, <3>2 DEF IInv, AnswersStand
    <2> QED  BY <2>1, <2>2
<1> QED  BY <1>5, <1>6, <1>7, <1>8 DEF IInv

\* What is on record stays on record when a transaction commits.
LEMMA CommitKeeps ==
    ASSUME IInv, NEW t \in Transactions, Commit(t), NEW k \in Keys
    PROVE  /\ table'[k] = Visible(t, k)
           /\ table[k] # None => table'[k] = table[k]
           /\ lock[k] # t => table'[k] = table[k]
BY DEF IInv, RowsAreLocked, Commit, Visible

LEMMA CommitInv ==
    ASSUME IInv, NEW t \in Transactions, Commit(t)
    PROVE  IInv'
<1>1. /\ call[t] = None /\ state[t] = "open"
      /\ table' = [k \in Keys |-> Visible(t, k)]
      /\ state' = [state EXCEPT ![t] = "committed"]
      /\ mine' = [mine EXCEPT ![t] = [k \in Keys |-> None]]
      /\ lock' = [k \in Keys |-> IF lock[k] = t THEN None ELSE lock[k]]
      /\ call' = call /\ answers' = answers
    BY DEF Commit, Finish
<1>2. TypeOK'
    <2>1. table' \in [Keys -> Row \union {None}]
        BY <1>1, VisibleType DEF IInv
    <2>2. mine' \in [Transactions -> [Keys -> Row \union {None}]]
        BY <1>1 DEF IInv, TypeOK
    <2> QED  BY <1>1, <2>1, <2>2 DEF IInv, TypeOK
<1>3. RowsAreLocked'
    <2> SUFFICES ASSUME NEW u \in Transactions, NEW k \in Keys, mine'[u][k] # None
                 PROVE  lock'[k] = u /\ table'[k] = None
        BY DEF RowsAreLocked
    <2>1. u # t /\ mine[u][k] # None
        BY <1>1 DEF IInv, TypeOK
    <2>2. lock[k] = u /\ table[k] = None
        BY <2>1 DEF IInv, RowsAreLocked
    <2> QED  BY <1>1, <2>1, <2>2, CommitKeeps
<1>4. LocksAreOpen'
    BY <1>1 DEF IInv, TypeOK, LocksAreOpen
<1>5. AnswersStand'
    <2> SUFFICES ASSUME NEW u \in Transactions, NEW a \in answers[u]
                 PROVE  /\ state'[u] = "open" => lock'[a.key] = u /\ Tells(Visible(u, a.key)', a)
                        /\ state'[u] = "committed" => Tells(table'[a.key], a)
        BY <1>1 DEF AnswersStand
    <2>1. a.key \in Keys
        BY AnswerType DEF IInv
    <2>2. CASE u = t
        <3>1. Tells(Visible(t, a.key), a)
            BY <2>2, <1>1 DEF IInv, AnswersStand
        <3> QED  BY <2>1, <2>2, <3>1, <1>1, CommitKeeps DEF IInv, TypeOK
    <2>3. CASE u # t /\ state[u] = "open"
        <3>1. lock[a.key] = u /\ Tells(Visible(u, a.key), a)
            BY <2>3 DEF IInv, AnswersStand
        <3>2. table'[a.key] = table[a.key] /\ lock'[a.key] = u
            BY <2>1, <2>3, <3>1, <1>1, CommitKeeps
        <3>3. Visible(u, a.key)' = Visible(u, a.key)
            <4>1. mine'[u] = mine[u]
                BY <2>3, <1>1 DEF IInv, TypeOK
            <4> QED  BY <4>1, <3>2 DEF Visible
        <3>4. state'[u] = "open"
            BY <2>3, <1>1 DEF IInv, TypeOK
        <3> QED  BY <3>1, <3>2, <3>3, <3>4
    <2>4. CASE u # t /\ state[u] # "open"
        <3>1. state'[u] = state[u]
            BY <2>4, <1>1 DEF IInv, TypeOK
        <3>2. ASSUME state[u] = "committed"
              PROVE  Tells(table'[a.key], a)
            BY <3>2, <2>1, CommitKeeps DEF IInv, AnswersStand, Tells
        <3> QED  BY <2>4, <3>1, <3>2
    <2> QED  BY <2>2, <2>3, <2>4
<1> QED  BY <1>2, <1>3, <1>4, <1>5 DEF IInv

LEMMA RollbackInv ==
    ASSUME IInv, NEW t \in Transactions, Rollback(t)
    PROVE  IInv'
<1>1. /\ state[t] = "open"
      /\ state' = [state EXCEPT ![t] = "rolled back"]
      /\ mine' = [mine EXCEPT ![t] = [k \in Keys |-> None]]
      /\ lock' = [k \in Keys |-> IF lock[k] = t THEN None ELSE lock[k]]
      /\ call' = [call EXCEPT ![t] = None]
      /\ table' = table /\ answers' = answers
    BY DEF Rollback, Finish
<1>2. TypeOK'
    <2>1. mine' \in [Transactions -> [Keys -> Row \union {None}]]
        BY <1>1 DEF IInv, TypeOK
    <2> QED  BY <1>1, <2>1 DEF IInv, TypeOK
<1>3. RowsAreLocked'
    BY <1>1 DEF IInv, TypeOK, RowsAreLocked
<1>4. LocksAreOpen'
    BY <1>1 DEF IInv, TypeOK, LocksAreOpen
<1>5. AnswersStand'
    <2> SUFFICES ASSUME NEW u \in Transactions, NEW a \in answers[u]
                 PROVE  /\ state'[u] = "open" => lock'[a.key] = u /\ Tells(Visible(u, a.key)', a)
                        /\ state'[u] = "committed" => Tells(table[a.key], a)
        BY <1>1 DEF AnswersStand
    <2>1. a.key \in Keys
        BY AnswerType DEF IInv
    <2>2. CASE u = t
        BY <2>2, <1>1 DEF IInv, TypeOK
    <2>3. CASE u # t
        <3>1. state'[u] = state[u] /\ Visible(u, a.key)' = Visible(u, a.key)
            BY <2>3, <1>1 DEF Visible, IInv, TypeOK
        <3>2. state[u] = "open" => lock'[a.key] = u
            BY <2>1, <2>3, <1>1 DEF IInv, AnswersStand
        <3> QED  BY <3>1, <3>2 DEF IInv, AnswersStand
    <2> QED  BY <2>2, <2>3
<1> QED  BY <1>2, <1>3, <1>4, <1>5 DEF IInv

LEMMA StepInv == IInv /\ [Next]_vars => IInv'
<1> SUFFICES ASSUME IInv, [Next]_vars
             PROVE  IInv'
    OBVIOUS
<1>1. CASE UNCHANGED vars
    BY <1>1 DEF vars, IInv, TypeOK, RowsAreLocked, LocksAreOpen, AnswersStand, Visible
<1>2. CASE Next
    BY <1>2, EnqueueInv, InsertInv, AnswerInv, CommitInv, RollbackInv DEF Next, Execute
<1> QED  BY <1>1, <1>2

LEMMA Invariant == Spec => []IInv
BY InitInv, StepInv, PTL DEF Spec

-----------------------------------------------------------------------------
\* Rows, locks, calls and answers keep their types.
THEOREM Types == Spec => []TypeOK
<1>1. IInv => TypeOK
    BY DEF IInv
<1> QED  BY <1>1, Invariant, PTL

\* Whoever is refused an intent, in a transaction that commits, was refused
\* because of a row that is on record with another one.
THEOREM JustifiedRefusals == Spec => []RefusalsAreJustified
<1>1. IInv => RefusalsAreJustified
    <2> SUFFICES ASSUME IInv, NEW t \in Transactions, state[t] = "committed",
                        NEW a \in answers[t], a.id = None
                 PROVE  table[a.key] # None /\ table[a.key].intent # a.intent
        BY DEF RefusalsAreJustified
    <2>1. Tells(table[a.key], a)
        BY DEF IInv, AnswersStand
    <2> QED  BY <2>1 DEF Tells
<1> QED  BY <1>1, Invariant, PTL

-----------------------------------------------------------------------------
LEMMA ReceiptsConfirmed == IInv => \A r \in Receipts : Ledger!Confirmed(r, table)
<1> SUFFICES ASSUME IInv, NEW r \in Receipts
             PROVE  Ledger!Confirmed(r, table)
    OBVIOUS
<1>1. PICK t \in Transactions : state[t] = "committed" /\ r \in answers[t] /\ r.id # None
    BY DEF Receipts
<1>2. Tells(table[r.key], r)
    BY <1>1 DEF IInv, AnswersStand
<1> QED  BY <1>1, <1>2 DEF Tells, Ledger!Confirmed

\* Nothing on record is replaced, and what was answered is not taken back.
LEMMA StepKeeps ==
    ASSUME IInv, [Next]_vars
    PROVE  /\ \A k \in Keys : table[k] # None => table'[k] = table[k]
           /\ Receipts \subseteq Receipts'
<1>1. CASE UNCHANGED vars
    BY <1>1 DEF vars, Receipts
<1>2. ASSUME NEW t \in Transactions,
             (\E k \in Keys, e \in Event : Enqueue(t, k, e)) \/ Execute(t) \/ Rollback(t)
      PROVE  /\ \A k \in Keys : table[k] # None => table'[k] = table[k]
             /\ Receipts \subseteq Receipts'
    <2>1. table' = table
        BY <1>2 DEF Enqueue, Execute, Insert, Match, Refuse, Rollback
    <2>2. ASSUME NEW u \in Transactions, state[u] = "committed"
          PROVE  state'[u] = "committed" /\ answers[u] \subseteq answers'[u]
        <3>1. CASE \E k \in Keys, e \in Event : Enqueue(t, k, e)
            BY <2>2, <3>1 DEF Enqueue
        <3>2. CASE Execute(t)
            <4>1. state' = state /\ \E id : Answered(t, id)
                BY <3>2 DEF Execute, Insert, Match, Refuse
            <4> QED  BY <2>2, <4>1 DEF Answered, IInv, TypeOK
        <3>3. CASE Rollback(t)
            BY <2>2, <3>3 DEF Rollback, Finish, IInv, TypeOK
        <3> QED  BY <1>2, <3>1, <3>2, <3>3
    <2> QED  BY <2>1, <2>2 DEF Receipts
<1>3. ASSUME NEW t \in Transactions, Commit(t)
      PROVE  /\ \A k \in Keys : table[k] # None => table'[k] = table[k]
             /\ Receipts \subseteq Receipts'
    <2>1. ASSUME NEW u \in Transactions, state[u] = "committed"
          PROVE  state'[u] = "committed" /\ answers'[u] = answers[u]
        BY <1>3, <2>1 DEF IInv, TypeOK, Commit, Finish
    <2> QED  BY <1>3, <2>1, CommitKeeps DEF Receipts
<1> QED  BY <1>1, <1>2, <1>3 DEF Next

\* Concurrent enqueues keep a ledger: one entry per key, never replaced, and
\* named by every receipt of a committed transaction.
THEOREM LedgerImplemented == Spec => ImplementsLedger
<1>1. Init => Ledger!LedgerInit
    BY DEF Init, Receipts, Ledger!LedgerInit
<1>2. (IInv => \A r \in Receipts : Ledger!Confirmed(r, table))'
    BY ReceiptsConfirmed, PTL
<1>3. IInv /\ IInv' /\ [Next]_vars => [Ledger!LedgerNext]_Ledger!ledgerVars
    BY <1>2, StepKeeps DEF Ledger!LedgerNext, Ledger!Confirmed
<1> QED  BY <1>1, <1>3, Invariant, PTL DEF Spec, ImplementsLedger, Ledger!LedgerSpec
=============================================================================
