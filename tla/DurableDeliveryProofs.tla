------------------------ MODULE DurableDeliveryProofs ------------------------
(***************************************************************************)
(* Proofs about DurableDelivery, for any messages, pumps, policy limits    *)
(* and faults.  The argument: what an open reconcile transaction is going  *)
(* to do to a row stays justified until it commits because it holds the    *)
(* row's lock (BatchIsLocked), and the attempt_count a publisher read is   *)
(* the row's as long as the delivery is its own (AttemptIsCurrent).        *)
(***************************************************************************)
EXTENDS DurableDelivery, TLAPS

\* A pump that publishes or records has a message.
HeldIsMessage ==
    \A p \in Pumps : pc[p] \in {"publish", "finish"} => held[p] \in Messages

\* The attempt_count the publisher will compare is the row's own.
AttemptIsCurrent ==
    \A p \in Pumps :
        pc[p] \in {"publish", "finish"} /\ outbox[held[p]].status = "delivering"
        /\ outbox[held[p]].owner = p
        => attempt[p] = outbox[held[p]].attempts

\* Rows chosen by the scans are locked until the commit, and stay as found.
BatchIsLocked ==
    \A p \in Pumps, m \in Messages :
        /\ m \in batch[p].bury \union batch[p].requeue =>
              locked[m] = p /\ pc[p] \in {"unacknowledged", "commit"}
        /\ m \in batch[p].bury => outbox[m].attempts >= MaxAttempts
        /\ m \in batch[p].requeue => outbox[m].status = "published"

AbsentIsUnattempted ==
    \A m \in Messages : outbox[m].status = "absent" => outbox[m].attempts = 0

Inv == /\ TypeOK
       /\ HeldIsMessage
       /\ AttemptIsCurrent
       /\ BatchIsLocked
       /\ AbsentIsUnattempted
       /\ DeadLettersAreExhausted

LEMMA CountedTypes ==
    ASSUME NEW n \in Attempts
    PROVE  Counted(n) \in Attempts /\ Counted(n) >= n
BY PolicyAssumption DEF Counted, Attempts, AttemptCap

-----------------------------------------------------------------------------
(* Type correctness.                                                       *)

LEMMA InitTypes == Init => TypeOK /\ HeldIsMessage
BY MessageAssumption, PumpAssumption, PolicyAssumption
DEF Init, TypeOK, HeldIsMessage, Row, Statuses, Attempts, AttemptCap, Batch, NoBatch, PCs

LEMMA RequeuedTypes ==
    ASSUME NEW row \in Row
    PROVE  /\ Requeued(row) \in Row
           /\ Requeued(row).status = "pending"
           /\ Requeued(row).attempts = row.attempts
BY DEF Requeued, Row, Statuses

LEMMA PumpTypes ==
    ASSUME TypeOK, HeldIsMessage, NEW p \in Pumps,
           StartPump(p) \/ Reconcile(p) \/ Deliver(p) \/ Crash(p)
    PROVE  TypeOK' /\ HeldIsMessage'
<1> USE PolicyAssumption DEF TypeOK, HeldIsMessage, PCs, Goto, consumers
<1>1. CASE StartPump(p)
    BY <1>1 DEF StartPump
<1>2. CASE ScanExhausted(p)
    BY <1>2 DEF ScanExhausted, Batch
<1>3. CASE ScanUnacknowledged(p)
    BY <1>3 DEF ScanUnacknowledged, Batch
<1>4. CASE CommitReconcile(p)
    BY <1>4, RequeuedTypes DEF CommitReconcile, Unlock, NoBatch, Batch
<1>5. CASE SnapshotClaim(p)
    BY <1>5 DEF SnapshotClaim
<1>6. CASE ClaimDelivery(p)
    <2>1. PICK m \in snapshot[p] :
             /\ outbox' = [outbox EXCEPT ![m] =
                   [status |-> "delivering", owner |-> p,
                    attempts |-> Counted(@.attempts), deadline |-> "ahead"]]
             /\ held' = [held EXCEPT ![p] = m]
             /\ attempt' = [attempt EXCEPT ![p] = Counted(outbox[m].attempts)]
        BY <1>6 DEF ClaimDelivery, Candidates
    <2>2. m \in Messages
        BY <2>1
    <2>3. Counted(outbox[m].attempts) \in Attempts
        BY <2>2, CountedTypes DEF Row
    <2>4. outbox' \in [Messages -> Row]
        BY <2>1, <2>2, <2>3 DEF Row, Statuses
    <2> QED  BY <1>6, <2>1, <2>2, <2>3, <2>4 DEF ClaimDelivery
<1>7. CASE PumpReturns(p)
    BY <1>7 DEF PumpReturns
<1>8. CASE Publish(p)
    BY <1>8 DEF Publish
<1>9. CASE FinishDelivery(p)
    <2>1. held[p] \in Messages /\ outbox[held[p]].attempts \in Attempts
        BY <1>9 DEF FinishDelivery, Row
    <2>2. outbox' \in [Messages -> Row]
        BY <1>9, <2>1 DEF FinishDelivery, Row, Statuses
    <2> QED  BY <1>9, <2>1, <2>2 DEF FinishDelivery, Forget, Attempts, AttemptCap
<1>10. CASE FinishTooLate(p)
    BY <1>10 DEF FinishTooLate, Forget, Attempts, AttemptCap
<1>11. CASE Crash(p)
    BY <1>11 DEF Crash, Fault, Forget, Unlock, NoBatch, Batch, Attempts, AttemptCap
<1> QED
    BY <1>1, <1>2, <1>3, <1>4, <1>5, <1>6, <1>7, <1>8, <1>9, <1>10, <1>11
    DEF Reconcile, Deliver, Proceed

\* Only the deadline of a row moves.
LEMMA DeadlineTypes ==
    ASSUME TypeOK, NEW m \in Messages, NEW d \in {"ahead", "past"}
    PROVE  [outbox EXCEPT ![m].deadline = d] \in [Messages -> Row]
BY DEF TypeOK, Row

LEMMA MessageTypes ==
    ASSUME TypeOK, HeldIsMessage, NEW m \in Messages,
           \/ Enqueue(m) \/ Replay(m) \/ Expire(m) \/ Overrun(m) \/ ClockBack(m)
           \/ BecomeDue(m) \/ Consumers(m)
    PROVE  TypeOK' /\ HeldIsMessage'
<1> USE PolicyAssumption DEF TypeOK, HeldIsMessage, pumpVars, consumers
<1>1. CASE Enqueue(m)
    BY <1>1 DEF Enqueue, Row, Statuses, Attempts, AttemptCap
<1>2. CASE Replay(m)
    BY <1>2 DEF Replay, Row, Statuses, Attempts, AttemptCap
<1>3. CASE Expire(m) \/ Overrun(m) \/ ClockBack(m)
    <2>1. outbox' \in [Messages -> Row]
        <3>1. \A d \in {"ahead", "past"} : [outbox EXCEPT ![m].deadline = d] \in [Messages -> Row]
            BY DeadlineTypes
        <3> QED  BY <1>3, <3>1 DEF Expire, Overrun, Elapse, ClockBack
    <2>2. faults' \in 0..MaxFaults
        BY <1>3 DEF Expire, Overrun, ClockBack, Fault
    <2>3. UNCHANGED <<locked, dead, pumpVars, hints, consumers>>
        BY <1>3 DEF Expire, Overrun, Elapse, ClockBack
    <2> QED  BY <2>1, <2>2, <2>3
<1>4. CASE BecomeDue(m) \/ Consumers(m)
    BY <1>4 DEF BecomeDue, Consumers, ConsumeHint, ConsumerFails, Execution, Receipt, Fault
<1> QED  BY <1>1, <1>2, <1>3, <1>4

LEMMA StepTypes == TypeOK /\ HeldIsMessage /\ [Next]_vars => TypeOK' /\ HeldIsMessage'
<1>1. CASE UNCHANGED vars
    BY <1>1 DEF vars, pumpVars, consumers, TypeOK, HeldIsMessage
<1> QED  BY <1>1, PumpTypes, MessageTypes DEF Next

\* Every variable keeps its type.
THEOREM TypeCorrect == Spec => []TypeOK
<1>1. Spec => [](TypeOK /\ HeldIsMessage)
    BY InitTypes, StepTypes, PTL DEF Spec
<1> QED  BY <1>1, PTL

-----------------------------------------------------------------------------
(* What a step may do to a row: nothing but time, or one of these.         *)

SameRow(m) ==
    /\ outbox'[m].status = outbox[m].status
    /\ outbox'[m].owner = outbox[m].owner
    /\ outbox'[m].attempts = outbox[m].attempts

Enqueued(m) ==
    /\ outbox[m].status = "absent" /\ outbox'[m].status = "pending"
    /\ outbox'[m].owner = None /\ outbox'[m].attempts = 0
    /\ UNCHANGED <<dead, pc, held, attempt>>

Replayed(m) ==
    /\ locked[m] = None
    /\ m \in dead /\ dead' = dead \ {m}
    /\ outbox'[m].status = "pending"
    /\ outbox'[m].owner = None

Claimed(p, m) ==
    /\ pc[p] = "claim" /\ Lockable(p, m)
    /\ outbox[m].status \in {"pending", "delivering"} /\ Past(m)
    /\ outbox'[m].status = "delivering" /\ outbox'[m].owner = p
    /\ outbox'[m].attempts = Counted(outbox[m].attempts)
    /\ held'[p] = m /\ attempt'[p] = outbox'[m].attempts
    /\ dead' = dead

Finished(p, m) ==
    /\ pc[p] = "finish" /\ held[p] = m /\ locked[m] = None /\ Delivering(p)
    /\ outbox'[m].status # "delivering" /\ outbox'[m].status # "absent"
    /\ outbox'[m].owner = None
    /\ outbox'[m].attempts = outbox[m].attempts

Reopened(p, m) ==
    /\ m \in batch[p].requeue
    /\ outbox'[m].status = "pending"
    /\ outbox'[m].attempts = outbox[m].attempts

LEMMA PumpRowFrame ==
    ASSUME TypeOK, HeldIsMessage, NEW p \in Pumps, NEW m \in Messages,
           StartPump(p) \/ Reconcile(p) \/ Deliver(p) \/ Crash(p)
    PROVE  SameRow(m) \/ Claimed(p, m) \/ Finished(p, m) \/ Reopened(p, m)
<1>1. ASSUME outbox' = outbox
      PROVE  SameRow(m)
    BY <1>1 DEF SameRow
<1>2. CASE CommitReconcile(p)
    <2>1. outbox'[m] = IF m \in batch[p].requeue THEN Requeued(outbox[m]) ELSE outbox[m]
        BY <1>2 DEF CommitReconcile
    <2>2. CASE m \in batch[p].requeue
        <3>1. outbox[m] \in Row
            BY DEF TypeOK
        <3> QED  BY <2>1, <2>2, <3>1, RequeuedTypes DEF Reopened
    <2>3. CASE m \notin batch[p].requeue
        BY <2>1, <2>3 DEF SameRow
    <2> QED  BY <2>2, <2>3
<1>3. CASE ClaimDelivery(p)
    <2>1. PICK n \in Candidates(p) :
             /\ outbox' = [outbox EXCEPT ![n] =
                   [status |-> "delivering", owner |-> p,
                    attempts |-> Counted(@.attempts), deadline |-> "ahead"]]
             /\ held' = [held EXCEPT ![p] = n]
             /\ attempt' = [attempt EXCEPT ![p] = Counted(outbox[n].attempts)]
        BY <1>3 DEF ClaimDelivery
    <2>2. n \in Messages /\ Lockable(p, n) /\ Claimable(n)
        BY <2>1 DEF Candidates, TypeOK
    <2>3. CASE n = m
        BY <1>3, <2>1, <2>2, <2>3 DEF ClaimDelivery, Claimed, Claimable, Waiting, Past, TypeOK
    <2>4. CASE n # m
        BY <2>1, <2>2, <2>4 DEF SameRow, TypeOK
    <2> QED  BY <2>3, <2>4
<1>4. CASE FinishDelivery(p)
    <2>1. held[p] \in Messages
        BY <1>4 DEF FinishDelivery, HeldIsMessage
    <2>2. CASE held[p] = m
        BY <1>4, <2>2 DEF FinishDelivery, Finished, Unlocked, TypeOK
    <2>3. CASE held[p] # m
        BY <1>4, <2>1, <2>3 DEF FinishDelivery, SameRow, TypeOK
    <2> QED  BY <2>2, <2>3
<1>5. CASE StartPump(p) \/ ScanExhausted(p) \/ ScanUnacknowledged(p) \/ SnapshotClaim(p)
           \/ PumpReturns(p) \/ Publish(p) \/ FinishTooLate(p) \/ Crash(p)
    BY <1>1, <1>5
    DEF StartPump, ScanExhausted, ScanUnacknowledged, SnapshotClaim, PumpReturns, Publish,
        FinishTooLate, Crash
<1> QED  BY <1>2, <1>3, <1>4, <1>5 DEF Reconcile, Deliver, Proceed

LEMMA MessageRowFrame ==
    ASSUME TypeOK, NEW n \in Messages, NEW m \in Messages,
           \/ Enqueue(n) \/ Replay(n) \/ Expire(n) \/ Overrun(n) \/ ClockBack(n)
           \/ BecomeDue(n) \/ Consumers(n)
    PROVE  /\ SameRow(m) \/ Enqueued(m) \/ Replayed(m)
           /\ UNCHANGED <<locked, pc, batch, held, attempt>>
<1> USE DEF pumpVars
<1>1. CASE Enqueue(n)
    <2>1. SameRow(m) \/ Enqueued(m)
        BY <1>1 DEF Enqueue, Enqueued, SameRow, TypeOK
    <2> QED  BY <1>1, <2>1 DEF Enqueue
<1>2. CASE Replay(n)
    <2>1. SameRow(m) \/ Replayed(m)
        BY <1>2 DEF Replay, Replayed, SameRow, Unlocked, TypeOK
    <2> QED  BY <1>2, <2>1 DEF Replay
<1>3. ASSUME NEW d, outbox' = [outbox EXCEPT ![n].deadline = d]
      PROVE  SameRow(m)
    <2>1. outbox[m] \in Row /\ outbox'[m] = IF m = n THEN [outbox[m] EXCEPT !.deadline = d] ELSE outbox[m]
        BY <1>3 DEF TypeOK
    <2> QED  BY <2>1 DEF SameRow, Row
<1>4. CASE Expire(n) \/ Overrun(n) \/ ClockBack(n)
    BY <1>3, <1>4 DEF Expire, Overrun, Elapse, ClockBack
<1>5. CASE BecomeDue(n) \/ Consumers(n)
    BY <1>5 DEF BecomeDue, Consumers, ConsumeHint, ConsumerFails, Execution, Receipt, Fault, SameRow
<1> QED  BY <1>1, <1>2, <1>4, <1>5

\* A step of one pump leaves the others, and the rows they lock, alone.
LEMMA OtherPumps ==
    ASSUME TypeOK, NEW q \in Pumps, NEW p \in Pumps \ {q},
           StartPump(q) \/ Reconcile(q) \/ Deliver(q) \/ Crash(q)
    PROVE  /\ pc'[p] = pc[p] /\ batch'[p] = batch[p]
           /\ held'[p] = held[p] /\ attempt'[p] = attempt[p]
           /\ \A m \in Messages : locked[m] = p => locked'[m] = p
<1> USE PumpAssumption DEF TypeOK, Goto, Forget, Unlock, Lockable
<1>1. CASE Reconcile(q)
    BY <1>1 DEF Reconcile, ScanExhausted, ScanUnacknowledged, CommitReconcile
<1>2. CASE Deliver(q)
    <2>1. CASE ClaimDelivery(q)
        BY <2>1 DEF ClaimDelivery
    <2> QED
        BY <1>2, <2>1
        DEF Deliver, Proceed, SnapshotClaim, PumpReturns, Publish, FinishDelivery, FinishTooLate
<1>3. CASE StartPump(q) \/ Crash(q)
    BY <1>3 DEF StartPump, Crash
<1> QED  BY <1>1, <1>2, <1>3

-----------------------------------------------------------------------------
(* The parts of the invariant, one lemma each.                             *)

LEMMA StepAbsent ==
    ASSUME TypeOK, HeldIsMessage, BatchIsLocked, AbsentIsUnattempted, [Next]_vars
    PROVE  AbsentIsUnattempted'
<1> SUFFICES ASSUME NEW m \in Messages, outbox'[m].status = "absent"
             PROVE  outbox'[m].attempts = 0
    BY DEF AbsentIsUnattempted
<1>1. SameRow(m)
    BY PumpRowFrame, MessageRowFrame
    DEF Next, vars, SameRow, Enqueued, Replayed, Claimed, Finished, Reopened
<1> QED  BY <1>1 DEF SameRow, AbsentIsUnattempted

\* Rows in an open reconcile transaction keep status and attempts.
LEMMA LockedRows ==
    ASSUME TypeOK, HeldIsMessage, BatchIsLocked, AbsentIsUnattempted, [Next]_vars,
           NEW p \in Pumps, NEW m \in Messages,
           m \in batch[p].bury \union batch[p].requeue,
           \/ \E n \in Messages :
                 \/ Enqueue(n) \/ Replay(n) \/ Expire(n) \/ Overrun(n) \/ ClockBack(n)
                 \/ BecomeDue(n) \/ Consumers(n)
           \/ \E q \in Pumps \ {p} : StartPump(q) \/ Reconcile(q) \/ Deliver(q) \/ Crash(q)
    PROVE  SameRow(m)
<1> USE PumpAssumption, PolicyAssumption
<1>1. locked[m] = p
    BY DEF BatchIsLocked
<1>2. outbox[m].status # "absent"
    BY DEF BatchIsLocked, AbsentIsUnattempted
<1>3. ASSUME NEW q \in Pumps \ {p}
      PROVE  ~Claimed(q, m) /\ ~Finished(q, m) /\ ~Reopened(q, m)
    BY <1>1 DEF Claimed, Finished, Reopened, Lockable, BatchIsLocked
<1>4. ~Enqueued(m) /\ ~Replayed(m)
    BY <1>1, <1>2 DEF Enqueued, Replayed
<1> QED  BY <1>3, <1>4, PumpRowFrame, MessageRowFrame

LEMMA StepBatch ==
    ASSUME TypeOK, HeldIsMessage, BatchIsLocked, AbsentIsUnattempted, [Next]_vars
    PROVE  BatchIsLocked'
<1> SUFFICES ASSUME NEW p \in Pumps, NEW m \in Messages
             PROVE  /\ m \in batch'[p].bury \union batch'[p].requeue =>
                          locked'[m] = p /\ pc'[p] \in {"unacknowledged", "commit"}
                    /\ m \in batch'[p].bury => outbox'[m].attempts >= MaxAttempts
                    /\ m \in batch'[p].requeue => outbox'[m].status = "published"
    BY DEF BatchIsLocked
<1>1. CASE \E n \in Messages :
              \/ Enqueue(n) \/ Replay(n) \/ Expire(n) \/ Overrun(n) \/ ClockBack(n)
              \/ BecomeDue(n) \/ Consumers(n)
    BY <1>1, LockedRows, MessageRowFrame DEF BatchIsLocked, SameRow
<1>2. CASE \E q \in Pumps \ {p} : StartPump(q) \/ Reconcile(q) \/ Deliver(q) \/ Crash(q)
    BY <1>2, LockedRows, OtherPumps DEF BatchIsLocked, SameRow
<1>3. CASE ScanExhausted(p)
    <2>1. batch[p].bury \intersect Messages = {} /\ batch[p].requeue \intersect Messages = {}
        BY <1>3 DEF ScanExhausted, BatchIsLocked
    <2>2. /\ batch'[p].bury = {n \in Messages : Exhausted(n) /\ Lockable(p, n)}
          /\ batch'[p].requeue = batch[p].requeue
        BY <1>3 DEF ScanExhausted, TypeOK, Batch
    <2> QED  BY <1>3, <2>1, <2>2 DEF ScanExhausted, Exhausted, Goto, TypeOK
<1>4. CASE ScanUnacknowledged(p)
    <2> DEFINE found == {n \in Messages : Unacknowledged(n) /\ Lockable(p, n)}
               over == {n \in found : outbox[n].attempts >= MaxAttempts}
    <2>1. /\ batch'[p].bury = batch[p].bury \union over
          /\ batch'[p].requeue = found \ over
        BY <1>4 DEF ScanUnacknowledged, TypeOK, Batch
    <2>2. \A n \in batch[p].bury : n \in Messages => locked[n] = p
        BY DEF BatchIsLocked
    <2>3. \A n \in Messages : n \in found \/ n \in batch[p].bury => locked'[n] = p
        BY <1>4, <2>2 DEF ScanUnacknowledged
    <2> QED  BY <1>4, <2>1, <2>3 DEF ScanUnacknowledged, Unacknowledged, BatchIsLocked, Goto, TypeOK
<1>5. CASE CommitReconcile(p) \/ Crash(p)
    <2>1. batch'[p] = NoBatch
        BY <1>5 DEF CommitReconcile, Crash, TypeOK
    <2> QED  BY <2>1 DEF NoBatch
<1>6. CASE StartPump(p) \/ Deliver(p)
    <2>1. batch' = batch /\ pc[p] \notin {"unacknowledged", "commit"}
        BY <1>6 DEF StartPump, Deliver, Proceed, SnapshotClaim, ClaimDelivery, PumpReturns, Publish,
                    FinishDelivery, FinishTooLate
    <2> QED  BY <2>1 DEF BatchIsLocked
<1>7. CASE UNCHANGED vars
    BY <1>7 DEF vars, pumpVars, BatchIsLocked
<1> QED  BY <1>1, <1>2, <1>3, <1>4, <1>5, <1>6, <1>7 DEF Next, Reconcile

LEMMA StepAttempt ==
    ASSUME TypeOK, HeldIsMessage, AttemptIsCurrent, [Next]_vars
    PROVE  AttemptIsCurrent'
<1> USE PumpAssumption
<1> SUFFICES ASSUME NEW p \in Pumps, pc'[p] \in {"publish", "finish"},
                    outbox'[held'[p]].status = "delivering", outbox'[held'[p]].owner = p
             PROVE  attempt'[p] = outbox'[held'[p]].attempts
    BY DEF AttemptIsCurrent
<1>1. ASSUME held'[p] = held[p], attempt'[p] = attempt[p], pc[p] \in {"publish", "finish"},
             SameRow(held[p])
      PROVE  attempt'[p] = outbox'[held'[p]].attempts
    BY <1>1 DEF AttemptIsCurrent, SameRow
<1>2. ASSUME NEW n \in Messages,
             \/ Enqueue(n) \/ Replay(n) \/ Expire(n) \/ Overrun(n) \/ ClockBack(n)
             \/ BecomeDue(n) \/ Consumers(n)
      PROVE  attempt'[p] = outbox'[held'[p]].attempts
    <2>1. UNCHANGED <<pc, held, attempt>>
        BY <1>2, MessageRowFrame
    <2>2. held[p] \in Messages
        BY <2>1 DEF HeldIsMessage
    <2>3. SameRow(held[p]) \/ Enqueued(held[p]) \/ Replayed(held[p])
        BY <1>2, <2>2, MessageRowFrame
    <2> QED  BY <1>1, <2>1, <2>3 DEF Enqueued, Replayed
<1>3. ASSUME NEW q \in Pumps \ {p}, StartPump(q) \/ Reconcile(q) \/ Deliver(q) \/ Crash(q)
      PROVE  attempt'[p] = outbox'[held'[p]].attempts
    <2>1. pc'[p] = pc[p] /\ held'[p] = held[p] /\ attempt'[p] = attempt[p]
        BY <1>3, OtherPumps
    <2>2. held[p] \in Messages
        BY <2>1 DEF HeldIsMessage
    <2>3. SameRow(held[p]) \/ Claimed(q, held[p]) \/ Finished(q, held[p]) \/ Reopened(q, held[p])
        BY <1>3, <2>2, PumpRowFrame
    <2> QED  BY <1>1, <2>1, <2>3 DEF Claimed, Finished, Reopened
<1>4. CASE ClaimDelivery(p)
    <2>1. PICK n \in Messages :
             /\ outbox' = [outbox EXCEPT ![n] =
                   [status |-> "delivering", owner |-> p,
                    attempts |-> Counted(@.attempts), deadline |-> "ahead"]]
             /\ held' = [held EXCEPT ![p] = n]
             /\ attempt' = [attempt EXCEPT ![p] = Counted(outbox[n].attempts)]
        BY <1>4 DEF ClaimDelivery, Candidates, TypeOK
    <2> QED  BY <2>1 DEF TypeOK
<1>5. CASE Publish(p)
    BY <1>5, <1>1 DEF Publish, SameRow
<1>6. CASE \/ StartPump(p) \/ Reconcile(p) \/ Crash(p) \/ SnapshotClaim(p) \/ PumpReturns(p)
           \/ FinishDelivery(p) \/ FinishTooLate(p)
    <2>1. pc'[p] \notin {"publish", "finish"}
        BY <1>6
        DEF StartPump, Reconcile, ScanExhausted, ScanUnacknowledged, CommitReconcile, Crash,
            SnapshotClaim, PumpReturns, FinishDelivery, FinishTooLate, Goto, TypeOK
    <2> QED  BY <2>1
<1>7. CASE UNCHANGED vars
    BY <1>7 DEF vars, pumpVars, AttemptIsCurrent
<1> QED  BY <1>2, <1>3, <1>4, <1>5, <1>6, <1>7 DEF Next, Deliver, Proceed

LEMMA StepDead ==
    ASSUME TypeOK, HeldIsMessage, AttemptIsCurrent, BatchIsLocked, AbsentIsUnattempted,
           DeadLettersAreExhausted, [Next]_vars
    PROVE  DeadLettersAreExhausted'
<1> USE PolicyAssumption
<1> SUFFICES ASSUME NEW m \in Messages, m \in dead'
             PROVE  outbox'[m].attempts >= MaxAttempts
    BY StepTypes DEF DeadLettersAreExhausted, TypeOK
<1> outbox[m].attempts \in Attempts
    BY DEF TypeOK, Row
<1>1. CASE m \in dead
    <2>1. outbox[m].attempts >= MaxAttempts
        BY <1>1 DEF DeadLettersAreExhausted
    <2>2. ~Enqueued(m)
        BY <2>1 DEF Enqueued, AbsentIsUnattempted
    <2>3. ~Replayed(m)
        BY DEF Replayed
    <2>4. Counted(outbox[m].attempts) >= MaxAttempts
        BY <2>1, CountedTypes DEF Attempts, AttemptCap
    <2>5. \/ SameRow(m)
          \/ \E p \in Pumps : Claimed(p, m) \/ Finished(p, m) \/ Reopened(p, m)
        <3>1. CASE UNCHANGED vars
            BY <3>1 DEF vars, SameRow
        <3> QED  BY <2>2, <2>3, <3>1, PumpRowFrame, MessageRowFrame DEF Next
    <2> QED  BY <2>1, <2>4, <2>5 DEF SameRow, Claimed, Finished, Reopened
<1>2. CASE m \notin dead
    <2>1. ASSUME NEW p \in Pumps, CommitReconcile(p)
          PROVE  outbox'[m].attempts >= MaxAttempts
        <3>1. m \in batch[p].bury
            BY <1>2, <2>1 DEF CommitReconcile
        <3>2. outbox'[m].attempts = outbox[m].attempts
            <4>1. outbox'[m] \in {outbox[m], Requeued(outbox[m])} /\ outbox[m] \in Row
                BY <2>1 DEF CommitReconcile, TypeOK
            <4> QED  BY <4>1, RequeuedTypes
        <3> QED  BY <3>1, <3>2 DEF BatchIsLocked
    <2>2. ASSUME NEW p \in Pumps, FinishDelivery(p)
          PROVE  outbox'[m].attempts >= MaxAttempts
        <3>1. m = held[p] /\ attempt[p] >= MaxAttempts
            BY <1>2, <2>2 DEF FinishDelivery
        <3>2. attempt[p] = outbox[m].attempts
            BY <2>2, <3>1 DEF FinishDelivery, Delivering, AttemptIsCurrent
        <3>3. outbox'[m].attempts = outbox[m].attempts
            BY <2>2, <3>1 DEF FinishDelivery, TypeOK
        <3> QED  BY <3>1, <3>2, <3>3
    <2>3. ASSUME NEW p \in Pumps,
                 \/ StartPump(p) \/ ScanExhausted(p) \/ ScanUnacknowledged(p) \/ SnapshotClaim(p)
                 \/ ClaimDelivery(p) \/ PumpReturns(p) \/ Publish(p) \/ FinishTooLate(p) \/ Crash(p)
          PROVE  FALSE
        BY <1>2, <2>3
        DEF StartPump, ScanExhausted, ScanUnacknowledged, SnapshotClaim, ClaimDelivery,
            PumpReturns, Publish, FinishTooLate, Crash
    <2>4. ASSUME NEW n \in Messages,
                 \/ Enqueue(n) \/ Replay(n) \/ Expire(n) \/ Overrun(n) \/ ClockBack(n)
                 \/ BecomeDue(n) \/ Consumers(n)
          PROVE  FALSE
        BY <1>2, <2>4
        DEF Enqueue, Replay, Expire, Overrun, Elapse, ClockBack, BecomeDue,
            Consumers, ConsumeHint, ConsumerFails, Execution, Receipt
    <2>5. CASE UNCHANGED vars
        BY <1>2, <2>5 DEF vars
    <2> QED  BY <2>1, <2>2, <2>3, <2>4, <2>5 DEF Next, Reconcile, Deliver, Proceed
<1> QED  BY <1>1, <1>2

-----------------------------------------------------------------------------
(* The inductive invariant and what follows from it.                       *)

LEMMA InitInv == Init => Inv
<1> SUFFICES ASSUME Init
             PROVE  Inv
    OBVIOUS
<1>1. TypeOK /\ HeldIsMessage
    BY InitTypes
<1>2. AttemptIsCurrent /\ BatchIsLocked /\ AbsentIsUnattempted /\ DeadLettersAreExhausted
    BY DEF Init, AttemptIsCurrent, BatchIsLocked, AbsentIsUnattempted,
           DeadLettersAreExhausted, NoBatch
<1> QED  BY <1>1, <1>2 DEF Inv

LEMMA StepInv == Inv /\ [Next]_vars => Inv'
BY StepTypes, StepAttempt, StepBatch, StepAbsent, StepDead DEF Inv

LEMMA Invariance == Spec => []Inv
BY InitInv, StepInv, PTL DEF Spec

\* An open dead letter means the attempts of the message are used up, in
\* every interleaving of pumps, reconciles and replays.
THEOREM DeadLettersJustified == Spec => []DeadLettersAreExhausted
<1>1. Inv => DeadLettersAreExhausted
    BY DEF Inv
<1> QED  BY <1>1, Invariance, PTL

\* finish_delivery names its owner and reconcile leaves live deliveries
\* alone: only the publisher, or an operator's replay, ends one.
THEOREM DeliveriesEndedByPublisher == Spec => OnlyPublisherEndsDelivery
<1>1. ASSUME Inv, [Next]_vars, NEW m \in Messages,
             outbox[m].status = "delivering", outbox[m].deadline = "ahead",
             outbox'[m].status # "delivering"
      PROVE  \/ pc[outbox[m].owner] = "finish" /\ held[outbox[m].owner] = m
             \/ m \in dead /\ m \notin dead'
    <2> TypeOK /\ HeldIsMessage
        BY <1>1 DEF Inv
    <2>1. ~SameRow(m) /\ ~Enqueued(m)
        BY <1>1 DEF SameRow, Enqueued
    <2>2. ASSUME NEW p \in Pumps
          PROVE  ~Claimed(p, m) /\ ~Reopened(p, m)
        BY <1>1 DEF Claimed, Reopened, Inv, BatchIsLocked
    <2>3. Replayed(m) \/ \E p \in Pumps : Finished(p, m)
        <3>1. CASE UNCHANGED vars
            BY <1>1, <3>1 DEF vars
        <3> QED  BY <1>1, <2>1, <2>2, <3>1, PumpRowFrame, MessageRowFrame DEF Next
    <2> QED  BY <2>3 DEF Replayed, Finished, Delivering
<1>2. Inv /\ [Next]_vars =>
          [\A m \in Messages :
              /\ outbox[m].status = "delivering" /\ outbox[m].deadline = "ahead"
              /\ outbox'[m].status # "delivering"
              => \/ pc[outbox[m].owner] = "finish" /\ held[outbox[m].owner] = m
                 \/ m \in dead /\ m \notin dead']_vars
    BY <1>1
<1> QED  BY <1>2, Invariance, PTL DEF Spec, OnlyPublisherEndsDelivery
=============================================================================
