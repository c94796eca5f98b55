--------------------------- MODULE DurableDelivery ---------------------------
(***************************************************************************)
(* Publisher side of the transactional outbox: pump, reconcile, replay.    *)
(*                                                                         *)
(* Any number of pumps run at once (Celery beat starts one every five      *)
(* seconds and any worker may run it; operators run reconcile by hand).    *)
(* Each first reconciles, then repeatedly claims a message, publishes a    *)
(* hint with its id and records the outcome.  The broker and the consumers *)
(* are the environment here; TaskExecution models the consumers.           *)
(*                                                                         *)
(* One deadline stands for the instant that matters in each status:        *)
(* available_at of a pending message, lease_expires_at of one being        *)
(* delivered, published_at + lease_seconds of a published one.             *)
(***************************************************************************)
EXTENDS Naturals, FiniteSets

CONSTANTS
    Messages,       \* numbers, in the order of created_at, id
    Acknowledged,   \* messages of topics whose consumer records a receipt
    Scheduled,      \* messages with a not-before instant in the future
    Pumps,          \* processes running pump()
    None,           \* nobody
    MaxAttempts,    \* max_attempts of the delivery policy
    MaxFaults       \* bound on crashes, redeliveries and clock steps

ASSUME MessageAssumption ==
    Messages \subseteq Nat /\ Acknowledged \subseteq Messages /\ Scheduled \subseteq Messages
ASSUME PumpAssumption == None \notin Pumps /\ None \notin Messages
ASSUME PolicyAssumption == MaxAttempts \in Nat \ {0} /\ MaxFaults \in Nat

VARIABLES
    outbox,         \* outbox_message: the committed row of each message
    locked,         \* whose transaction holds the row lock
    dead,           \* messages with an open dead letter
    pc,             \* where each pump is
    batch,          \* what its open reconcile transaction will do
    snapshot,       \* rows its claim statement saw as candidates
    held, attempt,  \* the message it claimed, with the attempt_count it read
    failed,         \* publish raised
    hints,          \* messages with a hint in the broker
    due,            \* messages whose not-before instant has passed
    inbox,          \* messages with a committed receipt
    executing,      \* messages with a live execution lease
    faults          \* failures spent so far

pumpVars == <<pc, batch, snapshot, held, attempt, failed>>
consumers == <<due, inbox, executing>>
vars == <<outbox, locked, dead, pumpVars, hints, consumers, faults>>

Statuses == {"absent", "pending", "delivering", "published"}

\* attempt_count is only compared with MaxAttempts, so it may saturate.
AttemptCap == MaxAttempts + 1
Attempts == 0..AttemptCap

Row == [status : Statuses, owner : Pumps \union {None}, attempts : Attempts,
        deadline : {"ahead", "past"}]
Batch == [bury : SUBSET Messages, requeue : SUBSET Messages]
PCs == {"idle", "exhausted", "unacknowledged", "commit", "loop", "claim",
        "publish", "finish"}

TypeOK ==
    /\ outbox \in [Messages -> Row]
    /\ locked \in [Messages -> Pumps \union {None}]
    /\ dead \subseteq Messages
    /\ pc \in [Pumps -> PCs]
    /\ batch \in [Pumps -> Batch]
    /\ snapshot \in [Pumps -> SUBSET Messages]
    /\ held \in [Pumps -> Messages \union {None}]
    /\ attempt \in [Pumps -> Attempts]
    /\ failed \in [Pumps -> BOOLEAN]
    /\ hints \subseteq Messages
    /\ due \subseteq Messages
    /\ inbox \subseteq Messages
    /\ executing \subseteq Messages
    /\ faults \in 0..MaxFaults

NoBatch == [bury |-> {}, requeue |-> {}]

Init ==
    /\ outbox = [m \in Messages |->
          [status |-> "absent", owner |-> None, attempts |-> 0, deadline |-> "past"]]
    /\ locked = [m \in Messages |-> None]
    /\ dead = {}
    /\ pc = [p \in Pumps |-> "idle"]
    /\ batch = [p \in Pumps |-> NoBatch]
    /\ snapshot = [p \in Pumps |-> {}]
    /\ held = [p \in Pumps |-> None]
    /\ attempt = [p \in Pumps |-> 0]
    /\ failed = [p \in Pumps |-> FALSE]
    /\ hints = {}
    /\ due = Messages \ Scheduled
    /\ inbox = {}
    /\ executing = {}
    /\ faults = 0

-----------------------------------------------------------------------------
Goto(p, label) == pc' = [pc EXCEPT ![p] = label]
Fault == faults < MaxFaults /\ faults' = faults + 1
Past(m) == outbox[m].deadline = "past"

\* Pending and available, or being delivered under an expired lease.
Waiting(m) ==
    Past(m) /\ outbox[m].status \in {"pending", "delivering"}

\* The WHERE clause of claim_delivery on the message row itself.
Claimable(m) == Waiting(m) /\ m \in due

\* The first SELECT of reconcile: too many attempts and nobody delivering.
Exhausted(m) ==
    /\ outbox[m].attempts >= MaxAttempts
    /\ outbox[m].status = "pending" \/ (outbox[m].status = "delivering" /\ Past(m))
    /\ m \notin dead

\* The second SELECT: published long enough ago, no receipt, nobody at it.
Unacknowledged(m) ==
    /\ m \in Acknowledged
    /\ outbox[m].status = "published" /\ Past(m)
    /\ m \notin inbox /\ m \notin executing /\ m \notin dead

\* FOR UPDATE SKIP LOCKED.
Lockable(p, m) == locked[m] \in {None, p}

\* FOR UPDATE, or an UPDATE, that waits.
Unlocked(m) == locked[m] = None

Unlock(p) == locked' = [m \in Messages |-> IF locked[m] = p THEN None ELSE locked[m]]

\* attempt_count + 1.
Counted(n) == IF n < AttemptCap THEN n + 1 ELSE n

Requeued(row) == [row EXCEPT !.status = "pending", !.deadline = "past"]

\* The row is still this pump's delivery and its lease is live.
Delivering(p) ==
    LET row == outbox[held[p]]
    IN  row.status = "delivering" /\ row.owner = p /\ row.deadline = "ahead"

Forget(p) ==
    /\ held' = [held EXCEPT ![p] = None]
    /\ attempt' = [attempt EXCEPT ![p] = 0]
    /\ failed' = [failed EXCEPT ![p] = FALSE]

-----------------------------------------------------------------------------
(* Faulty variants: plausible bugs of the definitions they are named after *)
(* (not part of the specification), each noticed by a property below.      *)

\* The exhausted rows are read without FOR UPDATE.
ScanExhausted_NoLock(p) ==
    /\ pc[p] = "exhausted"
    /\ batch' = [batch EXCEPT ![p].bury = {m \in Messages : Exhausted(m)}]
    /\ Goto(p, "unacknowledged")
    /\ UNCHANGED <<outbox, locked, dead, snapshot, held, attempt, failed, hints, consumers, faults>>

\* Unacknowledged messages are requeued or left alone, never dead-lettered.
ScanUnacknowledged_NoBury(p) ==
    /\ pc[p] = "unacknowledged"
    /\ LET found == {m \in Messages : /\ Unacknowledged(m) /\ Lockable(p, m)
                                      /\ outbox[m].attempts < MaxAttempts} IN
          /\ batch' = [batch EXCEPT ![p].requeue = found]
          /\ locked' = [m \in Messages |-> IF m \in found THEN p ELSE locked[m]]
    /\ Goto(p, "commit")
    /\ UNCHANGED <<outbox, dead, snapshot, held, attempt, failed, hints, consumers, faults>>

\* finish_delivery does not compare lease_owner.
FinishDelivery_AnyOwner(p) ==
    /\ pc[p] = "finish"
    /\ Unlocked(held[p])
    /\ outbox[held[p]].status = "delivering" /\ outbox[held[p]].deadline = "ahead"
    /\ outbox' = [outbox EXCEPT ![held[p]] =
          [status |-> IF failed[p] THEN "pending" ELSE "published",
           owner |-> None, attempts |-> @.attempts, deadline |-> "ahead"]]
    /\ dead' = IF failed[p] /\ attempt[p] >= MaxAttempts
                 THEN dead \union {held[p]} ELSE dead
    /\ Forget(p)
    /\ Goto(p, "loop")
    /\ UNCHANGED <<locked, batch, snapshot, hints, consumers, faults>>

\* The lease of a claim is written as NULL.
ClaimDelivery_NoLease(p) ==
    /\ pc[p] = "claim"
    /\ \E m \in snapshot[p] :
          /\ outbox' = [outbox EXCEPT ![m] =
                [status |-> "delivering", owner |-> p,
                 attempts |-> Counted(@.attempts), deadline |-> None]]
          /\ held' = [held EXCEPT ![p] = m]
          /\ attempt' = [attempt EXCEPT ![p] = Counted(outbox[m].attempts)]
    /\ snapshot' = [snapshot EXCEPT ![p] = {}]
    /\ Goto(p, "publish")
    /\ UNCHANGED <<locked, dead, batch, failed, hints, consumers, faults>>

-----------------------------------------------------------------------------
(* enqueue: the business transaction that carries the intent commits.      *)

Enqueue(m) ==
    /\ outbox[m].status = "absent"
    /\ outbox' = [outbox EXCEPT ![m] =
          [status |-> "pending", owner |-> None, attempts |-> 0,
           deadline |-> IF m \in due THEN "past" ELSE "ahead"]]
    /\ UNCHANGED <<locked, dead, pumpVars, hints, consumers, faults>>

-----------------------------------------------------------------------------
(* pump: reconcile is one transaction of several statements.               *)

StartPump(p) ==
    /\ pc[p] = "idle"
    /\ Goto(p, "exhausted")
    /\ UNCHANGED <<outbox, locked, dead, batch, snapshot, held, attempt, failed,
                   hints, consumers, faults>>

ScanExhausted(p) ==
    /\ pc[p] = "exhausted"
    /\ LET found == {m \in Messages : Exhausted(m) /\ Lockable(p, m)} IN
          /\ batch' = [batch EXCEPT ![p].bury = found]
          /\ locked' = [m \in Messages |-> IF m \in found THEN p ELSE locked[m]]
    /\ Goto(p, "unacknowledged")
    /\ UNCHANGED <<outbox, dead, snapshot, held, attempt, failed, hints, consumers, faults>>

ScanUnacknowledged(p) ==
    /\ pc[p] = "unacknowledged"
    /\ LET found == {m \in Messages : Unacknowledged(m) /\ Lockable(p, m)}
           over == {m \in found : outbox[m].attempts >= MaxAttempts}
       IN  /\ batch' = [batch EXCEPT ![p] = [bury |-> @.bury \union over,
                                             requeue |-> found \ over]]
           /\ locked' = [m \in Messages |-> IF m \in found THEN p ELSE locked[m]]
    /\ Goto(p, "commit")
    /\ UNCHANGED <<outbox, dead, snapshot, held, attempt, failed, hints, consumers, faults>>

\* Dead letters and requeued rows become visible together.  Receipts that
\* committed since the scans are not looked at again.
CommitReconcile(p) ==
    /\ pc[p] = "commit"
    /\ dead' = dead \union batch[p].bury
    /\ outbox' = [m \in Messages |->
          IF m \in batch[p].requeue THEN Requeued(outbox[m]) ELSE outbox[m]]
    /\ batch' = [batch EXCEPT ![p] = NoBatch]
    /\ Unlock(p)
    /\ Goto(p, "loop")
    /\ UNCHANGED <<snapshot, held, attempt, failed, hints, consumers, faults>>

-----------------------------------------------------------------------------
(* pump: claim, publish, record; repeated up to the limit.                 *)

\* The claim statement takes its snapshot: messages that are claimable and
\* have no open dead letter.
SnapshotClaim(p) ==
    /\ pc[p] = "loop"
    /\ snapshot' = [snapshot EXCEPT ![p] = {m \in Messages : Claimable(m) /\ m \notin dead}]
    /\ Goto(p, "claim")
    /\ UNCHANGED <<outbox, locked, dead, batch, held, attempt, failed, hints, consumers, faults>>

\* SKIP LOCKED and the recheck of rows that changed since: the message's own
\* columns are current, the dead-letter subquery still sees the snapshot.
Candidates(p) == {m \in snapshot[p] : Lockable(p, m) /\ Claimable(m)}

ClaimDelivery(p) ==
    /\ pc[p] = "claim"
    /\ \E m \in Candidates(p) :
          /\ \A n \in Candidates(p) : m <= n
          /\ outbox' = [outbox EXCEPT ![m] =
                [status |-> "delivering", owner |-> p,
                 attempts |-> Counted(@.attempts), deadline |-> "ahead"]]
          /\ held' = [held EXCEPT ![p] = m]
          /\ attempt' = [attempt EXCEPT ![p] = Counted(outbox[m].attempts)]
    /\ snapshot' = [snapshot EXCEPT ![p] = {}]
    /\ Goto(p, "publish")
    /\ UNCHANGED <<locked, dead, batch, failed, hints, consumers, faults>>

\* Nothing to claim, or the limit of one pump reached: the pump returns.
PumpReturns(p) ==
    /\ \/ pc[p] = "claim" /\ Candidates(p) = {}
       \/ pc[p] = "loop"
    /\ snapshot' = [snapshot EXCEPT ![p] = {}]
    /\ Goto(p, "idle")
    /\ UNCHANGED <<outbox, locked, dead, batch, held, attempt, failed, hints, consumers, faults>>

\* publish returns with the hint in the broker, or raises with or without it.
Publish(p) ==
    /\ pc[p] = "publish"
    /\ \/ hints' = hints \union {held[p]} /\ failed' = [failed EXCEPT ![p] = FALSE]
       \/ hints' \in {hints, hints \union {held[p]}} /\ failed' = [failed EXCEPT ![p] = TRUE]
    /\ Goto(p, "finish")
    /\ UNCHANGED <<outbox, locked, dead, batch, snapshot, held, attempt, consumers, faults>>

\* finish_delivery: record the outcome and, after too many failures, the
\* dead letter in the same transaction.
FinishDelivery(p) ==
    /\ pc[p] = "finish"
    /\ Unlocked(held[p]) /\ Delivering(p)
    /\ outbox' = [outbox EXCEPT ![held[p]] =
          [status |-> IF failed[p] THEN "pending" ELSE "published",
           owner |-> None, attempts |-> @.attempts, deadline |-> "ahead"]]
    /\ dead' = IF failed[p] /\ attempt[p] >= MaxAttempts
                 THEN dead \union {held[p]} ELSE dead
    /\ Forget(p)
    /\ Goto(p, "loop")
    /\ UNCHANGED <<locked, batch, snapshot, hints, consumers, faults>>

\* DeliveryLeaseLost: a later owner is authoritative; the pump goes on.
FinishTooLate(p) ==
    /\ pc[p] = "finish"
    /\ Unlocked(held[p]) /\ ~Delivering(p)
    /\ Forget(p)
    /\ Goto(p, "loop")
    /\ UNCHANGED <<outbox, locked, dead, batch, snapshot, hints, consumers, faults>>

\* The process dies, or a statement fails and the task with it.
Crash(p) ==
    /\ pc[p] # "idle"
    /\ Fault
    /\ Unlock(p)
    /\ batch' = [batch EXCEPT ![p] = NoBatch]
    /\ snapshot' = [snapshot EXCEPT ![p] = {}]
    /\ Forget(p)
    /\ Goto(p, "idle")
    /\ UNCHANGED <<outbox, dead, hints, consumers>>

-----------------------------------------------------------------------------
(* replay: an operator reopens one dead letter.                            *)

Replay(m) ==
    /\ m \in dead /\ Unlocked(m)
    /\ dead' = dead \ {m}
    /\ outbox' = [outbox EXCEPT ![m] =
          [status |-> "pending", owner |-> None, attempts |-> 0, deadline |-> "past"]]
    /\ UNCHANGED <<locked, pumpVars, hints, consumers, faults>>

-----------------------------------------------------------------------------
(* Clock, broker and consumers.                                            *)

\* A pump is still publishing the message, or about to record the outcome.
Attended(m) ==
    /\ outbox[m].status = "delivering"
    /\ \E p \in Pumps : held[p] = m /\ outbox[m].owner = p

Elapse(m) ==
    /\ outbox[m].status # "absent" /\ outbox[m].deadline = "ahead"
    /\ m \in due
    /\ outbox' = [outbox EXCEPT ![m].deadline = "past"]
    /\ UNCHANGED <<locked, dead, pumpVars, hints, consumers>>

Expire(m) == ~Attended(m) /\ Elapse(m) /\ UNCHANGED faults

\* Publishing takes longer than the delivery lease.
Overrun(m) == Attended(m) /\ Elapse(m) /\ Fault

ClockBack(m) ==
    /\ outbox[m].status # "absent" /\ Past(m)
    /\ Fault
    /\ outbox' = [outbox EXCEPT ![m].deadline = "ahead"]
    /\ UNCHANGED <<locked, dead, pumpVars, hints, consumers>>

BecomeDue(m) ==
    /\ m \notin due
    /\ due' = due \union {m}
    /\ UNCHANGED <<outbox, locked, dead, pumpVars, hints, inbox, executing, faults>>

\* Hints and executions, as far as a pump can see them: a worker takes a hint
\* and may drop it, the broker delivers one again when a worker fails, leases
\* of executions end or pass to another message, and some leave a receipt.
ConsumeHint(m) ==
    /\ m \in hints
    /\ hints' = hints \ {m}
    /\ UNCHANGED <<outbox, locked, dead, pumpVars, consumers, faults>>

ConsumerFails(m) ==
    /\ Fault
    /\ hints' \in {hints, hints \union {m}}
    /\ UNCHANGED <<outbox, locked, dead, pumpVars, consumers>>

Execution(m) ==
    /\ m \in Acknowledged
    /\ \E n \in Messages :
          executing' \in {executing \ {n}, (executing \ {n}) \union {m}}
    /\ UNCHANGED faults \/ Fault
    /\ UNCHANGED <<outbox, locked, dead, pumpVars, hints, due, inbox>>

Receipt(m) ==
    /\ m \in Acknowledged
    /\ inbox' = inbox \union {m}
    /\ UNCHANGED <<outbox, locked, dead, pumpVars, hints, due, executing, faults>>

-----------------------------------------------------------------------------
Reconcile(p) == ScanExhausted(p) \/ ScanUnacknowledged(p) \/ CommitReconcile(p)
Proceed(p) ==
    \/ ClaimDelivery(p) \/ PumpReturns(p)
    \/ Publish(p) \/ FinishDelivery(p) \/ FinishTooLate(p)
Deliver(p) == SnapshotClaim(p) \/ Proceed(p)
Consumers(m) == ConsumeHint(m) \/ ConsumerFails(m) \/ Execution(m) \/ Receipt(m)

Next ==
    \/ \E p \in Pumps : StartPump(p) \/ Reconcile(p) \/ Deliver(p) \/ Crash(p)
    \/ \E m \in Messages :
          \/ Enqueue(m) \/ Replay(m) \/ Expire(m) \/ Overrun(m) \/ ClockBack(m) \/ BecomeDue(m)
          \/ Consumers(m)

Spec == Init /\ [][Next]_vars

\* Beat starts pumps and they get through their statements; a pump does not
\* stop at its limit while messages wait for ever; time passes.
Fairness ==
    /\ \A p \in Pumps :
          /\ WF_vars(StartPump(p)) /\ WF_vars(Reconcile(p))
          /\ SF_vars(SnapshotClaim(p)) /\ SF_vars(Proceed(p))
    /\ \A m \in Messages : WF_vars(Expire(m)) /\ WF_vars(BecomeDue(m))

FairSpec == Spec /\ Fairness

-----------------------------------------------------------------------------
(* Properties.                                                             *)

\* A dead letter is opened only when the attempts are used up; replay, which
\* gives new ones, closes it.
DeadLettersAreExhausted ==
    \A m \in dead : outbox[m].attempts >= MaxAttempts

\* A live delivery is ended by its own publisher or by a replay: neither a
\* deposed publisher nor reconcile touches a message somebody is delivering.
OnlyPublisherEndsDelivery ==
    [][\A m \in Messages :
          /\ outbox[m].status = "delivering" /\ outbox[m].deadline = "ahead"
          /\ outbox'[m].status # "delivering"
          => \/ pc[outbox[m].owner] = "finish" /\ held[outbox[m].owner] = m
             \/ m \in dead /\ m \notin dead']_vars

\* Settled: acknowledged, dead-lettered, or a hint nobody need acknowledge.
Settled(m) ==
    \/ m \in inbox \/ m \in dead
    \/ m \notin Acknowledged /\ outbox[m].status = "published"

\* No message is forgotten: with every publish failing, every hint lost and
\* every handler failing it still ends as a dead letter.  (Unless workers go
\* on executing it for ever, which reconcile does not interrupt.)
EveryMessageSettles ==
    \A m \in Messages :
        <>[](m \notin executing) => (outbox[m].status # "absent" ~> Settled(m))

\* The policy's limit as the documentation words it.
AttemptsWithinLimit ==
    \A m \in Messages : outbox[m].attempts <= MaxAttempts
=============================================================================
