---------------------------- MODULE TaskExecution ----------------------------
(***************************************************************************)
(* Consumer side of the transactional outbox: DurableTasks.consume.        *)
(*                                                                         *)
(* A broker hint makes a worker call consume(message_id).  The worker      *)
(* claims the execution row of the message's resource (a lease with a      *)
(* fencing epoch), runs a handler that may commit progress of its own,     *)
(* records the inbox receipt and commits.  Every commit re-reads the lease *)
(* FOR UPDATE first; a heartbeat renews the lease on another connection.   *)
(*                                                                         *)
(* PostgreSQL runs every transaction at READ COMMITTED: each statement is  *)
(* an action with its own snapshot, a row lock lasts until the transaction *)
(* ends, and a statement that needs a locked row waits for it.             *)
(*                                                                         *)
(* Time is not a number: a lease is "fresh", "aging", "lapsed" or          *)
(* "released" (expires_at = -infinity), and the clock may step back.       *)
(***************************************************************************)
EXTENDS Naturals, FiniteSets

CONSTANTS
    Messages,       \* outbox messages whose topic has a registered handler
    Workers,        \* Celery worker processes that execute consume()
    Resources,      \* topic:aggregate_key values
    ResourceOf,     \* the resource each message belongs to
    None,           \* nobody / no message
    MaxFaults       \* bound on failures, stalls, crashes and clock steps

ASSUME ResourceAssumption == ResourceOf \in [Messages -> Resources]
ASSUME NoneAssumption == None \notin Workers /\ None \notin Messages
ASSUME FaultAssumption == MaxFaults \in Nat

VARIABLES
    exec,           \* outbox_execution: the committed row of each resource
    rowLock,        \* whose transaction holds the lock of that row
    inbox,          \* messages with a committed inbox row
    inboxLock,      \* whose transaction has an uncommitted inbox row
    due,            \* messages whose not-before instant has passed
    dead,           \* messages with an open dead letter
    pc, job, token, \* each worker: where it is, its message, its epoch
    applied,        \* history: committed final effects of each message
    fence,          \* history: epoch of the resource's last committed write
    freed,          \* history: last epoch whose owner released it
    faults          \* failures spent so far

vars == <<exec, rowLock, inbox, inboxLock, due, dead, pc, job, token,
          applied, fence, freed, faults>>

Leases == {"fresh", "aging", "lapsed", "released"}
Unlocked == {"granted", "handling", "receipted"}  \* working, row not locked
Guarded == {"saving", "committing"}               \* past the commit guard
Working == Unlocked \union Guarded
PCs == {"idle", "selected", "claiming", "ending"} \union Working

Execution == [msg : Messages \union {None}, owner : Workers \union {None},
              epoch : Nat, lease : Leases]

TypeOK ==
    /\ exec \in [Resources -> Execution]
    /\ rowLock \in [Resources -> Workers \union {None}]
    /\ inbox \subseteq Messages
    /\ inboxLock \in [Messages -> Workers \union {None}]
    /\ due \subseteq Messages
    /\ dead \subseteq Messages
    /\ pc \in [Workers -> PCs]
    /\ job \in [Workers -> Messages \union {None}]
    /\ token \in [Workers -> Nat]
    /\ applied \in [Messages -> Nat]
    /\ fence \in [Resources -> Nat]
    /\ freed \in [Resources -> Nat]
    /\ faults \in 0..MaxFaults

\* A resource nobody ever claimed has no row: epoch 0, a lease that is over.
Init ==
    /\ exec = [r \in Resources |->
                 [msg |-> None, owner |-> None, epoch |-> 0, lease |-> "released"]]
    /\ rowLock = [r \in Resources |-> None]
    /\ inbox = {}
    /\ inboxLock = [m \in Messages |-> None]
    /\ due \in SUBSET Messages
    /\ dead = {}
    /\ pc = [w \in Workers |-> "idle"]
    /\ job = [w \in Workers |-> None]
    /\ token = [w \in Workers |-> 0]
    /\ applied = [m \in Messages |-> 0]
    /\ fence = [r \in Resources |-> 0]
    /\ freed = [r \in Resources |-> 0]
    /\ faults = 0

-----------------------------------------------------------------------------
Res(w) == ResourceOf[job[w]]
Live(r) == exec[r].lease \in {"fresh", "aging"}
RowFree(r) == rowLock[r] = None

\* The row is still the one this worker was granted, expired or not.
Owns(w) ==
    LET row == exec[Res(w)]
    IN  row.msg = job[w] /\ row.owner = w /\ row.epoch = token[w]

\* CHECK_LEASE finds a row.
Holds(w) == Owns(w) /\ Live(Res(w))

Goto(w, label) == pc' = [pc EXCEPT ![w] = label]
Lock(w) == rowLock' = [rowLock EXCEPT ![Res(w)] = w]
Unlock(w) == rowLock' = [rowLock EXCEPT ![Res(w)] = None]
Return(w) ==
    /\ Goto(w, "idle")
    /\ job' = [job EXCEPT ![w] = None]
Fault == faults < MaxFaults /\ faults' = faults + 1

\* What ROLLBACK, or the server on a broken connection, undoes.
Rollback(w) ==
    /\ rowLock' = [r \in Resources |-> IF rowLock[r] = w THEN None ELSE rowLock[r]]
    /\ inboxLock' = [m \in Messages |-> IF inboxLock[m] = w THEN None ELSE inboxLock[m]]

history == <<applied, fence, freed>>
environment == <<due, dead>>

\* The row the upsert writes, committed with the given lease.
NewRow(w, lease) ==
    [exec EXCEPT ![Res(w)] = [msg |-> job[w], owner |-> w,
                              epoch |-> @.epoch + 1, lease |-> lease]]

\* An exception or a cancellation ends the work; the session rolls back.
EndWork(w) ==
    /\ Rollback(w)
    /\ Goto(w, "ending")
    /\ UNCHANGED <<exec, inbox, environment, job, token, history>>

-----------------------------------------------------------------------------
(* Faulty variants: plausible bugs of the definitions they are named after *)
(* (not part of the specification), each noticed by a property below.      *)

\* The inbox is not read again under the row lock.
ClaimGrant_NoRecheck(w) ==
    /\ pc[w] = "claiming"
    /\ exec' = NewRow(w, "fresh")
    /\ token' = [token EXCEPT ![w] = exec[Res(w)].epoch + 1]
    /\ Unlock(w)
    /\ Goto(w, "granted")
    /\ UNCHANGED <<inbox, inboxLock, environment, job, history, faults>>

\* Only a released row is taken over, not an expired one.
ClaimUpsert_ReleasedOnly(w) ==
    /\ pc[w] = "selected"
    /\ RowFree(Res(w)) /\ exec[Res(w)].lease = "released"
    /\ Lock(w)
    /\ Goto(w, "claiming")
    /\ UNCHANGED <<exec, inbox, inboxLock, environment, job, token, history, faults>>

\* CHECK_LEASE without FOR UPDATE.
GuardProgress_NoLock(w) ==
    /\ pc[w] = "handling"
    /\ RowFree(Res(w)) /\ Holds(w)
    /\ Goto(w, "saving")
    /\ UNCHANGED <<exec, rowLock, inbox, inboxLock, environment, job, token, history, faults>>

GuardReceipt_NoLock(w) ==
    /\ pc[w] = "receipted"
    /\ RowFree(Res(w)) /\ Holds(w)
    /\ Goto(w, "committing")
    /\ UNCHANGED <<exec, rowLock, inbox, inboxLock, environment, job, token, history, faults>>

\* renew matches the resource only: a successor's live lease satisfies it.
RenewFails_AnyOwner(w) ==
    /\ pc[w] \in Working
    /\ RowFree(Res(w)) /\ ~Live(Res(w))
    /\ EndWork(w)
    /\ UNCHANGED faults

\* Effects and receipt are two transactions, and the failure falls between.
WorkFails_BetweenCommits(w) ==
    /\ pc[w] \in Working
    /\ Fault
    /\ Rollback(w)
    /\ Goto(w, "ending")
    /\ applied' = IF pc[w] = "committing" THEN [applied EXCEPT ![job[w]] = @ + 1] ELSE applied
    /\ UNCHANGED <<exec, inbox, environment, job, token, fence, freed>>

\* release matches the resource only.
Release_AnyOwner(w) ==
    /\ pc[w] = "ending"
    /\ RowFree(Res(w))
    /\ exec' = [exec EXCEPT ![Res(w)].lease = "released"]
    /\ freed' = [freed EXCEPT ![Res(w)] = token[w]]
    /\ Return(w)
    /\ UNCHANGED <<rowLock, inbox, inboxLock, environment, token, applied, fence, faults>>

\* release writes the given value: an ordinary instant, or NULL.
ReleaseWith(w, value) ==
    /\ pc[w] = "ending"
    /\ RowFree(Res(w))
    /\ IF Owns(w)
         THEN /\ exec' = [exec EXCEPT ![Res(w)].lease = value]
              /\ freed' = [freed EXCEPT ![Res(w)] = token[w]]
         ELSE UNCHANGED <<exec, freed>>
    /\ Return(w)
    /\ UNCHANGED <<rowLock, inbox, inboxLock, environment, token, applied, fence, faults>>

Release_Now(w) == ReleaseWith(w, "lapsed")
Release_Null(w) == ReleaseWith(w, None)

-----------------------------------------------------------------------------
(* claim_execution: one transaction, three statements.                     *)

\* A hint arrives; the first SELECT finds the message consumable.  (When it
\* does not, consume returns False and nothing changes.)
Consume(w, m) ==
    /\ pc[w] = "idle"
    /\ m \in due /\ m \notin inbox /\ m \notin dead
    /\ Goto(w, "selected")
    /\ job' = [job EXCEPT ![w] = m]
    /\ UNCHANGED <<exec, rowLock, inbox, inboxLock, environment, token, history, faults>>

\* The upsert got the row lock and found the lease live: return None.
ClaimBusy(w) ==
    /\ pc[w] = "selected"
    /\ RowFree(Res(w)) /\ Live(Res(w))
    /\ Return(w)
    /\ UNCHANGED <<exec, rowLock, inbox, inboxLock, environment, token, history, faults>>

\* The upsert replaces the expired row; its transaction now holds the lock.
ClaimUpsert(w) ==
    /\ pc[w] = "selected"
    /\ RowFree(Res(w)) /\ ~Live(Res(w))
    /\ Lock(w)
    /\ Goto(w, "claiming")
    /\ UNCHANGED <<exec, inbox, inboxLock, environment, job, token, history, faults>>

\* The inbox is read again under the row lock: the message is still undone.
ClaimGrant(w) ==
    /\ pc[w] = "claiming"
    /\ job[w] \notin inbox
    /\ exec' = NewRow(w, "fresh")
    /\ token' = [token EXCEPT ![w] = exec[Res(w)].epoch + 1]
    /\ Unlock(w)
    /\ Goto(w, "granted")
    /\ UNCHANGED <<inbox, inboxLock, environment, job, history, faults>>

\* A previous execution committed while the upsert waited: leave at once.
ClaimDone(w) ==
    /\ pc[w] = "claiming"
    /\ job[w] \in inbox
    /\ exec' = NewRow(w, "released")
    /\ freed' = [freed EXCEPT ![Res(w)] = exec[Res(w)].epoch + 1]
    /\ Unlock(w)
    /\ Return(w)
    /\ UNCHANGED <<inbox, inboxLock, environment, token, applied, fence, faults>>

-----------------------------------------------------------------------------
(* execute(): the work task of consume.                                    *)

\* assert_execution_current, then the rollback that drops the snapshot.
AssertCurrent(w) ==
    /\ pc[w] = "granted"
    /\ Holds(w)
    /\ Goto(w, "handling")
    /\ UNCHANGED <<exec, rowLock, inbox, inboxLock, environment, job, token, history, faults>>

AssertFails(w) ==
    /\ pc[w] = "granted"
    /\ ~Holds(w)
    /\ EndWork(w)
    /\ UNCHANGED faults

\* The handler commits progress of its own: the guard locks the row ...
GuardProgress(w) ==
    /\ pc[w] = "handling"
    /\ RowFree(Res(w)) /\ Holds(w)
    /\ Lock(w)
    /\ Goto(w, "saving")
    /\ UNCHANGED <<exec, inbox, inboxLock, environment, job, token, history, faults>>

\* ... and the commit makes the progress durable and drops the lock.
CommitProgress(w) ==
    /\ pc[w] = "saving"
    /\ fence' = [fence EXCEPT ![Res(w)] = token[w]]
    /\ Unlock(w)
    /\ Goto(w, "handling")
    /\ UNCHANGED <<exec, inbox, inboxLock, environment, job, token, applied, freed, faults>>

\* The handler returned; claim_inbox_once inserts the receipt.  The insert
\* waits for another uncommitted row with its key and ignores a committed one.
InsertReceipt(w) ==
    /\ pc[w] = "handling"
    /\ inboxLock[job[w]] = None
    /\ inboxLock' = IF job[w] \in inbox THEN inboxLock
                    ELSE [inboxLock EXCEPT ![job[w]] = w]
    /\ Goto(w, "receipted")
    /\ UNCHANGED <<exec, rowLock, inbox, environment, job, token, history, faults>>

GuardReceipt(w) ==
    /\ pc[w] = "receipted"
    /\ RowFree(Res(w)) /\ Holds(w)
    /\ Lock(w)
    /\ Goto(w, "committing")
    /\ UNCHANGED <<exec, inbox, inboxLock, environment, job, token, history, faults>>

\* The commit guard of either commit found the lease gone: DeliveryLeaseLost.
GuardFails(w) ==
    /\ pc[w] \in {"handling", "receipted"}
    /\ RowFree(Res(w)) /\ ~Holds(w)
    /\ EndWork(w)
    /\ UNCHANGED faults

\* Business effects and receipt become durable together.
CommitReceipt(w) ==
    /\ pc[w] = "committing"
    /\ inbox' = inbox \union {job[w]}
    /\ inboxLock' = [inboxLock EXCEPT ![job[w]] = None]
    /\ applied' = [applied EXCEPT ![job[w]] = @ + 1]
    /\ fence' = [fence EXCEPT ![Res(w)] = token[w]]
    /\ Unlock(w)
    /\ Goto(w, "ending")
    /\ UNCHANGED <<exec, environment, job, token, freed, faults>>

-----------------------------------------------------------------------------
(* The heartbeat task, the end of consume, and failures.                   *)

\* renew: only the exact lease, only while it is live.
Renew(w) ==
    /\ pc[w] \in Working
    /\ RowFree(Res(w)) /\ Holds(w)
    /\ exec[Res(w)].lease = "aging"
    /\ exec' = [exec EXCEPT ![Res(w)].lease = "fresh"]
    /\ UNCHANGED <<rowLock, inbox, inboxLock, environment, pc, job, token, history, faults>>

\* renew updated no row: consume cancels the work.
RenewFails(w) ==
    /\ pc[w] \in Working
    /\ RowFree(Res(w)) /\ ~Holds(w)
    /\ EndWork(w)
    /\ UNCHANGED faults

\* The handler raises, a statement or COMMIT fails, or the heartbeat meets
\* any other error.  A COMMIT cut short has either happened or been undone.
WorkFails(w) ==
    /\ pc[w] \in Working
    /\ Fault
    /\ EndWork(w)

\* release: a conditional write, so a late one cannot touch a successor.
Release(w) ==
    /\ pc[w] = "ending"
    /\ RowFree(Res(w))
    /\ IF Owns(w)
         THEN /\ exec' = [exec EXCEPT ![Res(w)].lease = "released"]
              /\ freed' = [freed EXCEPT ![Res(w)] = token[w]]
         ELSE UNCHANGED <<exec, freed>>
    /\ Return(w)
    /\ UNCHANGED <<rowLock, inbox, inboxLock, environment, token, applied, fence, faults>>

\* The worker process dies, or release itself fails: nobody releases.
Crash(w) ==
    /\ pc[w] # "idle"
    /\ Fault
    /\ Rollback(w)
    /\ Return(w)
    /\ UNCHANGED <<exec, inbox, environment, token, history>>

-----------------------------------------------------------------------------
(* Clock, schedule and dead letters: what other parts do to this one.      *)

\* Some worker's heartbeat is still renewing the row.
Tended(r) == \E w \in Workers : pc[w] \in Working /\ Res(w) = r /\ Holds(w)

SetLease(r, from, to) ==
    /\ exec[r].lease \in from
    /\ exec' = [exec EXCEPT ![r].lease = to]
    /\ UNCHANGED <<rowLock, inbox, inboxLock, environment, pc, job, token, history>>

Age(r) == SetLease(r, {"fresh"}, "aging") /\ UNCHANGED faults

Lapse(r) == ~Tended(r) /\ SetLease(r, {"aging"}, "lapsed") /\ UNCHANGED faults

\* The heartbeat was starved for the whole lease.
Stall(r) == Tended(r) /\ SetLease(r, {"fresh", "aging"}, "lapsed") /\ Fault

\* clock_timestamp() steps back past a deadline; -infinity stays in the past.
ClockBack(r) == SetLease(r, {"aging", "lapsed"}, "fresh") /\ Fault

\* The schedule, dead-lettering and replay change what the first SELECT looks
\* at, and other parts of the system have failures of their own.
Environment ==
    /\ due' \in {due} \union {due \union {m} : m \in Messages}
    /\ dead' \in SUBSET Messages
    /\ UNCHANGED faults \/ Fault
    /\ UNCHANGED <<exec, rowLock, inbox, inboxLock, pc, job, token, history>>

-----------------------------------------------------------------------------
Claim(w) == ClaimBusy(w) \/ ClaimUpsert(w) \/ ClaimGrant(w) \/ ClaimDone(w)
Execute(w) ==
    \/ AssertCurrent(w) \/ AssertFails(w)
    \/ GuardProgress(w) \/ CommitProgress(w)
    \/ InsertReceipt(w) \/ GuardReceipt(w) \/ GuardFails(w) \/ CommitReceipt(w)
Heartbeat(w) == Renew(w) \/ RenewFails(w)

Next ==
    \/ \E w \in Workers :
          \/ \E m \in Messages : Consume(w, m)
          \/ Claim(w) \/ Execute(w) \/ Heartbeat(w)
          \/ WorkFails(w) \/ Release(w) \/ Crash(w)
    \/ \E r \in Resources : Age(r) \/ Lapse(r) \/ Stall(r) \/ ClockBack(r)
    \/ Environment

Spec == Init /\ [][Next]_vars

\* What the code and PostgreSQL do unaided: a worker inside a transaction
\* runs its next statement, lock queues are served (strong fairness, as the
\* row is free again and again), the heartbeat fires, and a lease nobody
\* renews runs out.  Nothing about handlers.
Advance(w) ==
    \/ Claim(w) \/ AssertCurrent(w) \/ AssertFails(w)
    \/ CommitProgress(w) \/ GuardReceipt(w) \/ CommitReceipt(w) \/ Release(w)

SystemFairness ==
    /\ \A w \in Workers : SF_vars(Advance(w)) /\ SF_vars(RenewFails(w))
    /\ \A r \in Resources : WF_vars(Age(r) \/ Lapse(r))

SystemSpec == Spec /\ SystemFairness

\* Handlers return after finitely much progress, and reconcile keeps
\* republishing a message that is due, unacknowledged and not dead.
HandlersReturn == \A w \in Workers : SF_vars(InsertReceipt(w))
HintsRecur == \A m \in Messages : SF_vars(\E w \in Workers : Consume(w, m))

-----------------------------------------------------------------------------
(* Properties.                                                             *)

\* The final effects of a message commit exactly once, together with its
\* receipt: however often hints are repeated, leases lost or workers killed.
EffectsMatchReceipts ==
    \A m \in Messages : applied[m] = IF m \in inbox THEN 1 ELSE 0

\* Between the guard's row lock and COMMIT the lease cannot change hands,
\* even when it expires in between: what commits is the current owner's.
GuardHoldsToCommit ==
    \A w \in Workers : pc[w] \in Guarded => Owns(w)

\* A worker that may still commit never works on a message whose effects
\* are already durable (the inbox is read again under the row lock).
CurrentOwnerHasWork ==
    \A w \in Workers : pc[w] \in Working /\ Owns(w) => job[w] \notin inbox

\* A released lease is over for good: no clock step makes it live again.
ReleasedStaysReleased ==
    \A r \in Resources : Live(r) => exec[r].epoch > freed[r]

\* Committed writes of one resource are in epoch order: a deposed worker's
\* late commit never lands after a write of its successor, and epochs are
\* never handed out again (the released row stays as a tombstone).
WritesInEpochOrder ==
    [][\A r \in Resources : /\ fence'[r] >= fence[r]
                            /\ exec'[r].epoch >= exec[r].epoch]_vars

\* A live lease is released by nobody but the worker it was granted to: the
\* late release of a deposed worker cannot revoke its successor's lease.
OnlyOwnersRelease ==
    [][\A r \in Resources :
          Live(r) /\ exec' = [exec EXCEPT ![r].lease = "released"]
          => pc[exec[r].owner] = "ending" /\ token[exec[r].owner] = exec[r].epoch]_vars

\* A worker whose lease is gone leaves its handler, even a handler that
\* never returns: the heartbeat cancels it.
DeposedWorkersStop ==
    \A w \in Workers : (pc[w] \in Working /\ ~Holds(w)) ~> (pc[w] = "idle" \/ Holds(w))

\* If handlers return and hints recur, a message that is due and not
\* dead-lettered for good is executed.
EveryDueMessageIsExecuted ==
    HandlersReturn /\ HintsRecur =>
        \A m \in Messages : (<>[](m \in due /\ m \notin dead)) => <>(m \in inbox)

\* Seen from outside (epochs, last write, receipts, effects) every step is a
\* step of the abstract promise or none at all.
Fenced == INSTANCE FencedEffects
    WITH term <- [r \in Resources |-> exec[r].epoch], lastWrite <- fence,
         done <- inbox, effects <- applied

ImplementsFencedEffects == Fenced!FencedSpec
=============================================================================
