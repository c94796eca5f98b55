----------------------------- MODULE DurableTasks -----------------------------
(***************************************************************************)
(* The outbox end to end: the pumps of DurableDelivery and the workers of  *)
(* TaskExecution over one PostgreSQL database and one broker.              *)
(*                                                                         *)
(* The two parts share the receipts (inbox), the dead letters, the         *)
(* not-before instants, the hints in the broker and, through reconcile's   *)
(* active_execution_sql, the execution leases.  What each part treated as  *)
(* its environment is here the other part.                                 *)
(***************************************************************************)
EXTENDS TaskExecution

CONSTANTS Scheduled, Pumps, MaxAttempts

\* As for DurableDelivery.
ASSUME PublisherAssumption ==
    /\ Messages \subseteq Nat /\ Scheduled \subseteq Messages
    /\ None \notin Pumps /\ MaxAttempts \in Nat \ {0}

VARIABLES
    outbox, locked,                                 \* outbox_message, row locks
    pumpPc, batch, snapshot, held, attempt, failed, \* the pumps
    hints                                           \* the broker

outboxVars == <<outbox, locked, pumpPc, batch, snapshot, held, attempt, failed>>
workerVars == <<exec, rowLock, inbox, inboxLock, pc, job, token, applied, fence, freed>>
allVars == <<outboxVars, workerVars, dead, due, hints, faults>>

\* A faulty variant: a row counts as active for ever, its expiry ignored.
Executing_NoExpiry == {m \in Messages : exec[ResourceOf[m]].msg = m}

\* active_execution_sql: the row of some resource names m and is live.
Executing == {m \in Messages : exec[ResourceOf[m]].msg = m /\ Live(ResourceOf[m])}

D == INSTANCE DurableDelivery
        WITH Acknowledged <- Messages, pc <- pumpPc, executing <- Executing

SystemInit == Init /\ D!Init

-----------------------------------------------------------------------------
\* A pump, an operator's replay, an enqueuing transaction or the deadlines of
\* the outbox move; the workers stand still.
OutboxStep ==
    /\ UNCHANGED workerVars
    /\ \/ \E p \in Pumps : D!StartPump(p) \/ D!Reconcile(p) \/ D!Deliver(p) \/ D!Crash(p)
       \/ \E m \in Messages :
             \/ D!Enqueue(m) \/ D!Replay(m) \/ D!Expire(m) \/ D!Overrun(m)
             \/ D!ClockBack(m) \/ D!BecomeDue(m)

-----------------------------------------------------------------------------
(* Faulty variants: plausible bugs of the definitions they are named after *)
(* (not part of the specification), each noticed by a property below.      *)

\* The early return for a message that is not consumable records a receipt.
DropHint_RecordsReceipt(w, m) ==
    /\ pc[w] = "idle"
    /\ m \in hints
    /\ hints' = hints \ {m}
    /\ m \notin due \/ m \in inbox \/ m \in dead
    /\ inbox' = inbox \union {m}
    /\ UNCHANGED <<outboxVars, exec, rowLock, inboxLock, pc, job, token, history,
                   dead, due, faults>>

\* The early return dead-letters the message.
DropHint_Buries(w, m) ==
    /\ pc[w] = "idle"
    /\ m \in hints
    /\ hints' = hints \ {m}
    /\ m \notin due \/ m \in inbox \/ m \in dead
    /\ dead' = dead \union {m}
    /\ UNCHANGED <<outboxVars, workerVars, due, faults>>

-----------------------------------------------------------------------------
\* A worker takes a hint from the broker and finds its message consumable ...
TakeHint(w, m) ==
    /\ m \in hints
    /\ hints' = hints \ {m}
    /\ Consume(w, m)
    /\ UNCHANGED outboxVars

\* ... or not, and consume returns False.
DropHint(w, m) ==
    /\ pc[w] = "idle"
    /\ m \in hints
    /\ hints' = hints \ {m}
    /\ m \notin due \/ m \in inbox \/ m \in dead
    /\ UNCHANGED <<outboxVars, workerVars, dead, due, faults>>

\* acks_late: the broker keeps a hint until its task ends, and delivers it
\* again when the connection breaks while the worker goes on ...
Redeliver(w) ==
    /\ pc[w] # "idle"
    /\ Fault
    /\ hints' = hints \union {job[w]}
    /\ UNCHANGED <<outboxVars, workerVars, dead, due>>

\* ... or when the worker dies.
WorkerCrash(w) ==
    /\ Crash(w)
    /\ hints' \in {hints, hints \union {job[w]}}
    /\ UNCHANGED outboxVars

WorkerStep(w) ==
    /\ Claim(w) \/ Execute(w) \/ Heartbeat(w) \/ WorkFails(w) \/ Release(w)
    /\ UNCHANGED <<outboxVars, hints>>

LeaseStep(r) ==
    /\ Age(r) \/ Lapse(r) \/ Stall(r) \/ ClockBack(r)
    /\ UNCHANGED <<outboxVars, hints>>

SystemNext ==
    \/ OutboxStep
    \/ \E w \in Workers :
          \/ \E m \in Messages : TakeHint(w, m) \/ DropHint(w, m)
          \/ WorkerStep(w) \/ Redeliver(w) \/ WorkerCrash(w)
    \/ \E r \in Resources : LeaseStep(r)

System == SystemInit /\ [][SystemNext]_allVars

-----------------------------------------------------------------------------
\* The fairness of the parts, with the broker handing out its hints instead
\* of HintsRecur: whether hints recur is now for the pumps to ensure.  As in
\* TaskExecution it says nothing of handlers.
OutboxAction(A) == UNCHANGED workerVars /\ A
WorkerAction(A) == A /\ UNCHANGED <<outboxVars, hints>>

SystemFair ==
    /\ \A p \in Pumps :
          /\ WF_allVars(OutboxAction(D!StartPump(p)))
          /\ WF_allVars(OutboxAction(D!Reconcile(p)))
          /\ SF_allVars(OutboxAction(D!SnapshotClaim(p)))
          /\ SF_allVars(OutboxAction(D!Proceed(p)))
    /\ \A m \in Messages :
          /\ WF_allVars(OutboxAction(D!Expire(m)))
          /\ WF_allVars(OutboxAction(D!BecomeDue(m)))
          /\ SF_allVars(\E w \in Workers : TakeHint(w, m) \/ DropHint(w, m))
    /\ \A w \in Workers : SF_allVars(WorkerAction(Advance(w) \/ RenewFails(w)))
    /\ \A r \in Resources : WF_allVars(WorkerAction(Age(r) \/ Lapse(r)))

FairSystem == System /\ SystemFair

\* Handlers return after finitely much progress.  Nothing in the code makes
\* them: a handler has no timeout, its heartbeat renews the lease for ever,
\* and reconcile keeps seeing an active execution.
AllHandlersReturn == \A w \in Workers : SF_allVars(WorkerAction(InsertReceipt(w)))

-----------------------------------------------------------------------------
(* Properties.                                                             *)

\* If handlers return, a committed intent is executed or dead-lettered: no
\* lost hint, failed attempt, crashed pump or crashed worker makes it
\* disappear.
EveryIntentSettles ==
    AllHandlersReturn =>
        \A m \in Messages : outbox[m].status # "absent" ~> m \in inbox \/ m \in dead

\* The workers of the composed system keep to the protocol of TaskExecution:
\* what pumps, operators and the broker do is covered by its Environment, so
\* everything shown of TaskExecution holds here.
WorkersFollowProtocol == Spec

\* Likewise the pumps keep to DurableDelivery: its Consumers cover whatever
\* the workers do to hints, receipts and execution leases.
PumpsFollowProtocol == D!Spec

\* Seen by those who commit intents, look at effects and handle dead letters,
\* every step of pumps, broker and workers is a step of the promise: nothing
\* is executed or dead-lettered that no transaction committed, nothing is
\* executed before its not-before instant, and no replay, repeated hint or
\* crash lets an effect happen twice.
Tasks == INSTANCE ReliableTasks
    WITH committed <- {m \in Messages : outbox[m].status # "absent"}, ripe <- due,
         done <- inbox, effects <- applied, givenUp <- dead

ImplementsReliableTasks == Tasks!TasksSpec
=============================================================================
