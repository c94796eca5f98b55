---------------------------- MODULE ReliableTasks ----------------------------
(***************************************************************************)
(* What the outbox promises to whoever commits an intent with his          *)
(* business transaction, without pumps, hints, leases or workers: work     *)
(* that was not committed is neither done nor given up, nothing is done    *)
(* before its time, the effects of an intent happen at most once, and an   *)
(* operator may reopen what was given up.  An intent may be given up while *)
(* it is being done, or afterwards: the two do not exclude each other.     *)
(***************************************************************************)
EXTENDS Naturals

CONSTANT Messages

VARIABLES
    committed,  \* intents whose transaction committed
    ripe,       \* messages whose not-before instant has passed
    done,       \* messages whose effects are durable
    effects,    \* how often the effects of each message happened
    givenUp     \* messages with an open dead letter

taskVars == <<committed, ripe, done, effects, givenUp>>

TasksInit ==
    /\ committed = {}
    /\ ripe \subseteq Messages
    /\ done = {}
    /\ effects = [m \in Messages |-> 0]
    /\ givenUp = {}

Commit(m) ==
    /\ m \notin committed
    /\ committed' = committed \union {m}
    /\ UNCHANGED <<ripe, done, effects, givenUp>>

Ripen(m) ==
    /\ ripe' = ripe \union {m}
    /\ UNCHANGED <<committed, done, effects, givenUp>>

\* Effects and receipt become durable in one step.
Perform(m) ==
    /\ m \in committed \intersect ripe /\ m \notin done
    /\ done' = done \union {m}
    /\ effects' = [effects EXCEPT ![m] = @ + 1]
    /\ UNCHANGED <<committed, ripe, givenUp>>

\* One transaction dead-letters some intents ...
GiveUp(lost) ==
    /\ givenUp' = givenUp \union lost
    /\ UNCHANGED <<committed, ripe, done, effects>>

\* ... and an operator reopens one of them.
Reopen(m) ==
    /\ m \in givenUp
    /\ givenUp' = givenUp \ {m}
    /\ UNCHANGED <<committed, ripe, done, effects>>

TasksNext ==
    \/ \E m \in Messages : Commit(m) \/ Ripen(m) \/ Perform(m) \/ Reopen(m)
    \/ \E lost \in SUBSET committed : GiveUp(lost)

TasksSpec == TasksInit /\ [][TasksNext]_taskVars
=============================================================================
