---------------------------- MODULE FencedEffects ----------------------------
(***************************************************************************)
(* What the consumer side promises, without workers, locks or leases: the  *)
(* effects of a message happen once, and the writes of a resource carry    *)
(* the newest term handed out, so no write of an older term follows one of *)
(* a newer term.                                                           *)
(***************************************************************************)
EXTENDS Naturals

CONSTANTS Messages, Resources, ResourceOf

VARIABLES
    term,       \* newest term handed out for each resource
    lastWrite,  \* term of the last write to each resource
    done,       \* messages whose effects are durable
    effects     \* how often the effects of each message happened

fencedVars == <<term, lastWrite, done, effects>>

FencedTypeOK ==
    /\ term \in [Resources -> Nat]
    /\ lastWrite \in [Resources -> Nat]
    /\ done \subseteq Messages
    /\ effects \in [Messages -> Nat]

FencedInit ==
    /\ term = [r \in Resources |-> 0]
    /\ lastWrite = [r \in Resources |-> 0]
    /\ done = {}
    /\ effects = [m \in Messages |-> 0]

\* Somebody is handed the resource; every earlier holder is deposed.
NewTerm(r) ==
    /\ term' = [term EXCEPT ![r] = @ + 1]
    /\ UNCHANGED <<lastWrite, done, effects>>

\* The current holder writes.
WriteIn(r) ==
    /\ lastWrite' = [lastWrite EXCEPT ![r] = term[r]]
    /\ UNCHANGED <<term, done, effects>>

\* The current holder completes a message: effects and receipt in one step.
Complete(m) ==
    /\ m \notin done
    /\ done' = done \union {m}
    /\ effects' = [effects EXCEPT ![m] = @ + 1]
    /\ lastWrite' = [lastWrite EXCEPT ![ResourceOf[m]] = term[ResourceOf[m]]]
    /\ UNCHANGED term

FencedNext ==
    \/ \E r \in Resources : NewTerm(r) \/ WriteIn(r)
    \/ \E m \in Messages : Complete(m)

FencedSpec == FencedInit /\ [][FencedNext]_fencedVars
=============================================================================
