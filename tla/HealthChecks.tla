---------------------------- MODULE HealthChecks ----------------------------
(***************************************************************************)
(* The image runs in several roles, one per container.  Two of them have a *)
(* probe that is a command run beside the process: the Celery worker and   *)
(* Celery Beat.  A container keeps its role, and its probe asks about that *)
(* role only; the parts of the other one stand still.                      *)
(***************************************************************************)
EXTENDS WorkerReadiness

CONSTANTS
    Pids, MaxAge, WriteInterval,                \* of SchedulerActivity
    MaxTime, MaxBoots, MaxStarts, MaxCount, MaxPublish

ASSUME BeatAssumption ==
    /\ {MaxAge, WriteInterval, MaxBoots, MaxStarts, MaxCount} \subseteq Nat \ {0}
    /\ {MaxTime, MaxPublish} \subseteq Nat

VARIABLES
    role,                                               \* of the container
    time, boot, starts, process, loop, file, reader, answer

beatVars == <<time, boot, starts, process, loop, file, reader, answer>>

B == INSTANCE SchedulerActivity

containerVars == <<vars, role, beatVars>>

InitContainer ==
    /\ role \in {"worker", "scheduler"}
    /\ Init /\ B!Init

NextContainer ==
    \/ role = "worker" /\ Next /\ UNCHANGED <<role, beatVars>>
    \/ role = "scheduler" /\ B!Next /\ UNCHANGED <<role, vars>>

Container == InitContainer /\ [][NextContainer]_containerVars

\* As in WorkerReadiness: the clock runs and the kernel schedules the command
\* that asks a worker.
Ends(A) == A /\ Watch /\ UNCHANGED <<role, beatVars>>

FairContainer ==
    Container /\ WF_containerVars(Ends(Advance)) /\ WF_containerVars(Ends(Return \/ Kill))

-----------------------------------------------------------------------------
(* Properties.  ReadyWasTrue, ReadyWasTrueAtOnce and EveryProbeEnds are    *)
(* those of WorkerReadiness.                                               *)

HealthTypeOK ==
    /\ role \in {"worker", "scheduler"}
    /\ TypeOK /\ B!TypeOK

\* The activity file survives its author; what read_activity accepts is about
\* the Beat that runs now.
AnswersAreAboutTheRunningBeat == B!AnswersAreAboutTheRunningBeat

\* read_activity does not report a loop as active that has hung for too long.
HungBeatsAreNoticed == B!HungBeatsAreNoticed

\* What read_activity once reported of a Beat stays counted.
AnswersNeverGoBack == B!AnswersNeverGoBack
=============================================================================
