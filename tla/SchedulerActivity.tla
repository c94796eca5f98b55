-------------------------- MODULE SchedulerActivity --------------------------
(***************************************************************************)
(* The activity file of Celery Beat and the probe that reads it.           *)
(*                                                                         *)
(* ObservedScheduler writes, at most once per WriteInterval and only after *)
(* a tick returned, a snapshot that names its process and the boot; the    *)
(* file survives the process.  read_activity reads the file, compares its  *)
(* age and boot, then looks the process up in /proc: three steps between   *)
(* which Beat may tick, stop, die or be replaced.  CLOCK_BOOTTIME counts   *)
(* suspended time and starts again with every boot, as do process start    *)
(* times; CLOCK_MONOTONIC stands still while the machine is suspended.     *)
(***************************************************************************)
EXTENDS Integers

CONSTANTS
    Pids,           \* process numbers of the PID namespace, used again and again
    None,           \* no file, no sample, no answer
    MaxAge,         \* --max-age
    WriteInterval,  \* WRITE_INTERVAL_SECONDS
    MaxTime, MaxBoots, MaxStarts, MaxCount, MaxPublish  \* bounds

VARIABLES
    time,       \* real time
    boot,       \* boot_id, and when the machine booted
    starts,     \* start time of the last process of this boot
    process,    \* /proc: state, start time and whether it is Beat
    loop,       \* Beat's memory
    file,       \* <schedule>.activity.json
    reader,     \* the probe: where it is, and what it has read
    answer      \* its last answer

vars == <<time, boot, starts, process, loop, file, reader, answer>>
world == <<time, boot, starts>>

Lives == {"free", "S", "T", "Z"}
Snapshots ==
    [pid : Pids, start : 1..MaxStarts, boot : 1..MaxBoots, tick : 0..MaxTime,
     count : 1..MaxCount, returns : 0..MaxPublish, errors : 0..MaxPublish]

\* Beyond this a silent loop is simply silent.
Longest == MaxAge + 2

Beats == {p \in Pids : process[p].beat /\ process[p].life \in {"S", "T"}}

TypeOK ==
    /\ time \in 0..MaxTime
    /\ boot \in [id : 1..MaxBoots, at : 0..MaxTime]
    /\ starts \in 0..MaxStarts
    /\ process \in [Pids -> [life : Lives, start : 0..MaxStarts, beat : BOOLEAN]]
    /\ loop \in [pc : {"loop", "returned", "sampled"}, count : 0..MaxCount,
                 returns : 0..MaxPublish, errors : 0..MaxPublish,
                 since : 0..WriteInterval, quiet : 0..Longest, sample : 0..MaxTime]
    /\ file \in Snapshots \union {None}
    /\ reader \in [pc : {"idle", "read", "aged", "accepted"}, snapshot : Snapshots \union {None},
                   at : 0..MaxTime]
    /\ answer \in Snapshots \union {None}
    /\ \A p, q \in Beats : p = q

Free == [life |-> "free", start |-> 0, beat |-> FALSE]
Fresh ==
    [pc |-> "loop", count |-> 0, returns |-> 0, errors |-> 0,
     since |-> WriteInterval, quiet |-> 0, sample |-> 0]
Idle == [pc |-> "idle", snapshot |-> None, at |-> 0]

Init ==
    /\ time = 0
    /\ boot = [id |-> 1, at |-> 0]
    /\ starts = 0
    /\ process = [p \in Pids |-> Free]
    /\ loop = Fresh
    /\ file = None
    /\ reader = Idle
    /\ answer = None

-----------------------------------------------------------------------------
boottime == time - boot.at
Running(p) == p \in Beats /\ process[p].life = "S"

(* The processes of the container. *)

Start(p, beat) ==
    /\ process[p].life = "free" /\ starts < MaxStarts
    /\ beat => Beats = {}
    /\ starts' = starts + 1
    /\ process' = [process EXCEPT ![p] = [life |-> "S", start |-> starts + 1, beat |-> beat]]
    /\ loop' = IF beat THEN Fresh ELSE loop
    /\ UNCHANGED <<time, boot, file, reader, answer>>

Exit(p) ==
    /\ process[p].life \in {"S", "T"}
    /\ process' = [process EXCEPT ![p].life = "Z"]
    /\ loop' = IF process[p].beat THEN Fresh ELSE loop
    /\ UNCHANGED <<world, file, reader, answer>>

Reap(p) ==
    /\ process[p].life = "Z"
    /\ process' = [process EXCEPT ![p] = Free]
    /\ UNCHANGED <<world, loop, file, reader, answer>>

\* SIGSTOP and SIGCONT.
Pause(p) ==
    /\ p \in Beats
    /\ process' = [process EXCEPT ![p].life = IF @ = "S" THEN "T" ELSE "S"]
    /\ UNCHANGED <<world, loop, file, reader, answer>>

\* Nothing was forced to disk: the file may be gone or torn afterwards.
Reboot ==
    /\ boot.id < MaxBoots
    /\ boot' = [id |-> boot.id + 1, at |-> time]
    /\ starts' = 0
    /\ process' = [p \in Pids |-> Free]
    /\ loop' = Fresh
    /\ file' \in {file, None}
    /\ reader' = Idle
    /\ UNCHANGED <<time, answer>>

\* Time passes, on the monotonic clock only while the machine is awake.
Advance(monotonic) ==
    /\ time < MaxTime
    /\ time' = time + 1
    /\ loop' = [loop EXCEPT
          !.since = IF monotonic /\ @ < WriteInterval THEN @ + 1 ELSE @,
          !.quiet = IF @ < Longest /\ Beats # {} THEN @ + 1 ELSE @]
    /\ UNCHANGED <<boot, starts, process, file, reader, answer>>

-----------------------------------------------------------------------------
(* ObservedScheduler. *)

\* The scheduler sends a due task, or fails to.
ApplyAsync(p) ==
    /\ Running(p) /\ loop.pc = "loop"
    /\ loop.returns + loop.errors < MaxPublish
    /\ \/ loop' = [loop EXCEPT !.returns = @ + 1]
       \/ loop' = [loop EXCEPT !.errors = @ + 1]
    /\ UNCHANGED <<world, process, file, reader, answer>>

\* PersistentScheduler.tick returns and is counted.
TickReturns(p) ==
    /\ Running(p) /\ loop.pc = "loop" /\ loop.count < MaxCount
    /\ loop' = [loop EXCEPT !.pc = "returned", !.count = @ + 1, !.quiet = 0]
    /\ UNCHANGED <<world, process, file, reader, answer>>

\* The attempt is recorded before it is made: failed ones count too.
Sample(p) ==
    /\ Running(p) /\ loop.pc = "returned"
    /\ loop' = IF loop.since < WriteInterval
               THEN [loop EXCEPT !.pc = "loop"]
               ELSE [loop EXCEPT !.pc = "sampled", !.since = 0, !.quiet = 0, !.sample = boottime]
    /\ UNCHANGED <<world, process, file, reader, answer>>

\* A faulty variant: the process start time is not recorded.
Snapshot_Unidentified(p) ==
    [pid |-> p, start |-> None, boot |-> boot.id, tick |-> loop.sample,
     count |-> loop.count, returns |-> loop.returns, errors |-> loop.errors]

\* A faulty variant: the age of the file is taken for the age of the tick.
Snapshot_FileTime(p) ==
    [pid |-> p, start |-> process[p].start, boot |-> boot.id, tick |-> boottime,
     count |-> loop.count, returns |-> loop.returns, errors |-> loop.errors]

\* What Beat knows of itself.
Snapshot(p) ==
    [pid |-> p, start |-> process[p].start, boot |-> boot.id, tick |-> loop.sample,
     count |-> loop.count, returns |-> loop.returns, errors |-> loop.errors]

\* A faulty variant: the counters start again with every snapshot.
Write_Deltas(p) ==
    /\ Running(p) /\ loop.pc = "sampled"
    /\ \/ file' = Snapshot(p)
       \/ UNCHANGED file
    /\ loop' = [loop EXCEPT !.pc = "loop", !.sample = 0, !.returns = 0, !.errors = 0]
    /\ UNCHANGED <<world, process, reader, answer>>

\* atomic_write: os.replace, or an exception that is only logged.
Write(p) ==
    /\ Running(p) /\ loop.pc = "sampled"
    /\ \/ file' = Snapshot(p)
       \/ UNCHANGED file
    /\ loop' = [loop EXCEPT !.pc = "loop", !.sample = 0]
    /\ UNCHANGED <<world, process, reader, answer>>

-----------------------------------------------------------------------------
(* read_activity. *)

Refuse == reader' = Idle

\* The file is opened once: a later os.replace does not reach the reader.
Read ==
    /\ reader.pc = "idle"
    /\ file # None
    /\ reader' = [reader EXCEPT !.pc = "read", !.snapshot = file]
    /\ UNCHANGED <<world, process, loop, file, answer>>

\* A faulty variant: the boot is not compared.
FreshEnough_AnyBoot(s) == boottime - s.tick \in 0..MaxAge

FreshEnough(s) == boottime - s.tick \in 0..MaxAge /\ s.boot = boot.id

CheckAge ==
    /\ reader.pc = "read"
    /\ \/ /\ FreshEnough(reader.snapshot)
          /\ reader' = [reader EXCEPT !.pc = "aged", !.at = time]
       \/ ~FreshEnough(reader.snapshot) /\ Refuse
    /\ UNCHANGED <<world, process, loop, file, answer>>

\* A faulty variant: any process with that number will do.
Active_AnyStart(s) == process[s.pid].life = "S"

Active(s) == process[s.pid].life = "S" /\ process[s.pid].start = s.start

CheckProcess ==
    /\ reader.pc = "aged"
    /\ \/ Active(reader.snapshot) /\ reader' = [reader EXCEPT !.pc = "accepted"]
       \/ ~Active(reader.snapshot) /\ Refuse
    /\ UNCHANGED <<world, process, loop, file, answer>>

\* The command prints the snapshot and ends.
Answer ==
    /\ reader.pc = "accepted"
    /\ answer' = reader.snapshot
    /\ reader' = Idle
    /\ UNCHANGED <<world, process, loop, file>>

-----------------------------------------------------------------------------
Next ==
    \/ \E p \in Pids :
          \/ \E beat \in BOOLEAN : Start(p, beat)
          \/ Exit(p) \/ Reap(p) \/ Pause(p)
          \/ ApplyAsync(p) \/ TickReturns(p) \/ Sample(p) \/ Write(p)
    \/ Reboot
    \/ \E monotonic \in BOOLEAN : Advance(monotonic)
    \/ Read \/ CheckAge \/ CheckProcess \/ Answer

Spec == Init /\ [][Next]_vars

-----------------------------------------------------------------------------
(* Properties.                                                             *)

Accepts == reader.pc = "aged" /\ reader'.pc = "accepted"

\* Whatever happened to the file's author since, the snapshot accepted is
\* about the Beat that runs now, and its counters are not ahead of Beat's own:
\* a file left by an earlier boot, or a process number that has a new owner,
\* is never believed.
AnswersAreAboutTheRunningBeat ==
    [][Accepts =>
          LET s == reader.snapshot IN
          /\ Running(s.pid) /\ s.boot = boot.id
          /\ s.count <= loop.count
          /\ s.returns <= loop.returns /\ s.errors <= loop.errors]_vars

\* A loop that hangs, or sleeps with the machine, for longer than MaxAge is
\* not reported as active, even if its last write was itself late.
HungBeatsAreNoticed ==
    [][Accepts => loop.quiet <= MaxAge + (time - reader.at)]_vars

\* Two answers about the same Beat never contradict each other: what was
\* counted stays counted, although writes fail and readers overlap writers.
AnswersNeverGoBack ==
    [][reader.pc = "accepted" /\ answer' # answer /\ answer # None =>
          LET s == reader.snapshot IN
          (s.boot = answer.boot /\ s.start = answer.start) =>
             /\ answer.count < s.count
             /\ answer.returns <= s.returns /\ answer.errors <= s.errors]_vars
=============================================================================
