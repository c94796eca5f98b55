--------------------------- MODULE HealthChecksProofs ---------------------------
(***************************************************************************)
(* Proofs about the two health commands, for any workers, tasks, process   *)
(* numbers and times.                                                      *)
(*                                                                         *)
(* The worker's command.  The observer notes the facts of every state of   *)
(* the probe, so what a worker replies is among them.  A worker that stays *)
(* up keeps its tasks: if the second reply shows them, they were there at  *)
(* the first.                                                              *)
(*                                                                         *)
(* The scheduler's command.  Start times are not used twice in one boot,   *)
(* so a process that has the number and start time of a snapshot is its    *)
(* author; the author's counters only grow, and its loop has been quiet    *)
(* for no longer than since the tick of any of its snapshots.              *)
(*                                                                         *)
(* A container runs one of the two, so all of this holds of containers.    *)
(***************************************************************************)
EXTENDS HealthChecks, FiniteSetTheorems, TLAPS

-----------------------------------------------------------------------------
(* The worker's command.                                                   *)

Probe == [step : Steps, age : 0..Budget, waited : 0..Window, open : SUBSET Workers,
          replies : SUBSET [from : Workers,
                            payload : (SUBSET {Queue, OtherQueue}) \union (SUBSET Tasks)]]

\* A query is open to workers that are up, and replies are about this query.
QueriesAreCurrent ==
    /\ probe.open \subseteq Up
    /\ probe.step \in {"idle", "connect_queues", "connect_tasks"} =>
          probe.open = {} /\ probe.replies = {}
    /\ probe.step = "ask_tasks" => \A r \in probe.replies : r.payload \in SUBSET Tasks

\* The observer has noted the facts of this state.
Noted ==
    probe.step # "idle" => \A w \in Workers :
        /\ FactsOf(worker[w]) \subseteq held
        /\ FactsOf(worker[w]) = {"queue", "tasks"} => together

HeardQueue ==
    \/ probe.step \in {"connect_tasks", "ask_tasks"}
    \/ probe.step = "ask_queues" /\ \E r \in probe.replies : r.payload = {Queue}

HeardTasks == probe.step = "ask_tasks" /\ \E r \in probe.replies : r.payload = Tasks

RepliesWereTrue ==
    /\ HeardQueue => "queue" \in held
    /\ HeardTasks => "tasks" \in held

\* One worker was up all the time: the one whose replies were heard.
OneWorker ==
    probe.step # "idle" /\ steady =>
        /\ \E w \in Workers : Up = {w}
        /\ HeardQueue => \A w \in Up : worker[w].tasks = Tasks => together
        /\ HeardTasks => \A w \in Up : worker[w].tasks = Tasks

Safe == QueriesAreCurrent /\ Noted /\ RepliesWereTrue /\ OneWorker

IInv == TypeOK /\ probe \in Probe /\ Safe

LEMMA IdleTyped == Idle \in Probe
<1>1. 0 \in 0..Budget /\ 0 \in 0..Window
    BY BudgetAssumption
<1> QED  BY <1>1 DEF Idle, Probe, Steps

LEMMA InitInv == Init => IInv
<1> SUFFICES ASSUME Init PROVE IInv
    OBVIOUS
<1>1. Idle \in Probe
    BY IdleTyped
<1>2. TypeOK /\ probe \in Probe
    BY <1>1 DEF Init, TypeOK, Probe
<1> QED  BY <1>2
    DEF Init, IInv, Safe, QueriesAreCurrent, Noted, RepliesWereTrue, OneWorker, Idle,
        HeardQueue, HeardTasks

\* What the observer knows after a step.
Watched ==
    /\ \A w \in Workers :
          /\ FactsOf(worker'[w]) \subseteq held'
          /\ FactsOf(worker'[w]) = {"queue", "tasks"} => together'
    /\ held' \subseteq {"queue", "tasks"} /\ together' \in BOOLEAN /\ steady' \in BOOLEAN
    /\ probe.step # "idle" => held \subseteq held' /\ (together => together')
    /\ steady' => (\E w \in Workers : Up = {w}) /\ Up' = Up
    /\ steady' /\ probe.step # "idle" => steady

LEMMA WatchEffect == ASSUME IInv, Watch PROVE Watched
<1> DEFINE facts == UNION {FactsOf(worker'[w]) : w \in Workers}
           both == \E w \in Workers : FactsOf(worker'[w]) = {"queue", "tasks"}
           began == probe.step = "idle" /\ probe'.step # "idle"
<1>1. /\ held' = IF began THEN facts ELSE held \union facts
      /\ together' = (both \/ (~began /\ together))
      /\ steady' = (Cardinality(Up) = 1 /\ Up' = Up /\ (began \/ steady))
    BY DEF Watch
<1>2. \A w \in Workers : FactsOf(worker'[w]) \subseteq facts
    OBVIOUS
<1>3. facts \subseteq {"queue", "tasks"}
    BY DEF FactsOf
<1>4. held \subseteq {"queue", "tasks"}
    BY DEF IInv, TypeOK
<1>5. Cardinality(Up) = 1 => \E w \in Workers : Up = {w}
    <2>1. Up \in SUBSET Workers
        BY DEF Up
    <2>2. IsFiniteSet(Up)
        BY <2>1, WorkerAssumption, FS_Subset
    <2>3. Cardinality(Up) = 1 => \E w : Up = {w}
        BY <2>2, FS_Singleton
    <2> QED  BY <2>1, <2>3
<1> HIDE DEF facts
<1> QED  BY <1>1, <1>2, <1>3, <1>4, <1>5 DEF Watched

\* A good reply is one of those that came.
LEMMA GoodReply ==
    ASSUME IInv, Good
    PROVE  \E r \in probe.replies :
              IF probe.step = "ask_queues" THEN r.payload = {Queue} ELSE Tasks \subseteq r.payload
<1>1. probe.replies # {}
    BY FS_EmptySet DEF Good, Sole
<1>2. (CHOOSE r \in probe.replies : TRUE) \in probe.replies
    BY <1>1
<1> QED  BY <1>2 DEF Good, Payload, RightQueues, AllTasks

-----------------------------------------------------------------------------
(* What a step does to the workers and to the probe.                       *)

WorkerType == [queues : SUBSET {Queue, OtherQueue}, tasks : SUBSET Tasks]

LEMMA UpIsTyped ==
    ASSUME IInv, NEW w \in Workers
    PROVE  w \in Up => worker[w] \in WorkerType /\ worker[w] # None
BY DEF IInv, TypeOK, Up, WorkerType

WorkerStep ==
    \E w \in Workers :
        \/ StartWorker(w) \/ StopWorker(w)
        \/ \E q \in {Queue, OtherQueue} : Control(w, q)

\* Types, queries and what was heard, after a step.
Progress ==
    /\ worker' \in [Workers -> WorkerType \union {None}]
    /\ probe' \in Probe /\ verdict' \in {None, "ready", "not_ready"}
    /\ QueriesAreCurrent'
    /\ \A w \in Up \intersect Up' : worker'[w].tasks = worker[w].tasks
    /\ HeardQueue' => probe.step # "idle" /\
          (HeardQueue \/ (worker' = worker /\ \E w \in Up : worker[w].queues = {Queue}))
    /\ HeardTasks' => probe.step # "idle" /\
          (HeardTasks \/ (worker' = worker /\ \E w \in Up : worker[w].tasks = Tasks))

LEMMA WorkerProgress == ASSUME IInv, WorkerStep PROVE Progress
<1>1. PICK w \in Workers :
        \/ StartWorker(w) \/ StopWorker(w)
        \/ \E q \in {Queue, OtherQueue} : Control(w, q)
    BY DEF WorkerStep
<1>2. \A t \in Tasks : {t} \in SUBSET Tasks
    OBVIOUS
<1>3. (CHOOSE t \in Tasks : TRUE) \in Tasks
    BY QueueAssumption
<1>4. worker' \in [Workers -> WorkerType \union {None}]
    <2>1. CASE StartWorker(w)
        <3>1. PICK tasks \in SUBSET Tasks :
                worker' = [worker EXCEPT ![w] = [queues |-> {Queue}, tasks |-> tasks]]
            BY <1>3, <2>1 DEF StartWorker
        <3>2. [queues |-> {Queue}, tasks |-> tasks] \in WorkerType
            BY DEF WorkerType
        <3> QED  BY <3>1, <3>2 DEF IInv, TypeOK, WorkerType
    <2>2. CASE StopWorker(w)
        BY <2>2 DEF IInv, TypeOK, WorkerType, StopWorker
    <2>3. ASSUME NEW q \in {Queue, OtherQueue}, Control(w, q)
          PROVE  worker' \in [Workers -> WorkerType \union {None}]
        <3>1. worker[w] \in WorkerType
            BY <2>3 DEF IInv, TypeOK, WorkerType, Control
        <3>2. [worker[w] EXCEPT !.queues = (@ \ {q}) \union ({q} \ @)] \in WorkerType
            BY <3>1 DEF WorkerType
        <3> QED  BY <2>3, <3>2 DEF IInv, TypeOK, WorkerType, Control
    <2> QED  BY <1>1, <2>1, <2>2, <2>3
<1>5. /\ probe' \in Probe /\ verdict' = verdict
      /\ probe'.step = probe.step /\ probe'.replies = probe.replies
      /\ probe'.open \subseteq probe.open
      /\ StopWorker(w) => probe'.open \subseteq probe.open \ {w}
    BY <1>1 DEF IInv, Probe, StartWorker, StopWorker, Control
<1>6. \A v \in Workers : v # w => worker'[v] = worker[v]
    BY <1>1 DEF IInv, TypeOK, StartWorker, StopWorker, Control
<1>7. w \in Up /\ ~StopWorker(w) => worker'[w] \in WorkerType /\ worker'[w].tasks = worker[w].tasks
    <2>1. w \in Up => worker[w] \in WorkerType /\ ~StartWorker(w)
        BY UpIsTyped DEF Up, StartWorker
    <2>2. ASSUME NEW q \in {Queue, OtherQueue}, Control(w, q), w \in Up
          PROVE  worker'[w] \in WorkerType /\ worker'[w].tasks = worker[w].tasks
        BY <2>1, <2>2 DEF IInv, TypeOK, WorkerType, Control
    <2> QED  BY <1>1, <2>1, <2>2
<1>8. QueriesAreCurrent'
    <2>1. WorkerAssumption!2
        BY WorkerAssumption
    <2>2. probe'.open \subseteq Up'
        BY <1>4, <1>5, <1>6, <1>7, <2>1 DEF IInv, Safe, QueriesAreCurrent, Up, WorkerType
    <2> QED  BY <1>5, <2>2 DEF IInv, Safe, QueriesAreCurrent
<1>9. \A v \in Up \intersect Up' : worker'[v].tasks = worker[v].tasks
    <2>1. StopWorker(w) => w \notin Up'
        BY DEF IInv, TypeOK, Up, StopWorker
    <2> QED  BY <1>6, <1>7, <2>1 DEF Up
<1>10. (HeardQueue' <=> HeardQueue) /\ (HeardTasks' <=> HeardTasks)
    BY <1>5 DEF HeardQueue, HeardTasks
<1> QED  BY <1>4, <1>5, <1>8, <1>9, <1>10 DEF IInv, TypeOK, Progress, HeardQueue, HeardTasks

LEMMA ReplyProgress == ASSUME IInv, NEW w \in Workers, Reply(w) PROVE Progress
<1>1. w \in Up /\ worker[w] \in WorkerType /\ probe \in Probe
    BY UpIsTyped DEF IInv, Safe, QueriesAreCurrent, Reply
<1> DEFINE payload == IF probe.step = "ask_queues" THEN worker[w].queues ELSE worker[w].tasks
<1>2. /\ probe' = [probe EXCEPT !.open = @ \ {w},
                       !.replies = @ \union {[from |-> w, payload |-> payload]}]
      /\ UNCHANGED <<worker, verdict>>
    BY DEF Reply
<1>3. [from |-> w, payload |-> payload] \in
        [from : Workers, payload : (SUBSET {Queue, OtherQueue}) \union (SUBSET Tasks)]
    <2>1. worker[w].queues \in SUBSET {Queue, OtherQueue} /\ worker[w].tasks \in SUBSET Tasks
        BY <1>1 DEF WorkerType
    <2>2. payload \in (SUBSET {Queue, OtherQueue}) \union (SUBSET Tasks)
        BY <2>1
    <2> QED  BY <2>2
<1>4. /\ probe' \in Probe /\ probe'.step = probe.step /\ probe'.open \subseteq probe.open
      /\ probe'.replies = probe.replies \union {[from |-> w, payload |-> payload]}
    BY <1>1, <1>2, <1>3 DEF Probe
<1>5. probe.step \in {"ask_queues", "ask_tasks"}
    BY <1>1 DEF IInv, Safe, QueriesAreCurrent, Probe, Steps, Reply
<1>6. QueriesAreCurrent'
    BY <1>1, <1>2, <1>4, <1>5 DEF IInv, Safe, QueriesAreCurrent, Up, WorkerType
<1>7. \A r \in probe'.replies : r \in probe.replies \/ r.payload = payload
    BY <1>4
<1>8. HeardQueue' => HeardQueue \/ \E v \in Up : worker[v].queues = {Queue}
    BY <1>1, <1>4, <1>5, <1>7 DEF HeardQueue
<1>9. HeardTasks' => HeardTasks \/ \E v \in Up : worker[v].tasks = Tasks
    BY <1>1, <1>4, <1>5, <1>7 DEF HeardTasks
<1> QED  BY <1>2, <1>4, <1>5, <1>6, <1>8, <1>9 DEF IInv, TypeOK, WorkerType, Progress

LEMMA StepProgress == ASSUME IInv, Step \/ Advance PROVE Progress
<1>1. worker' = worker /\ Up' = Up
    BY DEF Step, Begin, Broadcast, Return, Kill, Advance, Up
<1>2. Up \subseteq Workers /\ Idle \in Probe /\ probe \in Probe
    BY IdleTyped DEF IInv, Up
<1>3. \/ probe' = Idle
      \/ Begin /\ probe' = [Idle EXCEPT !.step = "connect_queues"]
      \/ probe.step = "connect_queues" /\ probe' = [probe EXCEPT !.step = "ask_queues", !.open = Up]
      \/ probe.step = "connect_tasks" /\ probe' = [probe EXCEPT !.step = "ask_tasks", !.open = Up]
      \/ /\ Good /\ probe.step = "ask_queues"
         /\ probe' = [probe EXCEPT !.step = "connect_tasks", !.waited = 0,
                         !.open = {}, !.replies = {}]
      \/ Advance
    BY DEF Step, Begin, Broadcast, Return, Kill, Exit
<1>4. verdict' \in {None, "ready", "not_ready"}
    BY DEF IInv, TypeOK, Step, Begin, Broadcast, Return, Kill, Advance, Exit
<1> DEFINE Fine == /\ probe' \in Probe /\ QueriesAreCurrent'
                   /\ HeardQueue' => HeardQueue
                   /\ HeardTasks' => HeardTasks
<1>5. ASSUME probe' = Idle
      PROVE  Fine
    BY <1>2, <1>5 DEF Idle, QueriesAreCurrent, HeardQueue, HeardTasks
<1>6. ASSUME probe' = [Idle EXCEPT !.step = "connect_queues"]
      PROVE  Fine
    <2>1. probe'.step = "connect_queues" /\ probe'.open = {} /\ probe'.replies = {}
        BY <1>6 DEF Idle
    <2>2. probe' \in Probe
        BY <1>2, <1>6 DEF Probe, Steps
    <2> QED  BY <2>1, <2>2 DEF QueriesAreCurrent, HeardQueue, HeardTasks
<1>7. ASSUME NEW ask \in {"ask_queues", "ask_tasks"},
             probe.step = IF ask = "ask_queues" THEN "connect_queues" ELSE "connect_tasks",
             probe' = [probe EXCEPT !.step = ask, !.open = Up]
      PROVE  Fine
    <2>1. probe' \in Probe /\ probe'.step = ask /\ probe'.open = Up /\ probe'.replies = probe.replies
        BY <1>2, <1>7 DEF Probe, Steps
    <2>2. probe.replies = {}
        BY <1>7 DEF IInv, Safe, QueriesAreCurrent
    <2> QED  BY <1>1, <1>7, <2>1, <2>2 DEF QueriesAreCurrent, HeardQueue, HeardTasks
<1>8. ASSUME Good, probe.step = "ask_queues",
             probe' = [probe EXCEPT !.step = "connect_tasks", !.waited = 0,
                          !.open = {}, !.replies = {}]
      PROVE  Fine
    <2>1. 0 \in 0..Window
        BY BudgetAssumption
    <2>2. /\ probe' \in Probe /\ probe'.step = "connect_tasks"
          /\ probe'.open = {} /\ probe'.replies = {}
        BY <1>2, <1>8, <2>1 DEF Probe, Steps
    <2>3. HeardQueue
        BY <1>8, GoodReply DEF HeardQueue
    <2> QED  BY <2>2, <2>3 DEF QueriesAreCurrent, HeardTasks
<1>9. ASSUME Advance
      PROVE  Fine
    <2>1. probe.age + 1 \in 0..Budget /\ (Asking => probe.waited + 1 \in 0..Window)
        BY <1>2, <1>9, BudgetAssumption DEF Advance, Probe
    <2>2. /\ probe' \in Probe /\ probe'.step = probe.step
          /\ probe'.open = probe.open /\ probe'.replies = probe.replies
        BY <1>2, <1>9, <2>1 DEF Advance, Probe
    <2> QED  BY <1>1, <2>2 DEF IInv, Safe, QueriesAreCurrent, HeardQueue, HeardTasks
<1>10. Fine
    BY <1>3, <1>5, <1>6, <1>7, <1>8, <1>9
<1>11. probe.step = "idle" => ~HeardQueue /\ ~HeardTasks
    BY DEF HeardQueue, HeardTasks
<1> QED  BY <1>1, <1>4, <1>10, <1>11 DEF IInv, TypeOK, WorkerType, Progress

-----------------------------------------------------------------------------
LEMMA NextInv == ASSUME IInv, Progress, Watched PROVE IInv'
<1>1. TypeOK'
    BY DEF Progress, Watched, TypeOK, Probe, WorkerType
<1>2. Noted'
    BY DEF Watched, Noted
<1>3. \A w \in Up : w \in Workers /\ worker[w] # None /\ worker[w] \in WorkerType
    BY UpIsTyped DEF Up
<1>4. \A w \in Up : (worker[w].queues = {Queue} => "queue" \in FactsOf(worker[w]))
                 /\ (worker[w].tasks = Tasks => "tasks" \in FactsOf(worker[w]))
    BY <1>3 DEF FactsOf
<1>5. RepliesWereTrue'
    BY <1>3, <1>4 DEF IInv, Safe, RepliesWereTrue, Progress, Watched
<1>6. OneWorker'
    <2> SUFFICES ASSUME probe'.step # "idle", steady'
                 PROVE  /\ \E w \in Workers : Up' = {w}
                        /\ HeardQueue' => \A w \in Up' : worker'[w].tasks = Tasks => together'
                        /\ HeardTasks' => \A w \in Up' : worker'[w].tasks = Tasks
        BY DEF OneWorker
    <2>1. PICK w \in Workers : Up = {w} /\ Up' = {w}
        BY DEF Watched
    <2>2. worker'[w].tasks = worker[w].tasks
        BY <2>1 DEF Progress
    <2>3. probe.step # "idle" => steady /\ (together => together')
        BY DEF Watched
    <2>4. ASSUME HeardQueue', worker[w].tasks = Tasks
          PROVE  together'
        <3>1. CASE HeardQueue
            BY <2>1, <2>3, <2>4, <3>1 DEF IInv, Safe, OneWorker, Progress
        <3>2. CASE ~HeardQueue
            <4>1. worker'[w] = worker[w] /\ worker[w].queues = {Queue}
                BY <2>1, <2>4, <3>2 DEF Progress
            <4>2. FactsOf(worker'[w]) = {"queue", "tasks"}
                BY <1>3, <2>1, <2>4, <4>1 DEF FactsOf
            <4> QED  BY <4>2 DEF Watched
        <3> QED  BY <3>1, <3>2
    <2>5. ASSUME HeardTasks'
          PROVE  worker[w].tasks = Tasks
        BY <2>1, <2>3, <2>5 DEF IInv, Safe, OneWorker, Progress
    <2> QED  BY <2>1, <2>2, <2>4, <2>5
<1> QED  BY <1>1, <1>2, <1>5, <1>6 DEF IInv, Safe, Progress

LEMMA StepInv == IInv /\ [Next]_vars => IInv'
<1> SUFFICES ASSUME IInv, [Next]_vars
             PROVE  IInv'
    OBVIOUS
<1>1. CASE UNCHANGED vars
    BY <1>1
    DEF IInv, TypeOK, Safe, QueriesAreCurrent, Noted, RepliesWereTrue, OneWorker, HeardQueue,
        HeardTasks, Up, vars
<1>2. CASE Next
    <2>1. Watched
        BY <1>2, WatchEffect DEF Next
    <2>2. Progress
        BY <1>2, WorkerProgress, ReplyProgress, StepProgress DEF Next, WorkerStep
    <2> QED  BY <2>1, <2>2, NextInv
<1> QED  BY <1>1, <1>2

LEMMA Invariant == Spec => []IInv
BY InitInv, StepInv, PTL DEF Spec

-----------------------------------------------------------------------------
\* Workers, the probe and the observer keep their types.
THEOREM Types == Spec => []TypeOK
<1>1. IInv => TypeOK
    BY DEF IInv
<1> QED  BY <1>1, Invariant, PTL

\* A probe that succeeds has heard both facts.
LEMMA AcceptedHeard ==
    ASSUME IInv, [Next]_vars, Accepted
    PROVE  HeardQueue /\ HeardTasks
<1>1. Return
    BY DEF Accepted, IInv, Probe, Next, vars, StartWorker, StopWorker, Control, Reply, Step, Begin,
           Broadcast, Kill, Advance, Exit
<1>2. Good
    BY <1>1 DEF Accepted, Return, Exit
<1>3. PICK r \in probe.replies : Tasks \subseteq r.payload
    BY <1>2, GoodReply DEF Accepted
<1>4. r.payload \in SUBSET Tasks
    BY DEF Accepted, IInv, Safe, QueriesAreCurrent
<1>5. r.payload = Tasks
    BY <1>3, <1>4
<1> QED  BY <1>5 DEF Accepted, HeardQueue, HeardTasks

\* Of a node found ready each fact was true during that probe.
THEOREM NothingFromMemory == Spec => ReadyWasTrue
<1>1. ASSUME IInv, [Next]_vars, Accepted
      PROVE  held = {"queue", "tasks"}
    BY <1>1, AcceptedHeard DEF IInv, TypeOK, Safe, RepliesWereTrue
<1>2. IInv /\ [Next]_vars => [Accepted => held = {"queue", "tasks"}]_vars
    BY <1>1
<1> QED  BY <1>2, Invariant, PTL DEF Spec, ReadyWasTrue

\* Of a worker that was up all the time both facts were true at once.
THEOREM AtOnce == Spec => ReadyWasTrueAtOnce
<1>1. ASSUME IInv, [Next]_vars, Accepted, steady
      PROVE  together
    <2>1. HeardQueue /\ HeardTasks /\ probe.step # "idle"
        BY <1>1, AcceptedHeard DEF Accepted
    <2> QED  BY <1>1, <2>1 DEF IInv, Safe, OneWorker
<1>2. IInv /\ [Next]_vars => [Accepted /\ steady => together]_vars
    BY <1>1
<1> QED  BY <1>2, Invariant, PTL DEF Spec, ReadyWasTrueAtOnce

-----------------------------------------------------------------------------
(* The scheduler's command: the process table and Beat's loop.             *)

Loops ==
    [pc : {"loop", "returned", "sampled"}, count : 0..MaxCount, returns : 0..MaxPublish,
     errors : 0..MaxPublish, since : 0..WriteInterval, quiet : 0..B!Longest, sample : 0..MaxTime]

MachineTypes ==
    /\ time \in 0..MaxTime
    /\ boot \in [id : 1..MaxBoots, at : 0..MaxTime]
    /\ starts \in 0..MaxStarts
    /\ process \in [Pids -> [life : B!Lives, start : 0..MaxStarts, beat : BOOLEAN]]
    /\ loop \in Loops

Present(p) == process[p].life # "free"

\* Start times of one boot tell processes apart, and Beat runs once.
StartsAreUnique ==
    /\ \A p \in Pids : Present(p) => process[p].start \in 1..starts
    /\ \A p, q \in Pids : Present(p) /\ Present(q) /\ process[p].start = process[q].start => p = q
    /\ \A p, q \in B!Beats : p = q

\* Between a sample and its write the loop has ticked, and has been quiet for
\* no longer than since the sample.
SamplesAreRecent ==
    /\ boot.at <= time
    /\ loop.pc # "loop" => loop.count > 0
    /\ loop.pc = "sampled" => boot.at + loop.sample + loop.quiet <= time

Machine == MachineTypes /\ StartsAreUnique /\ SamplesAreRecent

-----------------------------------------------------------------------------
(* What is known of every snapshot that was ever written.                  *)

\* Process p is the one that wrote s, if anybody is.
Wrote(p, s) == Present(p) /\ s.boot = boot.id /\ s.start = process[p].start

\* Beat has counted what s says and, once its next tick returned, more.
NotAhead(s) ==
    /\ s.count <= loop.count /\ s.returns <= loop.returns /\ s.errors <= loop.errors
    /\ loop.pc # "loop" => s.count < loop.count
    /\ boot.at + s.tick + loop.quiet <= time

Known(s) ==
    /\ s \in B!Snapshots
    /\ s.boot <= boot.id
    /\ s.boot = boot.id => s.start <= starts /\ boot.at + s.tick <= time
    /\ \A p \in Pids : Wrote(p, s) =>
          /\ p = s.pid /\ process[p].beat
          /\ p \in B!Beats => NotAhead(s)

\* Two snapshots of one Beat, the second not older than the first.
InOrder(s, t) ==
    s.boot = t.boot /\ s.start = t.start =>
        \/ s = t
        \/ s.count < t.count /\ s.returns <= t.returns /\ s.errors <= t.errors

RecordTypes ==
    /\ file \in B!Snapshots \union {None}
    /\ reader \in [pc : {"idle", "read", "aged", "accepted"},
                   snapshot : B!Snapshots \union {None}, at : 0..MaxTime]
    /\ answer \in B!Snapshots \union {None}

RecordsAreKnown ==
    /\ file # None => Known(file)
    /\ reader.pc # "idle" => Known(reader.snapshot)
    /\ answer # None => Known(answer)

\* Answers precede the snapshot being read, and that the file.
RecordsAreInOrder ==
    /\ file # None /\ reader.pc # "idle" => InOrder(reader.snapshot, file)
    /\ file # None /\ answer # None => InOrder(answer, file)
    /\ reader.pc # "idle" /\ answer # None => InOrder(answer, reader.snapshot)

\* What the reader has checked is still so.
ChecksHold ==
    /\ reader.pc \in {"aged", "accepted"} => reader.snapshot.boot = boot.id
    /\ reader.pc = "aged" =>
          reader.at <= time /\ reader.at <= boot.at + reader.snapshot.tick + MaxAge

BInv == Machine /\ RecordTypes /\ RecordsAreKnown /\ RecordsAreInOrder /\ ChecksHold

LEMMA Bounds ==
    /\ MaxAge \in Nat /\ WriteInterval \in Nat /\ MaxTime \in Nat /\ MaxPublish \in Nat
    /\ MaxBoots \in Nat \ {0} /\ MaxStarts \in Nat /\ MaxCount \in Nat
    /\ B!Longest \in Nat
BY BeatAssumption DEF B!Longest

LEMMA FreshLoop == B!Fresh \in Loops /\ B!Fresh.pc = "loop"
BY Bounds DEF B!Fresh, Loops

-----------------------------------------------------------------------------
(* Every step of the machine keeps what is known of snapshots.             *)

Kept == \A s \in B!Snapshots : Known(s) => Known(s)'

LEMMA StartKeeps ==
    ASSUME Machine, NEW p \in Pids, NEW beat \in BOOLEAN, B!Start(p, beat)
    PROVE  Machine' /\ Kept
<1>1. /\ time' = time /\ boot' = boot /\ starts' = starts + 1 /\ starts + 1 \in 1..MaxStarts
      /\ ~Present(p)
      /\ process' = [process EXCEPT ![p] = [life |-> "S", start |-> starts + 1, beat |-> beat]]
      /\ beat => B!Beats = {}
      /\ loop' = IF beat THEN B!Fresh ELSE loop
    BY Bounds DEF Machine, MachineTypes, B!Start, Present
<1>2. MachineTypes'
    BY <1>1, FreshLoop DEF Machine, MachineTypes, B!Lives
<1>3. \A q \in Pids \ {p} : process'[q] = process[q]
    BY <1>1 DEF Machine, MachineTypes
<1>4. process'[p] = [life |-> "S", start |-> starts + 1, beat |-> beat]
    BY <1>1 DEF Machine, MachineTypes
<1>5. StartsAreUnique'
    BY <1>1, <1>3, <1>4, Bounds DEF Machine, MachineTypes, StartsAreUnique, Present, B!Beats
<1>6. SamplesAreRecent'
    BY <1>1, FreshLoop DEF Machine, SamplesAreRecent
<1>7. Kept
    <2> SUFFICES ASSUME NEW s \in B!Snapshots, Known(s)
                 PROVE  Known(s)'
        BY DEF Kept
    <2>1. s.boot = boot.id => s.start <= starts /\ s.start \in Nat
        BY DEF Known, B!Snapshots
    <2>2. ASSUME NEW q \in Pids, Wrote(q, s)'
          PROVE  q # p /\ Wrote(q, s)
        BY <1>1, <1>3, <1>4, <2>1, <2>2 DEF Wrote, Present, Machine, MachineTypes
    <2>3. ASSUME NEW q \in Pids, Wrote(q, s)', q \in B!Beats'
          PROVE  q \in B!Beats /\ loop' = loop
        BY <1>1, <1>3, <2>2, <2>3 DEF B!Beats
    <2>4. ASSUME NEW q \in Pids, Wrote(q, s)'
          PROVE  q = s.pid /\ process'[q].beat /\ (q \in B!Beats' => NotAhead(s)')
        BY <1>1, <1>3, <2>2, <2>3, <2>4 DEF Known, NotAhead
    <2>5. s.boot = boot'.id => s.start <= starts' /\ boot'.at + s.tick <= time'
        BY <1>1, <2>1 DEF Known, Machine, MachineTypes
    <2> QED  BY <1>1, <2>4, <2>5 DEF Known
<1> QED  BY <1>2, <1>5, <1>6, <1>7 DEF Machine

\* Exit, Reap and Pause: a process that was there keeps its start time.
LEMMA ProcessKeeps ==
    ASSUME Machine, NEW p \in Pids, B!Exit(p) \/ B!Reap(p) \/ B!Pause(p)
    PROVE  Machine' /\ Kept
<1>1. /\ UNCHANGED <<time, boot, starts>>
      /\ process' \in [Pids -> [life : B!Lives, start : 0..MaxStarts, beat : BOOLEAN]]
      /\ \A q \in Pids \ {p} : process'[q] = process[q]
    <2>1. CASE B!Exit(p)
        BY <2>1 DEF Machine, MachineTypes, B!Exit, B!world, B!Lives
    <2>2. CASE B!Reap(p)
        BY <2>2, Bounds DEF Machine, MachineTypes, B!Reap, B!world, B!Lives, B!Free
    <2>3. CASE B!Pause(p)
        BY <2>3 DEF Machine, MachineTypes, B!Pause, B!world, B!Lives
    <2> QED  BY <2>1, <2>2, <2>3
<1>2. Present(p)' => Present(p) /\ process'[p].start = process[p].start /\ process'[p].beat = process[p].beat
    BY DEF Machine, MachineTypes, B!Exit, B!Reap, B!Pause, B!Free, Present, B!Beats
<1>3. B!Beats' \subseteq B!Beats
    BY <1>1 DEF Machine, MachineTypes, B!Exit, B!Reap, B!Pause, B!Free, B!Beats
<1>4. \/ loop' = loop
      \/ loop' = B!Fresh /\ B!Beats' = {}
    BY <1>1, <1>3 DEF Machine, MachineTypes, StartsAreUnique, B!Exit, B!Reap, B!Pause, B!Beats
<1>5. MachineTypes'
    BY <1>1, <1>4, FreshLoop DEF Machine, MachineTypes
<1>6. StartsAreUnique'
    BY <1>1, <1>2, <1>3 DEF Machine, StartsAreUnique, Present
<1>7. SamplesAreRecent'
    BY <1>1, <1>4, FreshLoop DEF Machine, SamplesAreRecent
<1>8. Kept
    <2> SUFFICES ASSUME NEW s \in B!Snapshots, Known(s)
                 PROVE  Known(s)'
        BY DEF Kept
    <2>1. ASSUME NEW q \in Pids, Wrote(q, s)'
          PROVE  Wrote(q, s) /\ process'[q].beat = process[q].beat
        BY <1>1, <1>2, <2>1 DEF Wrote, Present
    <2>2. ASSUME NEW q \in Pids, Wrote(q, s)'
          PROVE  q = s.pid /\ process'[q].beat /\ (q \in B!Beats' => NotAhead(s)')
        BY <1>1, <1>3, <1>4, <2>1, <2>2 DEF Known, NotAhead
    <2> QED  BY <1>1, <2>2 DEF Known
<1> QED  BY <1>5, <1>6, <1>7, <1>8 DEF Machine

LEMMA RebootKeeps == ASSUME Machine, B!Reboot PROVE Machine' /\ Kept
<1>1. /\ time' = time /\ boot' = [id |-> boot.id + 1, at |-> time] /\ boot.id + 1 \in 1..MaxBoots
      /\ starts' = 0 /\ process' = [p \in Pids |-> B!Free] /\ loop' = B!Fresh
    BY Bounds DEF Machine, MachineTypes, B!Reboot
<1>2. \A p \in Pids : ~Present(p)' /\ p \notin B!Beats'
    BY <1>1 DEF Present, B!Beats, B!Free
<1>3. MachineTypes'
    BY <1>1, FreshLoop, Bounds DEF Machine, MachineTypes, B!Free, B!Lives
<1>4. StartsAreUnique' /\ SamplesAreRecent'
    BY <1>1, <1>2, FreshLoop DEF Machine, MachineTypes, StartsAreUnique, SamplesAreRecent, B!Beats
<1>5. Kept
    BY <1>1, <1>2 DEF Kept, Known, Wrote, Machine, MachineTypes, B!Snapshots
<1> QED  BY <1>3, <1>4, <1>5 DEF Machine

\* Time: the loop grows older by no more than the clock.
LEMMA AdvanceKeeps ==
    ASSUME Machine, NEW monotonic \in BOOLEAN, B!Advance(monotonic)
    PROVE  Machine' /\ Kept
<1>1. UNCHANGED <<boot, starts, process>> /\ time' = time + 1 /\ time + 1 \in 0..MaxTime
    BY Bounds DEF Machine, MachineTypes, B!Advance
<1>2. PICK since \in 0..WriteInterval, quiet \in 0..B!Longest :
        quiet <= loop.quiet + 1 /\ loop' = [loop EXCEPT !.since = since, !.quiet = quiet]
    <2> DEFINE since == IF monotonic /\ loop.since < WriteInterval THEN loop.since + 1 ELSE loop.since
               quiet == IF loop.quiet < B!Longest /\ B!Beats # {} THEN loop.quiet + 1 ELSE loop.quiet
    <2>1. loop' = [loop EXCEPT !.since = since, !.quiet = quiet]
        BY DEF B!Advance
    <2>2. loop.since \in 0..WriteInterval /\ loop.quiet \in 0..B!Longest
        BY DEF Machine, MachineTypes, Loops
    <2>3. since \in 0..WriteInterval /\ quiet \in 0..B!Longest /\ quiet <= loop.quiet + 1
        BY <2>2, Bounds
    <2> QED  BY <2>1, <2>3
<1>3. /\ loop' \in Loops /\ loop'.quiet <= loop.quiet + 1 /\ loop'.pc = loop.pc
      /\ loop'.count = loop.count /\ loop'.sample = loop.sample
      /\ loop'.returns = loop.returns /\ loop'.errors = loop.errors
    BY <1>2 DEF Machine, MachineTypes, Loops
<1>4. MachineTypes' /\ StartsAreUnique'
    BY <1>1, <1>3 DEF Machine, MachineTypes, StartsAreUnique, Present, B!Beats
<1>5. SamplesAreRecent'
    BY <1>1, <1>3, Bounds DEF Machine, MachineTypes, Loops, SamplesAreRecent
<1>6. Kept
    <2> SUFFICES ASSUME NEW s \in B!Snapshots, Known(s)
                 PROVE  Known(s)'
        BY DEF Kept
    <2>1. B!Beats' = B!Beats /\ \A q \in Pids : Wrote(q, s)' <=> Wrote(q, s)
        BY <1>1 DEF B!Beats, Wrote, Present
    <2>2. NotAhead(s) => NotAhead(s)'
        BY <1>1, <1>3, Bounds DEF NotAhead, Machine, MachineTypes, Loops, B!Snapshots
    <2>3. s.boot = boot.id => boot.at + s.tick <= time'
        BY <1>1, Bounds DEF Known, Machine, MachineTypes, B!Snapshots
    <2> QED  BY <1>1, <2>1, <2>2, <2>3 DEF Known
<1> QED  BY <1>4, <1>5, <1>6 DEF Machine

\* What the steps of Beat's loop make of its memory.
LEMMA AfterTick ==
    ASSUME loop \in Loops, loop.count + 1 \in 0..MaxCount,
           loop' = [loop EXCEPT !.pc = "returned", !.count = loop.count + 1, !.quiet = 0]
    PROVE  /\ loop' \in Loops
           /\ loop'.pc = "returned" /\ loop'.count = loop.count + 1 /\ loop'.quiet = 0
           /\ loop'.returns = loop.returns /\ loop'.errors = loop.errors
<1>1. 0 \in 0..B!Longest
    BY Bounds
<1>2. loop' \in Loops
    BY <1>1 DEF Loops
<1> QED  BY <1>2 DEF Loops

LEMMA AfterSample ==
    ASSUME loop \in Loops, B!boottime \in 0..MaxTime,
           loop' = [loop EXCEPT !.pc = "sampled", !.since = 0, !.quiet = 0, !.sample = B!boottime]
    PROVE  /\ loop' \in Loops
           /\ loop'.pc = "sampled" /\ loop'.sample = B!boottime /\ loop'.quiet = 0
           /\ loop'.count = loop.count /\ loop'.returns = loop.returns /\ loop'.errors = loop.errors
<1>1. 0 \in 0..B!Longest /\ 0 \in 0..WriteInterval
    BY Bounds
<1>2. [loop EXCEPT !.pc = "sampled", !.since = 0] \in Loops
    BY <1>1 DEF Loops
<1>3. loop' = [[loop EXCEPT !.pc = "sampled", !.since = 0] EXCEPT !.quiet = 0, !.sample = B!boottime]
    BY DEF Loops
<1>4. loop' \in Loops
    BY <1>1, <1>2, <1>3 DEF Loops
<1>5. loop'.pc = "sampled" /\ loop'.sample = B!boottime /\ loop'.quiet = 0
    BY DEF Loops
<1>6. loop'.count = loop.count /\ loop'.returns = loop.returns /\ loop'.errors = loop.errors
    BY DEF Loops
<1> QED  BY <1>4, <1>5, <1>6

LEMMA AfterWrite ==
    ASSUME loop \in Loops, loop' = [loop EXCEPT !.pc = "loop", !.sample = 0]
    PROVE  /\ loop' \in Loops /\ loop'.pc = "loop"
           /\ loop'.count = loop.count /\ loop'.quiet = loop.quiet
           /\ loop'.returns = loop.returns /\ loop'.errors = loop.errors
<1>1. 0 \in 0..MaxTime
    BY Bounds
<1>2. loop' \in Loops
    BY <1>1 DEF Loops
<1> QED  BY <1>2 DEF Loops

\* The loop: it counts on, and is quiet for less long.
LEMMA LoopCounts ==
    ASSUME Machine, NEW p \in Pids,
           B!ApplyAsync(p) \/ B!TickReturns(p) \/ B!Sample(p) \/ B!Write(p)
    PROVE  /\ loop' \in Loops
           /\ loop.count <= loop'.count /\ loop.returns <= loop'.returns
           /\ loop.errors <= loop'.errors /\ loop'.quiet <= loop.quiet
           /\ loop'.pc # "loop" =>
                 /\ loop'.count > 0
                 /\ loop.count < loop'.count \/ (loop.count = loop'.count /\ loop.pc # "loop")
           /\ loop'.pc = "sampled" => boot.at + loop'.sample + loop'.quiet <= time
<1> USE Bounds
<1>1. loop \in Loops
    BY DEF Machine, MachineTypes
<1>2. CASE B!ApplyAsync(p)
    <2>1. \/ loop.returns + 1 <= MaxPublish /\ loop' = [loop EXCEPT !.returns = loop.returns + 1]
          \/ loop.errors + 1 <= MaxPublish /\ loop' = [loop EXCEPT !.errors = loop.errors + 1]
        BY <1>1, <1>2 DEF Loops, B!ApplyAsync
    <2>2. /\ loop' \in Loops /\ loop'.pc = "loop" /\ loop'.count = loop.count
          /\ loop'.quiet = loop.quiet /\ loop.returns <= loop'.returns
          /\ loop.errors <= loop'.errors
        BY <1>1, <1>2, <2>1 DEF Loops, B!ApplyAsync
    <2> QED  BY <1>1, <2>2 DEF Loops
<1>3. CASE B!TickReturns(p)
    <2>1. /\ loop.pc = "loop" /\ loop.count + 1 <= MaxCount
          /\ loop' = [loop EXCEPT !.pc = "returned", !.count = loop.count + 1, !.quiet = 0]
        BY <1>1, <1>3 DEF Loops, B!TickReturns
    <2>2. loop.count + 1 \in 0..MaxCount
        BY <1>1, <2>1 DEF Loops
    <2>3. /\ loop' \in Loops
          /\ loop'.pc = "returned" /\ loop'.count = loop.count + 1 /\ loop'.quiet = 0
          /\ loop'.returns = loop.returns /\ loop'.errors = loop.errors
        BY <1>1, <2>1, <2>2, AfterTick
    <2> QED  BY <1>1, <2>3 DEF Loops
<1>4. CASE B!Sample(p)
    <2>1. B!boottime \in 0..MaxTime /\ boot.at + B!boottime = time
        BY DEF Machine, MachineTypes, SamplesAreRecent, B!boottime
    <2>2. \/ loop' = [loop EXCEPT !.pc = "loop"]
          \/ loop' = [loop EXCEPT !.pc = "sampled", !.since = 0, !.quiet = 0, !.sample = B!boottime]
        BY <1>4 DEF B!Sample
    <2>3. loop.pc = "returned" /\ loop.count > 0
        BY <1>1, <1>4 DEF Machine, SamplesAreRecent, B!Sample, Loops
    <2>4. CASE loop' = [loop EXCEPT !.pc = "loop"]
        BY <1>1, <2>4 DEF Loops
    <2>5. CASE loop' = [loop EXCEPT !.pc = "sampled", !.since = 0, !.quiet = 0, !.sample = B!boottime]
        <3>1. /\ loop' \in Loops
              /\ loop'.pc = "sampled" /\ loop'.sample = B!boottime /\ loop'.quiet = 0
              /\ loop'.count = loop.count /\ loop'.returns = loop.returns
              /\ loop'.errors = loop.errors
            BY <1>1, <2>1, <2>5, AfterSample
        <3>2. time \in Nat /\ boot.at \in Nat
            BY DEF Machine, MachineTypes
        <3>3. boot.at + loop'.sample + loop'.quiet <= time
            BY <2>1, <3>1, <3>2
        <3> QED  BY <1>1, <2>3, <3>1, <3>3 DEF Loops
    <2> QED  BY <2>2, <2>4, <2>5
<1>5. CASE B!Write(p)
    <2>1. loop' = [loop EXCEPT !.pc = "loop", !.sample = 0]
        BY <1>5 DEF B!Write
    <2>2. /\ loop' \in Loops /\ loop'.pc = "loop"
          /\ loop'.count = loop.count /\ loop'.quiet = loop.quiet
          /\ loop'.returns = loop.returns /\ loop'.errors = loop.errors
        BY <1>1, <2>1, AfterWrite
    <2> QED  BY <1>1, <2>2 DEF Loops
<1> QED  BY <1>2, <1>3, <1>4, <1>5

LEMMA LoopKeeps ==
    ASSUME Machine, NEW p \in Pids,
           B!ApplyAsync(p) \/ B!TickReturns(p) \/ B!Sample(p) \/ B!Write(p)
    PROVE  Machine' /\ Kept
<1>1. UNCHANGED <<time, boot, starts, process>>
    BY DEF B!ApplyAsync, B!TickReturns, B!Sample, B!Write, B!world
<1>2. MachineTypes' /\ StartsAreUnique'
    BY <1>1, LoopCounts DEF Machine, MachineTypes, StartsAreUnique, Present, B!Beats
<1>3. SamplesAreRecent'
    BY <1>1, LoopCounts DEF Machine, SamplesAreRecent
<1>4. Kept
    <2> SUFFICES ASSUME NEW s \in B!Snapshots, Known(s)
                 PROVE  Known(s)'
        BY DEF Kept
    <2>1. B!Beats' = B!Beats /\ \A q \in Pids : Wrote(q, s)' <=> Wrote(q, s)
        BY <1>1 DEF B!Beats, Wrote, Present
    <2>2. NotAhead(s) => NotAhead(s)'
        BY <1>1, LoopCounts, Bounds DEF NotAhead, Machine, MachineTypes, Loops, B!Snapshots
    <2> QED  BY <1>1, <2>1, <2>2 DEF Known
<1> QED  BY <1>2, <1>3, <1>4 DEF Machine

\* The probe and failed writes leave the machine alone.
LEMMA IdleKeeps ==
    ASSUME Machine, UNCHANGED <<time, boot, starts, process, loop>>
    PROVE  Machine' /\ Kept
<1>1. Machine'
    BY DEF Machine, MachineTypes, StartsAreUnique, SamplesAreRecent, Present, B!Beats
<1>2. Kept
    BY DEF Kept, Known, Wrote, NotAhead, Present, B!Beats
<1> QED  BY <1>1, <1>2

-----------------------------------------------------------------------------
(* The file, the reader and the answer.                                    *)

\* What Beat writes is known of it, and newer than whatever it wrote before.
LEMMA WrittenIsNew ==
    ASSUME Machine, NEW p \in Pids, B!Write(p), NEW s, s = B!Snapshot(p)
    PROVE  /\ Known(s)'
           /\ \A t \in B!Snapshots : Known(t) => InOrder(t, s)
<1>1. /\ p \in B!Beats /\ Present(p) /\ process[p].beat /\ loop.pc = "sampled" /\ loop \in Loops
      /\ process[p].start \in 1..starts /\ starts \in 0..MaxStarts
      /\ boot.id \in 1..MaxBoots /\ boot.at \in Nat /\ time \in Nat
    BY Bounds
    DEF Machine, MachineTypes, StartsAreUnique, Present, B!Write, B!Running, B!Beats
<1>2. /\ loop.count > 0 /\ boot.at + loop.sample + loop.quiet <= time
      /\ loop.count \in 0..MaxCount /\ loop.returns \in 0..MaxPublish
      /\ loop.errors \in 0..MaxPublish /\ loop.quiet \in Nat /\ loop.sample \in 0..MaxTime
    BY <1>1, Bounds DEF Machine, SamplesAreRecent, Loops
<1>3. /\ s.pid = p /\ s.start = process[p].start /\ s.boot = boot.id /\ s.tick = loop.sample
      /\ s.count = loop.count /\ s.returns = loop.returns /\ s.errors = loop.errors
    BY DEF B!Snapshot
<1>4. s \in B!Snapshots
    BY <1>1, <1>2, Bounds DEF B!Snapshot, B!Snapshots
<1>5. s.start <= starts /\ boot.at + s.tick <= time /\ s.boot <= boot.id
    BY <1>1, <1>2, <1>3, Bounds
<1>6. ASSUME NEW q \in Pids, Wrote(q, s)'
      PROVE  q = s.pid /\ process'[q].beat /\ NotAhead(s)'
    <2>1. /\ UNCHANGED <<time, boot, starts, process>>
          /\ loop'.pc = "loop" /\ loop'.count = loop.count /\ loop'.quiet = loop.quiet
          /\ loop'.returns = loop.returns /\ loop'.errors = loop.errors
        BY <1>1, AfterWrite DEF B!Write, B!world
    <2>2. Wrote(q, s)
        BY <1>6, <2>1 DEF Wrote, Present
    <2>3. q = p
        BY <1>1, <1>3, <2>2 DEF Wrote, Machine, StartsAreUnique
    <2>4. NotAhead(s)'
        BY <1>1, <1>2, <1>3, <2>1 DEF NotAhead
    <2> QED  BY <1>1, <1>3, <2>1, <2>3, <2>4
<1>7. Known(s)'
    BY <1>4, <1>5, <1>6 DEF Known, B!Write, B!world
<1>8. ASSUME NEW t \in B!Snapshots, Known(t), t.boot = s.boot, t.start = s.start
      PROVE  t.count < s.count /\ t.returns <= s.returns /\ t.errors <= s.errors
    <2>1. Wrote(p, t)
        BY <1>1, <1>3, <1>8 DEF Wrote
    <2>2. NotAhead(t)
        BY <1>1, <1>8, <2>1 DEF Known
    <2>3. t.count < loop.count /\ t.returns <= loop.returns /\ t.errors <= loop.errors
        BY <1>1, <2>2 DEF NotAhead
    <2> QED  BY <1>3, <2>3
<1>9. \A t \in B!Snapshots : Known(t) => InOrder(t, s)
    BY <1>8 DEF InOrder
<1> QED  BY <1>7, <1>9

Records == RecordTypes /\ RecordsAreKnown /\ RecordsAreInOrder /\ ChecksHold

\* Every step of the machine but a write: the records stand, and the same is
\* known of them.  After a reboot nobody is reading.
LEMMA RecordsStand ==
    ASSUME BInv, Machine', Kept, answer' = answer, file' \in {file, None},
           \/ reader' = reader /\ boot' = boot /\ time <= time'
           \/ reader' = B!Idle
    PROVE  Records'
<1>1. RecordTypes'
    BY Bounds DEF BInv, RecordTypes, B!Idle
<1>2. RecordsAreKnown'
    BY DEF BInv, RecordTypes, RecordsAreKnown, Kept, Known, B!Idle
<1>3. RecordsAreInOrder'
    BY DEF BInv, RecordsAreInOrder, InOrder, B!Idle
<1>4. ChecksHold'
    <2>1. CASE reader' = B!Idle
        BY <2>1 DEF ChecksHold, B!Idle
    <2>2. CASE reader' = reader /\ boot' = boot /\ time <= time'
        <3>1. reader.at \in Nat /\ time \in Nat /\ time' \in Nat
            BY Bounds DEF BInv, Machine, MachineTypes, RecordTypes
        <3> QED  BY <2>2, <3>1 DEF BInv, ChecksHold
    <2> QED  BY <2>1, <2>2
<1> QED  BY <1>1, <1>2, <1>3, <1>4 DEF Records

LEMMA MachineInv ==
    ASSUME BInv,
           \/ \E p \in Pids :
                 \/ \E beat \in BOOLEAN : B!Start(p, beat)
                 \/ B!Exit(p) \/ B!Reap(p) \/ B!Pause(p)
                 \/ B!ApplyAsync(p) \/ B!TickReturns(p) \/ B!Sample(p)
           \/ B!Reboot
           \/ \E monotonic \in BOOLEAN : B!Advance(monotonic)
    PROVE  BInv'
<1>1. Machine' /\ Kept
    BY StartKeeps, ProcessKeeps, LoopKeeps, RebootKeeps, AdvanceKeeps DEF BInv
<1>2. answer' = answer /\ file' \in {file, None}
    BY DEF B!Start, B!Exit, B!Reap, B!Pause, B!ApplyAsync, B!TickReturns, B!Sample, B!Reboot,
           B!Advance
<1>3. time \in Nat
    BY Bounds DEF BInv, Machine, MachineTypes
<1>4. \/ reader' = reader /\ boot' = boot /\ time <= time'
      \/ reader' = B!Idle
    <2>1. ASSUME NEW p \in Pids, NEW beat \in BOOLEAN, B!Start(p, beat)
          PROVE  reader' = reader /\ boot' = boot /\ time' = time
        BY <2>1 DEF B!Start
    <2>2. ASSUME NEW p \in Pids, B!Exit(p) \/ B!Reap(p) \/ B!Pause(p)
          PROVE  reader' = reader /\ boot' = boot /\ time' = time
        BY <2>2 DEF B!Exit, B!Reap, B!Pause, B!world
    <2>3. ASSUME NEW p \in Pids, B!ApplyAsync(p) \/ B!TickReturns(p) \/ B!Sample(p)
          PROVE  reader' = reader /\ boot' = boot /\ time' = time
        BY <2>3 DEF B!ApplyAsync, B!TickReturns, B!Sample, B!world
    <2>4. ASSUME NEW monotonic \in BOOLEAN, B!Advance(monotonic)
          PROVE  reader' = reader /\ boot' = boot /\ time' = time + 1
        BY <2>4 DEF B!Advance
    <2>5. B!Reboot => reader' = B!Idle
        BY DEF B!Reboot
    <2> QED  BY <1>3, <2>1, <2>2, <2>3, <2>4, <2>5
<1> QED  BY <1>1, <1>2, <1>4, RecordsStand DEF BInv, Records

LEMMA WriteInv == ASSUME BInv, NEW p \in Pids, B!Write(p) PROVE BInv'
<1>1. Machine' /\ Kept
    BY LoopKeeps DEF BInv
<1>2. UNCHANGED <<time, boot, answer, reader>>
    BY DEF B!Write, B!world
<1>3. CASE file' = file
    <2>1. time \in Nat
        BY Bounds DEF BInv, Machine, MachineTypes
    <2> QED  BY <1>1, <1>2, <1>3, <2>1, RecordsStand DEF BInv, Records
<1>4. CASE file' = B!Snapshot(p)
    <2>1. PICK s : s = B!Snapshot(p)
        OBVIOUS
    <2>2. Known(s)' /\ \A t \in B!Snapshots : Known(t) => InOrder(t, s)
        BY <2>1, WrittenIsNew DEF BInv
    <2>3. file' = s
        BY <1>4, <2>1
    <2>4. RecordTypes' /\ (file # None => Known(file))'
        BY <1>2, <2>2, <2>3 DEF BInv, RecordTypes, Known, Wrote, NotAhead, Present, B!Beats
    <2>5. RecordsAreKnown'
        BY <1>1, <1>2, <2>4 DEF BInv, RecordTypes, RecordsAreKnown, Kept, Known
    <2>6. RecordsAreInOrder'
        <3>1. reader.pc # "idle" => InOrder(reader.snapshot, s)
            BY <2>2 DEF BInv, RecordsAreKnown, Known
        <3>2. answer # None => InOrder(answer, s)
            BY <2>2 DEF BInv, RecordsAreKnown, Known
        <3> QED  BY <1>2, <2>3, <3>1, <3>2 DEF BInv, RecordsAreInOrder, InOrder
    <2>7. ChecksHold'
        BY <1>2 DEF BInv, ChecksHold
    <2> QED  BY <1>1, <2>4, <2>5, <2>6, <2>7 DEF BInv
<1> QED  BY <1>3, <1>4 DEF B!Write

\* The probe reads the file whole, and checks what it has read.
LEMMA ReaderInv ==
    ASSUME BInv, B!Read \/ B!CheckAge \/ B!CheckProcess \/ B!Answer
    PROVE  BInv'
<1>1. UNCHANGED <<time, boot, starts, process, loop, file>>
    BY DEF B!Read, B!CheckAge, B!CheckProcess, B!Answer, B!world
<1>2. Machine' /\ Kept
    BY <1>1, IdleKeeps DEF BInv
<1>3. time \in 0..MaxTime /\ boot.at \in Nat /\ reader.at \in 0..MaxTime
    BY Bounds DEF BInv, Machine, MachineTypes, RecordTypes
<1>4. ASSUME reader' = B!Idle, answer' = answer
      PROVE  BInv'
    BY <1>1, <1>2, <1>4, RecordsStand DEF BInv, Records
<1>5. CASE B!Read
    <2>1. /\ file # None /\ answer' = answer
          /\ reader' = [reader EXCEPT !.pc = "read", !.snapshot = file]
        BY <1>5 DEF B!Read
    <2>2. /\ RecordTypes' /\ reader'.pc = "read" /\ reader'.snapshot = file
        BY <1>1, <2>1 DEF BInv, RecordTypes
    <2>3. RecordsAreKnown'
        BY <1>1, <1>2, <2>1, <2>2 DEF BInv, RecordsAreKnown, Kept, Known
    <2>4. RecordsAreInOrder' /\ ChecksHold'
        BY <1>1, <2>1, <2>2 DEF BInv, RecordsAreInOrder, ChecksHold, InOrder
    <2> QED  BY <1>2, <2>2, <2>3, <2>4 DEF BInv
<1>6. CASE B!CheckAge
    <2>1. CASE B!FreshEnough(reader.snapshot)
               /\ reader' = [reader EXCEPT !.pc = "aged", !.at = time]
        <3>1. /\ reader.pc = "read" /\ answer' = answer
              /\ reader.snapshot \in B!Snapshots
            BY <1>6, <2>1 DEF B!CheckAge, BInv, RecordsAreKnown, Known
        <3>2. /\ RecordTypes' /\ reader'.pc = "aged" /\ reader'.snapshot = reader.snapshot
              /\ reader'.at = time
            BY <1>1, <1>3, <2>1, <3>1 DEF BInv, RecordTypes
        <3>3. RecordsAreKnown'
            BY <1>1, <1>2, <3>1, <3>2 DEF BInv, RecordsAreKnown, Kept, Known
        <3>4. RecordsAreInOrder'
            BY <1>1, <3>1, <3>2 DEF BInv, RecordsAreInOrder, InOrder
        <3>5. reader.snapshot.boot = boot.id /\ time - boot.at - reader.snapshot.tick \in 0..MaxAge
            BY <2>1 DEF B!FreshEnough, B!boottime
        <3>6. ChecksHold'
            BY <1>1, <1>3, <3>1, <3>2, <3>5, Bounds DEF ChecksHold, B!Snapshots
        <3> QED  BY <1>2, <3>2, <3>3, <3>4, <3>6 DEF BInv
    <2> QED  BY <1>4, <1>6, <2>1 DEF B!CheckAge, B!Refuse
<1>7. CASE B!CheckProcess
    <2>1. CASE reader' = [reader EXCEPT !.pc = "accepted"]
        <3>1. reader.pc = "aged" /\ answer' = answer
            BY <1>7 DEF B!CheckProcess
        <3>2. /\ RecordTypes' /\ reader'.pc = "accepted" /\ reader'.snapshot = reader.snapshot
            BY <1>1, <2>1, <3>1 DEF BInv, RecordTypes
        <3>3. RecordsAreKnown'
            BY <1>1, <1>2, <3>1, <3>2 DEF BInv, RecordsAreKnown, Kept, Known
        <3>4. RecordsAreInOrder' /\ ChecksHold'
            BY <1>1, <3>1, <3>2 DEF BInv, RecordsAreInOrder, InOrder, ChecksHold
        <3> QED  BY <1>2, <3>2, <3>3, <3>4 DEF BInv
    <2> QED  BY <1>4, <1>7, <2>1 DEF B!CheckProcess, B!Refuse
<1>8. CASE B!Answer
    <2>1. reader.pc = "accepted" /\ answer' = reader.snapshot /\ reader' = B!Idle
        BY <1>8 DEF B!Answer
    <2>2. RecordTypes' /\ ChecksHold'
        BY <1>1, <1>3, <2>1, Bounds DEF BInv, RecordTypes, ChecksHold, B!Idle
    <2>3. RecordsAreKnown' /\ RecordsAreInOrder'
        BY <1>1, <1>2, <2>1
        DEF BInv, RecordsAreKnown, RecordsAreInOrder, InOrder, Kept, Known, B!Idle
    <2> QED  BY <1>2, <2>2, <2>3 DEF BInv
<1> QED  BY <1>5, <1>6, <1>7, <1>8

LEMMA InitBInv == B!Init => BInv
<1> SUFFICES ASSUME B!Init
             PROVE  BInv
    OBVIOUS
<1>1. /\ time = 0 /\ boot = [id |-> 1, at |-> 0] /\ starts = 0 /\ loop = B!Fresh
      /\ file = None /\ reader = B!Idle /\ answer = None
      /\ \A p \in Pids : ~Present(p) /\ p \notin B!Beats
    BY DEF B!Init, Present, B!Beats, B!Free
<1>2. MachineTypes
    BY <1>1, FreshLoop, Bounds DEF MachineTypes, B!Init, B!Free, B!Lives
<1>3. StartsAreUnique /\ SamplesAreRecent
    BY <1>1, FreshLoop DEF StartsAreUnique, SamplesAreRecent, B!Beats
<1>4. Records
    BY <1>1, Bounds
    DEF Records, RecordTypes, RecordsAreKnown, RecordsAreInOrder, ChecksHold, B!Idle
<1> QED  BY <1>2, <1>3, <1>4 DEF BInv, Machine, Records

LEMMA StepBInv == BInv /\ [B!Next]_beatVars => BInv'
<1> SUFFICES ASSUME BInv, [B!Next]_beatVars
             PROVE  BInv'
    OBVIOUS
<1>1. CASE UNCHANGED beatVars
    <2>1. UNCHANGED <<time, boot, starts, process, loop, file, reader, answer>>
        BY <1>1 DEF beatVars
    <2>2. time <= time'
        BY <2>1, Bounds DEF BInv, Machine, MachineTypes
    <2> QED  BY <2>1, <2>2, IdleKeeps, RecordsStand DEF BInv, Records
<1>2. CASE B!Next
    BY <1>2, MachineInv, WriteInv, ReaderInv DEF B!Next
<1> QED  BY <1>1, <1>2

LEMMA BeatInvariant == B!Spec => []BInv
<1>1. BInv /\ [B!Next]_(B!vars) => BInv'
    BY StepBInv DEF B!vars, beatVars
<1> QED  BY <1>1, InitBInv, PTL DEF B!Spec

-----------------------------------------------------------------------------
(* The container.                                                          *)

\* A container is a worker that is probed and, elsewhere, a scheduler that is
\* probed: whichever role it has, it behaves as both specifications say.
LEMMA RolesAreSeparate == Container => Spec /\ B!Spec
<1>1. InitContainer => Init /\ B!Init
    BY DEF InitContainer
<1>2. [NextContainer]_containerVars => [Next]_vars /\ [B!Next]_(B!vars)
    BY DEF NextContainer, containerVars, beatVars, B!vars
<1> QED  BY <1>1, <1>2, PTL DEF Container, Spec, B!Spec

LEMMA ContainerInvariant == Container => [](role \in {"worker", "scheduler"} /\ IInv /\ BInv)
<1>1. InitContainer => role \in {"worker", "scheduler"}
    BY DEF InitContainer
<1>2. role \in {"worker", "scheduler"} /\ [NextContainer]_containerVars
         => (role \in {"worker", "scheduler"})'
    BY DEF NextContainer, containerVars
<1>3. Container => [](role \in {"worker", "scheduler"})
    BY <1>1, <1>2, PTL DEF Container
<1> QED  BY <1>3, RolesAreSeparate, Invariant, BeatInvariant, PTL

\* Both halves of the container keep their types, and Beat runs once.
THEOREM HealthTypes == Container => []HealthTypeOK
<1>1. IInv => TypeOK
    BY DEF IInv
<1>2. BInv => B!TypeOK
    BY DEF BInv, Machine, MachineTypes, StartsAreUnique, Loops, RecordTypes, B!TypeOK
<1>3. role \in {"worker", "scheduler"} /\ IInv /\ BInv => HealthTypeOK
    BY <1>1, <1>2 DEF HealthTypeOK
<1> QED  BY <1>3, ContainerInvariant, PTL

\* What an accepted snapshot says is known of the Beat that runs.
LEMMA AcceptedIsKnown ==
    ASSUME BInv, [B!Next]_beatVars, B!Accepts
    PROVE  LET s == reader.snapshot IN
           /\ s \in B!Snapshots /\ s.boot = boot.id
           /\ B!Running(s.pid) /\ NotAhead(s)
<1>1. B!CheckProcess /\ B!Active(reader.snapshot)
    <2>1. ~UNCHANGED reader
        BY DEF B!Accepts
    <2>2. B!Read \/ B!CheckAge \/ B!CheckProcess \/ B!Answer \/ B!Reboot
        BY <2>1
        DEF B!Next, beatVars, B!Start, B!Exit, B!Reap, B!Pause, B!ApplyAsync, B!TickReturns,
            B!Sample, B!Write, B!Advance
    <2>3. ~(reader' = B!Idle)
        BY DEF B!Accepts, B!Idle
    <2> QED  BY <2>2, <2>3 DEF B!Accepts, B!Read, B!CheckAge, B!CheckProcess, B!Answer, B!Reboot, B!Refuse
<1>2. Known(reader.snapshot) /\ reader.snapshot.boot = boot.id
    BY DEF BInv, RecordsAreKnown, ChecksHold, B!Accepts
<1>3. reader.snapshot \in B!Snapshots /\ reader.snapshot.pid \in Pids
    BY <1>2 DEF Known, B!Snapshots
<1>4. Wrote(reader.snapshot.pid, reader.snapshot)
    BY <1>1, <1>2 DEF Wrote, Present, B!Active
<1>5. B!Running(reader.snapshot.pid)
    BY <1>1, <1>2, <1>3, <1>4 DEF Known, B!Active, B!Running, B!Beats
<1> QED  BY <1>2, <1>3, <1>4, <1>5 DEF Known, B!Running

\* read_activity never believes a file left by an earlier boot or by a process
\* whose number has a new owner.
THEOREM AboutTheRunningBeat == Container => AnswersAreAboutTheRunningBeat
<1> DEFINE About ==
        LET s == reader.snapshot IN
        /\ B!Running(s.pid) /\ s.boot = boot.id
        /\ s.count <= loop.count
        /\ s.returns <= loop.returns /\ s.errors <= loop.errors
<1>1. BInv /\ [B!Next]_(B!vars) => [B!Accepts => About]_(B!vars)
    BY AcceptedIsKnown DEF NotAhead, B!vars, beatVars
<1>2. B!Spec => AnswersAreAboutTheRunningBeat
    BY <1>1, BeatInvariant, PTL
    DEF B!Spec, AnswersAreAboutTheRunningBeat, B!AnswersAreAboutTheRunningBeat
<1> QED  BY <1>2, RolesAreSeparate, PTL

\* A loop that has hung for longer than MaxAge when the age is compared is not
\* reported as active.
THEOREM HungAreNoticed == Container => HungBeatsAreNoticed
<1>1. ASSUME BInv, [B!Next]_beatVars, B!Accepts
      PROVE  loop.quiet <= MaxAge + (time - reader.at)
    <2> DEFINE s == reader.snapshot
    <2>1. s \in B!Snapshots /\ boot.at + s.tick + loop.quiet <= time
        BY <1>1, AcceptedIsKnown DEF NotAhead
    <2>2. reader.at <= boot.at + s.tick + MaxAge
        BY <1>1 DEF BInv, ChecksHold, B!Accepts
    <2>3. s.tick \in Nat /\ loop.quiet \in Nat /\ time \in Nat /\ boot.at \in Nat /\ reader.at \in Nat
        BY <1>1, <2>1, Bounds
        DEF BInv, Machine, MachineTypes, Loops, RecordTypes, B!Snapshots
    <2> QED  BY <2>1, <2>2, <2>3, Bounds
<1>2. BInv /\ [B!Next]_(B!vars)
         => [B!Accepts => loop.quiet <= MaxAge + (time - reader.at)]_(B!vars)
    BY <1>1 DEF B!vars, beatVars
<1>3. B!Spec => HungBeatsAreNoticed
    BY <1>2, BeatInvariant, PTL DEF B!Spec, HungBeatsAreNoticed, B!HungBeatsAreNoticed
<1> QED  BY <1>3, RolesAreSeparate, PTL

\* What was once reported of a Beat stays counted in every later report.
THEOREM NeverGoBack == Container => AnswersNeverGoBack
<1> DEFINE Forward ==
        (reader.snapshot.boot = answer.boot /\ reader.snapshot.start = answer.start) =>
            /\ answer.count < reader.snapshot.count
            /\ answer.returns <= reader.snapshot.returns /\ answer.errors <= reader.snapshot.errors
<1>1. ASSUME BInv, [B!Next]_beatVars, reader.pc = "accepted", answer' # answer, answer # None
      PROVE  Forward
    <2>1. answer' = reader.snapshot
        BY <1>1
        DEF B!Next, beatVars, B!Start, B!Exit, B!Reap, B!Pause, B!ApplyAsync, B!TickReturns,
            B!Sample, B!Write, B!Advance, B!Reboot, B!Read, B!CheckAge, B!CheckProcess, B!Answer
    <2>2. InOrder(answer, reader.snapshot)
        BY <1>1 DEF BInv, RecordsAreInOrder
    <2> QED  BY <1>1, <2>1, <2>2 DEF InOrder
<1>2. BInv /\ [B!Next]_(B!vars)
         => [reader.pc = "accepted" /\ answer' # answer /\ answer # None => Forward]_(B!vars)
    BY <1>1 DEF B!vars, beatVars
<1>3. B!Spec => [][reader.pc = "accepted" /\ answer' # answer /\ answer # None => Forward]_(B!vars)
    BY <1>2, BeatInvariant, PTL DEF B!Spec
<1>4. B!Spec => AnswersNeverGoBack
    BY <1>3 DEF AnswersNeverGoBack, B!AnswersNeverGoBack
<1> QED  BY <1>4, RolesAreSeparate, PTL
=============================================================================
