--------------------------- MODULE WorkerReadiness ---------------------------
(***************************************************************************)
(* The readiness command of a Celery worker: two control queries, one      *)
(* after the other, to the node named after the pod, in a child process    *)
(* that is killed after Budget.                                            *)
(*                                                                         *)
(* Between the queries, and between a reply and its use, the worker may be *)
(* replaced by one of the same name or lose a consumer; two workers of one *)
(* name may answer; replies may be lost or come too late.  The tasks that  *)
(* a worker has registered stay as they are as long as it lives.           *)
(***************************************************************************)
EXTENDS Naturals, FiniteSets

CONSTANTS
    Workers,        \* processes that may run, in turn or together, as one node
    Queue,          \* task_default_queue
    OtherQueue,     \* a queue somebody adds by remote control
    Tasks,          \* the app.tasks.* of the image
    None,
    Window,         \* REPLY_TIMEOUT_SECONDS
    Budget          \* PROBE_TIMEOUT_SECONDS

ASSUME BudgetAssumption == Window \in Nat /\ Budget \in Nat /\ Window < Budget
ASSUME QueueAssumption == Queue # OtherQueue /\ Tasks # {}
ASSUME WorkerAssumption ==
    /\ IsFiniteSet(Workers)
    /\ None \notin [queues : SUBSET {Queue, OtherQueue}, tasks : SUBSET Tasks]

VARIABLES
    worker,     \* what each worker consumes and has registered, or None
    probe,      \* the child: its step, its age, and its query
    verdict,    \* exit status of the last command
    held,       \* facts that held for the node at some moment since it began
    together,   \* whether both held at the same moment for one worker
    steady      \* whether one and the same worker was up all the time

vars == <<worker, probe, verdict, held, together, steady>>
watch == <<held, together, steady>>

Steps == {"idle", "connect_queues", "ask_queues", "connect_tasks", "ask_tasks"}
Idle == [step |-> "idle", age |-> 0, waited |-> 0, open |-> {}, replies |-> {}]

TypeOK ==
    /\ worker \in [Workers -> [queues : SUBSET {Queue, OtherQueue}, tasks : SUBSET Tasks]
                                 \union {None}]
    /\ probe.step \in Steps
    /\ probe.age \in 0..Budget /\ probe.waited \in 0..Window
    /\ probe.open \subseteq Workers
    /\ \A r \in probe.replies :
          r \in [from : Workers, payload : (SUBSET {Queue, OtherQueue}) \union (SUBSET Tasks)]
    /\ verdict \in {None, "ready", "not_ready"}
    /\ held \subseteq {"queue", "tasks"}
    /\ together \in BOOLEAN /\ steady \in BOOLEAN

Init ==
    /\ worker = [w \in Workers |-> None]
    /\ probe = Idle
    /\ verdict = None
    /\ held = {}
    /\ together = FALSE
    /\ steady = FALSE

-----------------------------------------------------------------------------
Up == {w \in Workers : worker[w] # None}

\* A faulty variant: the queue is looked for among those consumed.
RightQueues_Among(queues) == Queue \in queues

\* Exactly the one configured queue, and not that queue among others.
RightQueues(queues) == queues = {Queue}

\* A faulty variant: one of the tasks will do.
AllTasks_Some(tasks) == tasks # {}

AllTasks(tasks) == Tasks \subseteq tasks

\* configure_celery gives a worker the configured queue and no other; an
\* older image may lack a task.
StartWorker(w) ==
    /\ worker[w] = None
    /\ \E tasks \in {Tasks, {CHOOSE t \in Tasks : TRUE}} :
          worker' = [worker EXCEPT ![w] = [queues |-> {Queue}, tasks |-> tasks]]
    /\ UNCHANGED <<probe, verdict>>

StopWorker(w) ==
    /\ worker[w] # None
    /\ worker' = [worker EXCEPT ![w] = None]
    /\ probe' = [probe EXCEPT !.open = @ \ {w}]
    /\ UNCHANGED verdict

\* Remote control adds or cancels a consumer.
Control(w, q) ==
    /\ worker[w] # None
    /\ worker' = [worker EXCEPT ![w].queues = (@ \ {q}) \union ({q} \ @)]
    /\ UNCHANGED <<probe, verdict>>

-----------------------------------------------------------------------------
(* The command and its child. *)

Exit(status) == probe' = Idle /\ verdict' = status

Begin ==
    /\ probe.step = "idle"
    /\ probe' = [Idle EXCEPT !.step = "connect_queues"]
    /\ UNCHANGED <<worker, verdict>>

\* The interpreter and the broker may take any time, or fail.
Broadcast ==
    /\ \/ /\ probe.step = "connect_queues"
          /\ probe' = [probe EXCEPT !.step = "ask_queues", !.open = Up]
          /\ UNCHANGED verdict
       \/ /\ probe.step = "connect_tasks"
          /\ probe' = [probe EXCEPT !.step = "ask_tasks", !.open = Up]
          /\ UNCHANGED verdict
       \/ probe.step \in {"connect_queues", "connect_tasks"} /\ Exit("not_ready")
    /\ UNCHANGED worker

\* A worker answers a query that reached it while its reply still counts.
Reply(w) ==
    /\ w \in probe.open
    /\ LET payload == IF probe.step = "ask_queues" THEN worker[w].queues
                                                   ELSE worker[w].tasks
       IN  probe' = [probe EXCEPT !.open = @ \ {w},
                        !.replies = @ \union {[from |-> w, payload |-> payload]}]
    /\ UNCHANGED <<worker, verdict>>

Sole == Cardinality(probe.replies) = 1
Payload == (CHOOSE r \in probe.replies : TRUE).payload
Good ==
    IF ~Sole THEN FALSE
    ELSE IF probe.step = "ask_queues" THEN RightQueues(Payload) ELSE AllTasks(Payload)

\* The broadcast returns with what there is: at the first reply, at another,
\* or empty-handed when Window is over.  Anything but one reply is refused.
Return ==
    /\ probe.step \in {"ask_queues", "ask_tasks"}
    /\ probe.replies # {} \/ probe.waited = Window
    /\ \/ /\ Good /\ probe.step = "ask_queues"
          /\ probe' = [probe EXCEPT !.step = "connect_tasks", !.waited = 0,
                          !.open = {}, !.replies = {}]
          /\ UNCHANGED verdict
       \/ Good /\ probe.step = "ask_tasks" /\ Exit("ready")
       \/ Good = FALSE /\ Exit("not_ready")
    /\ UNCHANGED worker

\* A faulty variant: the queries have a timeout, the child has none.
Kill_None == FALSE /\ UNCHANGED vars

\* subprocess.run kills the child and waits for it.
Kill ==
    /\ probe.step # "idle" /\ probe.age = Budget
    /\ Exit("not_ready")
    /\ UNCHANGED worker

Asking == probe.step \in {"ask_queues", "ask_tasks"}

Advance ==
    /\ probe.step # "idle" /\ probe.age < Budget
    /\ Asking => probe.waited < Window
    /\ probe' = [probe EXCEPT !.age = @ + 1, !.waited = IF Asking THEN @ + 1 ELSE @]
    /\ UNCHANGED <<worker, verdict>>

-----------------------------------------------------------------------------
FactsOf(w) ==
    IF w = None THEN {}
    ELSE (IF w.queues = {Queue} THEN {"queue"} ELSE {}) \union
         (IF w.tasks = Tasks THEN {"tasks"} ELSE {})

\* What an observer of the node would note while the probe runs.
Watch ==
    LET facts == UNION {FactsOf(worker'[w]) : w \in Workers}
        both == \E w \in Workers : FactsOf(worker'[w]) = {"queue", "tasks"}
        began == probe.step = "idle" /\ probe'.step # "idle"
    IN  /\ held' = IF began THEN facts ELSE held \union facts
        /\ together' = (both \/ (~began /\ together))
        /\ steady' = (Cardinality(Up) = 1 /\ Up' = Up /\ (began \/ steady))

Step == Begin \/ Broadcast \/ Return \/ Kill

Next ==
    /\ \/ \E w \in Workers :
             \/ StartWorker(w) \/ StopWorker(w) \/ Reply(w)
             \/ \E q \in {Queue, OtherQueue} : Control(w, q)
       \/ Step \/ Advance
    /\ Watch

Spec == Init /\ [][Next]_vars

-----------------------------------------------------------------------------
(* Properties.                                                             *)

Accepted == probe.step = "ask_tasks" /\ probe'.step = "idle" /\ verdict' = "ready"

\* Nothing is reported from memory: of a node found ready, each fact was true
\* at some moment of that very probe, whatever was replaced, cancelled or
\* answered twice meanwhile.
ReadyWasTrue == [][Accepted => held = {"queue", "tasks"}]_vars

\* The two queries are not one snapshot, yet if one and the same worker was
\* up all the time, both facts were true at once: what a consumer loses or
\* gains between the queries does not matter.
ReadyWasTrueAtOnce == [][Accepted /\ steady => together]_vars

\* A command ends whatever the broker does, and so does what it spawned.
EveryProbeEnds == probe.step # "idle" ~> probe.step = "idle"
=============================================================================
