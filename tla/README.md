# Durable delivery: a verification development in TLA+

This directory holds TLA+ models of the backend template in `src/`, the TLC
runs that check them on small instances, and theorems that TLAPS proves for
every value of the constants. The centre of
the system is its transactional outbox (`src/app/app/infrastructure/messaging`):
a business transaction commits an intent, pumps publish hints about it to a
broker, and workers execute it exactly once. Around it stand the login and
sessions of two browser surfaces, clients of an identity provider and of a
downstream service, and the probes an orchestrator asks.

## 1. Inventory

### Parts and how they interact

| Part | State it keeps | Operations | Hard behaviour |
| --- | --- | --- | --- |
| Publisher: `durable_delivery.py`, `tasks/durable_delivery.py` | `outbox_message` (status, lease, attempts), `outbox_dead_letter` | `reconcile`, `claim_delivery`, `finish_delivery`, `replay`, `pump` | several pumps at once, pumps dying, publishes that outlast their lease, `SKIP LOCKED` against stale snapshots |
| Consumer: `durable_tasks.py` | `outbox_execution` (owner, epoch, expiry), `inbox_message` | `claim_execution`, `renew`, `release`, `consume`, the commit guard | takeover between guard and commit, heartbeat against hung handlers, late release, clock steps, crashes |
| Broker (RabbitMQ through Celery) | hints: task messages that carry a message id | publish, deliver, acknowledge late | lost, repeated, delayed hints |
| Outbox repository: `repositories/outbox.py` | the same tables | `enqueue`, `claim_batch`, `mark_published`, `mark_failed`, `claim_inbox_once` | concurrent enqueues of one deduplication key, `NOW()` against `clock_timestamp()` |
| Delivery observation and metrics: `delivery_observation.py`, `delivery_metrics.py` | one collection slot | snapshot, render | admission on every path out; several queries that must be one picture |
| Scheduler activity: `scheduler_activity.py` | a file that outlives its process | `tick`, `read_activity` | restarts, pid reuse, reboots, suspended machines |
| Worker readiness: `cli/worker_readiness.py` | none | two control queries | the worker changes in between, two answer, nobody answers |
| Login and sessions: `auth_service.py`, `interfaces/http/*/auth.py` | Redis keys, `auth_user`, cookies | `begin_login`, `complete_login`, `cancel_login`, `/me`, `end_session` | callbacks racing one another and the expiry, several tabs, several browsers |
| OIDC client, service identity: `oidc.py`, `service_identity.py` | two caches in memory | discovery, key set, verification | answers of concurrent requests in any order, key rotation |
| Downstream client: `downstream_service.py` | one token, one lock | `request_json` | cancellation of waiters, slow answers, short lifetimes |
| Web interaction: `web_interaction.py`, `interactions.py` | the browser's cursor | snapshot, stream resume, actions | lost connections, two cursors that disagree |
| API bootstrap, stores, readiness | stores, connection pool | lifespan, `/ready` | stores that hang, a migration under way, cancelled probes |
| Configuration: `config.py` | settings | checks at start | settings that are each right and together wrong |
| Error mapping, headers, audit context, provisioning scripts | none or outside | | |

The publisher and the consumer share one PostgreSQL database. A pump hands the
broker a hint with a message id; a worker that receives it calls
`consume(message_id)` and reads everything else from the database. The consumer
acknowledges through `inbox_message`, which `reconcile` reads, together with
the execution leases (`active_execution_sql`), to find messages that were
published and not executed. Nothing relies on a hint arriving: a hint only
saves time.

### What makes the parts correct

* Consumer: the effects of a message commit once, with its receipt; a worker
  whose lease was taken over commits nothing any more; a released lease stays
  released; a deposed worker does not disturb its successor and stops; a due
  message is executed in the end.
* Publisher: dead letters are opened only when attempts are used up; a live
  delivery is ended by its own publisher; no message is forgotten.
* Together: a committed intent is executed or ends as a dead letter, whatever
  is lost or dies.
* Repository: a deduplication key has one row, and whoever is answered is
  answered its id; leases compared with the start of a transaction never
  overlap with outcomes recorded against the running clock, and an outcome
  never lands on the claim of another publisher.
* Probes: an answer is about this moment and this process, never from memory.
* Login: one session per login, in the browser that began it, with the roles of
  its own token and the user that is on record; a logout ends the session the
  user saw.
* Caches: no withdrawn key verifies for longer than the cache period, no current
  key is refused, and a service token is used past its end by no more than a slow
  answer and an unstated lifetime account for.
* Observation, interactions, readiness route, settings: what they answer follows
  from their input and the rows of the moment; they keep no state that an order
  of steps could spoil (section 6).

## 2. Modules

| Module | What it is |
| --- | --- |
| `TaskExecution` | the consumer: workers, leases, commit guard, heartbeat |
| `FencedEffects` | the abstract promise of the consumer, implemented by `TaskExecution` |
| `DurableDelivery` | the publisher: pumps, reconcile, dead letters, replay |
| `DurableTasks` | both over one database and one broker |
| `ReliableTasks` | the abstract promise of the outbox to whoever commits an intent, implemented by `DurableTasks` |
| `OutboxEnqueue` | `enqueue`: unique key, ON CONFLICT, row locks, rollback, deadlocks |
| `IntentLedger` | the abstract promise of `enqueue`, implemented by `OutboxEnqueue` |
| `OutboxBatch` | `claim_batch`, `mark_published`, `mark_failed` |
| `DownstreamToken` | the shared service token and its lock |
| `OidcCaches` | discovery document and key set under rotation |
| `AuthSessions` | login transactions, sessions, cookies |
| `SchedulerActivity` | the activity file and its reader |
| `WorkerReadiness` | the readiness command of a worker |
| `HealthChecks` | a container of either role with the probe of its role |
| `DurableDeliveryProofs`, `DurableTasksProofs` (with those about `TaskExecution`), `OutboxEnqueueProofs`, `OutboxBatchProofs`, `DownstreamTokenProofs`, `AuthSessionsProofs`, `HealthChecksProofs` (with those about `WorkerReadiness` and `SchedulerActivity`), `OidcCachesProofs` | theorems |
| `MC...` and `*.cfg` | instances for TLC |

Definitions named `X_Fault` before a definition `X` are faulty variants of it.
No specification uses them; each property is tested by putting one of them in
the place of `X`.

### How state and actions correspond to the code

PostgreSQL runs the transactions at READ COMMITTED. Each *statement* is an
action with its own snapshot; a row lock is held until the transaction ends; a
statement that needs a locked row waits (the action is not enabled) or, with
`SKIP LOCKED`, passes it over. Transactions of one statement are one action.

`TaskExecution`. `exec[r]` is the row of `outbox_execution` with resource key
`r` (`topic:aggregate_key`); `rowLock[r]` says whose transaction has it locked.
`inbox` holds the committed receipts and `inboxLock[m]` whose uncommitted
insert blocks the key. `pc[w]` is where `consume` stands in worker `w`:

| `pc` | place in `consume` | actions that leave it |
| --- | --- | --- |
| `idle` | not called | `Consume` |
| `selected` | after the first SELECT | `ClaimBusy`, `ClaimUpsert` |
| `claiming` | upsert done, transaction open | `ClaimGrant`, `ClaimDone` |
| `granted` | claimed, `execute()` starts | `AssertCurrent`, `AssertFails` |
| `handling` | inside the handler | `GuardProgress`, `InsertReceipt`, `GuardFails` |
| `saving` | handler's own commit, past the guard | `CommitProgress` |
| `receipted` | receipt inserted, not committed | `GuardReceipt`, `GuardFails` |
| `committing` | final commit, past the guard | `CommitReceipt` |
| `ending` | the `finally` block, before `release` | `Release` |

From every working state the heartbeat may renew (`Renew`) or find the lease
gone and cancel the work (`RenewFails`); the handler, a statement or the
heartbeat may fail (`WorkFails`); the process may die (`Crash`). A COMMIT cut
short is `CommitReceipt` followed by a failure, or a failure alone. `applied`,
`fence` and `freed` are history: how often final effects committed, the epoch
of the last committed write, and the last epoch that was released.

`DurableDelivery`. `outbox[m]` is the message row; one `deadline` stands for
the instant that matters in its status (`available_at` when pending,
`lease_expires_at` when delivering, `published_at` plus the lease when
published). `dead` holds open dead letters. A pump runs `StartPump`, the
statements of `reconcile` (`ScanExhausted`, `ScanUnacknowledged`,
`CommitReconcile`; `batch` is what its transaction has decided and not
committed), then repeats `SnapshotClaim`, `ClaimDelivery`, `Publish`,
`FinishDelivery` or `FinishTooLate`. The claim is split in two because the
statement's dead-letter subquery sees the snapshot while the message row it
locks is rechecked in its newest version. The per-topic scans of `reconcile`
are one scan over all acknowledged topics. Workers and broker appear only as
`Consumers`.

`DurableTasks`. The variables of both parts; receipts, dead letters, due
messages, hints and the failure budget are shared, and `Executing` (the
messages with a live row, as `active_execution_sql` finds them) takes the
place of the publisher's variable `executing`. What each part treats as its
environment is here the other part. `ReliableTasks` is what those see of it who
commit intents, look at effects and handle dead letters: an intent is committed
when its row exists, ripe when its not-before instant has passed, done when its
receipt is committed, given up while its dead letter is open.

`OutboxEnqueue`. `table` is what is committed of `outbox_message` by
deduplication key, `mine[t]` what an open transaction has inserted, `lock[k]`
who holds the row of a key, `call[t]` the call it is executing and `answers[t]`
what its calls returned. The one statement is INSERT ... ON CONFLICT DO UPDATE.
It waits while another transaction holds the key (no action is enabled), then
inserts (`Insert`), finds the same intent (`Match`) or another one (`Refuse`,
a `ValueError`); DO UPDATE locks the row in both cases of a conflict. A
transaction may go on after an answer, commit or roll back at any point;
`DeadlockAbort` is the rollback of one that waits in a circle.

`OutboxBatch`. `now[o]` is `NOW()` of a publisher's transaction, fixed by
`Begin`; `clock` is `clock_timestamp()` and goes on (`Tick`). `draft[o]` holds
the rows a transaction has rewritten and thereby locked. `Commit` makes them
rows, answers a claim with its batch, unless the answer is lost, and remembers
grants that were over by then (`overdue`, history). `batch[o]` are the claims a
publisher believes it has: pairs of a message and its `attempt_count`. Nothing
in the code keeps a publisher from calling `claim_batch` while it has some, so
nothing in the model does; `again` (history) marks those whose message it has
claimed once more. `Mark` is told the message only, as in the code; `recording`
remembers which claim the outcome was meant for. A publisher name has one
transaction at a time.

`DownstreamToken`. `RequestJson` is the first check of the cached token,
`Acquire` the lock with the second check, `Issue` the instant the provider
issues a token, `Receive` the instant the client stores it with the lifetime it
was told, or without one. Every waiter may be cancelled (`CancelWaiter`), every
exchange may fail or be cancelled (`ExchangeFails`). `delay` and `overstated`
(history) are what the answer's way and the assumed lifetime add to the real end.

`OidcCaches`. `Ask` reads the clock and sends, `Reply` is the provider's answer,
`Receive` stores it and uses it. Several calls do this at once. `Use` and
`Decode` decide what comes next: a post, the keys, one forced refresh, an end.

`AuthSessions`. `pc[r]` is where request `r` waits between two awaits of a
handler: `url`, `abandon` (`begin_login`), `take`, `exchange`, `upsert`, `commit`,
`create` (`complete_login`), `cancel`, `read` (`/me`), `check`, `end`
(`/logout`). All logins are of one user at the provider, whose row of
`auth_user` is `directory`; `rowLock` is the request whose open transaction has
written it, `user[r]` the row that RETURNING gave request `r`, from which the
session is made, and `principal[s]` what a session says. A browser's cookies
change when a response arrives; a response can be lost (`ResponseLost`) and a
request given up anywhere (`GiveUp`), which rolls its transaction back unless
the COMMIT has happened. `starter` and `taker` are history, and so is the code a
principal names.

`SchedulerActivity`. `Sample` and `Write` are the two halves of a throttled
write, `Read`, `CheckAge`, `CheckProcess` and `Answer` the steps of
`read_activity`; process exits, pid reuse, SIGSTOP, suspended time, failed
writes and reboots happen between any two of them.

`WorkerReadiness`. `Broadcast`, `Reply`, `Return` are one control query, done
first for queues and then for tasks; `Kill` is the deadline of the child.
`held`, `together` and `steady` are what an observer of the node would note.

`HealthChecks`. `role` says what a container runs. A worker's container takes
the steps of `WorkerReadiness`, a scheduler's those of `SchedulerActivity`; the
other part stands still.

### Abstractions

* In the modules of tasks and delivery time is not a number. A lease is fresh, aging, lapsed or released; a deadline
  is ahead or past. Any clock, including one that steps back, is one of the
  behaviours for leases and deadlines. `-infinity` is a state of its own that no
  clock step changes.
* A not-before instant that passed stays passed (`BecomeDue`).
  `delivery_schedule.py:10` compares it with `clock_timestamp()` in every
  statement, so after a step back a message would not be due again for a while.
  `docs/delivery-clock-semantics.md` promises nothing about schedules under such
  steps, and neither do the models.
* The owner uuid of a lease is the worker with the epoch: one worker is granted
  an epoch once.
* Message contents, topics and handlers are left open: a handler commits
  progress any number of times, fails, hangs or returns. A handler that catches
  `DeliveryLeaseLost` or its cancellation and carries on is not modelled.
* Attempts saturate one above the limit; the code only compares them with it.
* Dead-letter rows are locked in the code only under the lock of their message
  row, so they have no lock of their own here.
* Secrets are unique, so the transaction they were made for stands for them in
  `AuthSessions`. One surface is enough, as the other has other names for keys
  and cookies.
* What a verification of claims, an account policy or a validation decides is
  an outcome (accepted or not) in `AuthSessions` and `OidcCaches`.
* `OidcCaches` has an action for every step between awaits, more interleavings
  than the event loop has.
* `Forged` stands in `OidcCaches` for every token that no key set can decode:
  of another signature, malformed, of a wrong algorithm. `jwt.decode` raises for
  all of them, and they are tried once more with a refreshed set. A token that
  was decoded and fails its claims ends at once, as any other call that raises.
* The Python clients measure a lifetime from the arrival of an answer. How long
  that took is unbounded in `DownstreamToken`: `auth_http_timeout_seconds` may be
  60 and httpx counts it per phase, while the margin is 30 seconds. So a token
  may be used past its end, and the property says by how much.
* A pump stops at its limit of 100 messages; in the model it may stop at any
  moment, or go on as long as there is something to claim.

## 3. Runs

| Run | Instance | Shows |
| --- | --- | --- |
| `TaskExecution.cfg` | 2 messages of one aggregate, 2 workers, 3 faults | type invariant, `EffectsMatchReceipts`, `GuardHoldsToCommit`, `CurrentOwnerHasWork`, `ReleasedStaysReleased`, `WritesInEpochOrder`, `OnlyOwnersRelease`, refinement of `FencedEffects` |
| `TaskExecutionLive.cfg` | 2 messages of one aggregate, 2 workers, 1 fault | `DeposedWorkersStop`, with handlers that may never return; `EveryDueMessageIsExecuted`, for handlers that do |
| `DurableDelivery.cfg` | an acknowledged and a scheduled unacknowledged message, 2 pumps, 1 attempt, 1 fault | type invariant, `DeadLettersAreExhausted`, `OnlyPublisherEndsDelivery` |
| `DurableDeliveryLive.cfg` | 1 message, 2 pumps, 2 attempts, 1 fault | `EveryMessageSettles` |
| `DurableDeliveryLimit.cfg` | 1 message, 2 pumps, 2 attempts, 2 faults | `AttemptsWithinLimit` is violated |
| `DurableTasks.cfg` | 1 scheduled message, 1 worker, 1 pump, 2 attempts, 2 faults | both parts' specifications are implemented (`WorkersFollowProtocol`, `PumpsFollowProtocol`); the whole implements `ReliableTasks` (`ImplementsReliableTasks`); `EveryIntentSettles`, for handlers that return |
| `OutboxEnqueue.cfg` | 2 transactions, 2 keys, intents with and without a not-before instant | `RefusalsAreJustified`, refinement of `IntentLedger`, `EveryCallReturns` |
| `OutboxBatch.cfg` | 2 messages, one due later, 2 publishers, leases of 1 in 4 instants | `MarksOwnClaim`, `NoTakeoverOfLiveLease`, `OverdueGrantsRecordNothing` |
| `DownstreamToken.cfg` | 3 callers, lifetimes of 0, 3 and 9 with a margin of 2 and a maximum of 6, stated or not, 8 instants | `StaleTokensAreBounded`, `ExchangesAreNeeded`, `EveryRequestEnds` |
| `OidcCaches.cfg` | 2 callers, every operation, 1 key, cache of 1 in 2 instants | `RetiredKeysExpire`, `CurrentKeysVerify` |
| `AuthSessions.cfg` | 2 browsers, 2 logins, 2 requests, 2 roles | `OneSessionPerLogin`, `LoginsAreOnesOwn`, `SessionsCarryTheirClaims`, `LogoutsEndTheirOwn` |
| `HealthChecks.cfg` | 2 workers of one name; 1 pid used twice, 2 boots, every fault, 2 instants | type invariant, `ReadyWasTrue`, `ReadyWasTrueAtOnce`, `EveryProbeEnds`, `AnswersAreAboutTheRunningBeat`, `HungBeatsAreNoticed`, `AnswersNeverGoBack` |

The type invariants of `OutboxEnqueue`, `OutboxBatch`, `DownstreamToken`,
`OidcCaches` and `AuthSessions`, and `OneExchangeAtATime`, are proved and need
no run.

Bounds. In the runs of tasks and delivery `MaxFaults` is the only bound on
behaviours: a budget for handler
failures, crashes, starved heartbeats, slow publishes, redeliveries and clock
steps; leases may expire of deposed and dead workers without touching it. Two
workers are enough for a takeover, and with three faults the first owner can
be deposed, come back as the successor's successor and meet its own old lease.
Resources do not interact, so one is enough; two messages on it make epochs of
different messages follow each other. Two pumps are enough for one to take
over from the other, and `MaxAttempts` of one or two puts the limit within
reach of the budget. Epochs are not bounded, but in the runs they stay finite
because an epoch is spent by a failure, a lost lease or a completed message.

`DurableTasks` has one worker and one pump. That the parts keep their protocols
with any number of them is proved; what the run adds is the way of one intent
through the whole system, with every loss and crash on it. Two attempts make
`reconcile` requeue a message that was published and not executed, and a failed
publish go back to pending, before the dead letter.

`EveryMessageSettles` is checked with one message, and would fail with two: an
operator may replay the one again and again, and a pump that only the limit of
100 messages stops could serve it for ever while the other's turn at `reconcile`
never comes. The limit is not modelled (section 2), so the property is
one of a message that pumps have time for.

Elsewhere the bounds are these. In `OutboxEnqueue` two transactions with two
keys can wait for each other, and one can wait for the place of the other and
get it when that rolls back. `OutboxBatch` has room for a lease to be granted,
to end and to be taken over or claimed again by its owner (`MaxClock`), also by
a transaction that began before the end; bodies and the not-before instants that
are not reached play no part. In `DownstreamToken` a lifetime is zero, above the
margin, or above what the client accepts, an unstated one is assumed shorter or
longer than it is, and an answer can take longer than the margin; three callers
are an owner, a waiter and one who finds the token. In `OidcCaches` two requests
can overtake each other; with a period of one and two instants an entry can be
used, run out and be renewed. One key is enough, as keys do not interact. In
`AuthSessions` two of everything give every race of two requests; a third
browser adds nothing to a property about one browser and one login. In
`HealthChecks` the second worker is the successor or the double of the first;
one pid that is used again is the interesting case for Beat, and two boots give
equal start times; counters are bounded by `MaxCount`, `MaxPublish`, `MaxStarts`
and `MaxTime`. `Window` and `Budget` are the reply window and the parent's
deadline of the worker's probe.

### What was found

`AttemptsWithinLimit` says what `docs/durable-delivery-luna.md:28` and the
comment at `durable_delivery.py:117` say: repeated claims are bounded by
`max_attempts`. In the code `claim_delivery` does not look at `attempt_count`;
`reconcile` and `finish_delivery` do. The counterexample: a pump claims, the
publish outlasts the delivery lease, `finish_delivery` raises
`DeliveryLeaseLost`, which `pump` ignores, and the next iteration of the same
pump claims the message again although its attempts are used up. The next
`reconcile` opens the dead letter, so the limit is late, not absent:
`EveryMessageSettles` holds.

Two behaviours that are not errors but surprise: a message can be dead-lettered
although its receipt has just committed (`reconcile` does not look again before
it commits), and messages of one aggregate use up each other's attempts, as a
hint that meets a busy resource is dropped.

### Fairness

`SystemSpec` assumes what the code and PostgreSQL do unaided: a worker inside a
transaction executes its next statement, the heartbeat fires, an unattended
lease runs out. It is strong fairness because a row is locked and unlocked again
and again and PostgreSQL serves its lock queues in order. `DeposedWorkersStop`
needs no more. `EveryDueMessageIsExecuted` names its own conditions: handlers
return (`HandlersReturn`), and hints keep coming for a message that is due and
not acknowledged (`HintsRecur`). The second is discharged in `DurableTasks`: there,
hints come only from pumps, pumps from the scheduler (every five seconds, weak
fairness of `StartPump`), and a pump that can claim or record does so.
`EveryMessageSettles` assumes that executions of the message do not go on for
ever. `EveryIntentSettles` names the condition that this comes down to in the
whole system: handlers return (`AllHandlersReturn`). The code does not see to it.
A handler has no timeout; while it hangs its heartbeat renews the lease and
`reconcile` sees an active execution, so its message is neither done nor given
up. `SystemFair` assumes nothing of handlers. In every liveness run only finitely many
failures happen (`MaxFaults`); with infinitely many nothing could be promised.

The other liveness properties assume weak fairness of what runs by itself.
Transactions of `OutboxEnqueue` go on to their end (strong fairness of `Commit`,
as calls come between) and PostgreSQL resolves deadlocks. A request of
`DownstreamToken` ends because httpx has timeouts; the command of
`WorkerReadiness` because the parent's clock runs and kills the child: nothing
is assumed of the broker there.

## 4. Proofs

Every safety invariant, action property and refinement that a passing run
checks is also a theorem. The theorems hold for all sets of messages, workers,
pumps, resources, callers, keys, browsers and process numbers, and for all
bounds, lifetimes and limits. What they assume of the constants is named in the
module that declares them: `ResourceOf` maps messages to resources, `None` is
nothing else, messages are numbers (the claim's order), bounds are natural
numbers, and those that would make the code meaningless at zero (`MaxAttempts`,
`CacheSeconds`, `MaxAge`) are positive. TLC evaluates these assumptions in each
run.

`DurableTasksProofs`, the consumer. No invariant of `TaskExecution` is inductive
alone. `Inv` joins:
types; `Jobs` (a worker inside `consume` has a message); `Locks` (who holds a
row lock follows from the program counters, both ways); `Epochs` (writes and
releases carry epochs that were handed out); and the properties themselves.
The argument: past the guard a worker holds the row lock, a claim must hold it
to replace the row, so the row is still the worker's at COMMIT. A message
completes only there; a claim reads the inbox under the same lock, so an owner
always has undone work, hence no message completes twice. The action
properties and the refinement follow from `Inv` and the frame lemmas
(`GrantChanges`, `WorkerFrame`, `WritesFrame`, `FreedFrame`).

`DurableDeliveryProofs`. `BatchIsLocked`: what an open reconcile transaction
decided about a row stays justified as it holds the row's lock.
`AttemptIsCurrent`: the `attempt_count` a publisher read is the row's own while
the delivery is its own. From these, dead letters are justified.

`DurableTasksProofs`, the parts. Every step of the composed system is a step of
`TaskExecution` (`WorkersKeepProtocol`) and of `DurableDelivery`
(`PumpsKeepProtocol`). So theorems about the parts hold of the whole:
`EffectsOnceEndToEnd`, `DeadLettersEndToEnd` and `DeliveriesEndToEnd` say so of
the most important ones. The proof about pumps uses the
consumer's invariant, and needs `Consumers` to allow the lease of a row to pass
from one message to another in one step: a clock step can make the old lease
live again while a claim holds the row. The last two theorems instantiate
`DurableDeliveryProofs`; `SamePublisher` says that its copy of the
specification is the one `DurableTasks` is composed of.

`DurableTasksProofs`, the promise. `PromiseKept`: the composed system implements
`ReliableTasks`. Effects and receipt become durable in one step, once: that is
the consumer's invariant. That only committed intents are executed or given up,
and none is executed before its time, is an
invariant over the whole path (`Origins`): an id enters a snapshot, a
reconcile's batch or a pump's hands from a committed row, a hint from a pump
that published a due message, a worker's job from a hint; rows are never taken
back and a not-before instant that passed stays passed, so what was true where
the id set out is true where it arrives. Then every step of pumps, broker,
workers, clocks and crashes is a step of the promise or none
(`PumpGivesUp`, `MessageRefines`, `WorkersRefine`). From the promise alone
follows `NothingUncommitted`: a receipt or an open dead letter has a committed row.

`OutboxEnqueueProofs`. A row is written by the one open transaction that holds
its key, and a call that was answered names the committed row or the caller's
own. From this every step is a step of `IntentLedger`: one entry per key, never
replaced. Assumes that `None` is not a row.

`OutboxBatchProofs`. `DraftsFollowRows`: what a draft was computed from is still
the row, as nobody else rewrites it. `BatchesAreCurrent`: as long as a row names
a publisher that holds a claim of it, that claim is the row's current one, or the
publisher has claimed the message again. `OverdueStaysUnmarked`: a grant that was over when it
committed has a lease behind the clock, and clocks do not step back. Rows carry
no claim number: an outcome never touches the claim of another publisher, but it
may end a later claim of the same one.

`DownstreamTokenProofs`. `DatedLate`: a token is dated late by no more than its
`delay` and what the assumed lifetime exceeds the real one by; the margin is
taken off that (`BoundedStaleness`). `FlightIsOwned`: a token is on its way only
while somebody owns the lock. Nothing is assumed of delays or lifetimes.

`AuthSessionsProofs`. Ownership goes from hand to hand: the cookie of a browser
names a login that it began, so does its request (`RequestsAreOwn`), and so do
the session and its cookie (`CookiesAreOwn`). `TakenOnce`: a stored login has
no taker, so its taker never changes. `CodesAreOwn`: past the comparison of the
states a request has the code of its own login, and so has its session.
`UserIsOne`: who has written the user's row holds its lock, so what it commits
names the user that was on record, if any; a request keeps the row it was handed
back while others overwrite it. `LogoutsAreChecked` carries the CSRF check
over the gap before the session is ended.

`OidcCachesProofs`. `SetsAreDated`: a key in a cached set, or in an answer on its
way, had not been withdrawn at the set's date, the instant the clock was read
before the request. The provider makes this true of an answer, and storing the
answer under that date keeps it, in whatever order answers arrive; so a set that
overwrites a newer one still dies with its own date, and a withdrawn key
verifies nothing that begins a cache period later (`WithdrawnExpire`).
`CurrentAreAnswered`: a verification that began while its key was published
finds the key in any answer to a request of its own, unless it is withdrawn
meanwhile; and only such an answer can refuse it (`CurrentVerify`). Assumes that
the forged key is no key of the provider.

`HealthChecksProofs`, workers. `Noted`: the observer has the facts of every state
of the probe, so replies are among them. `OneWorker`: a worker that stays up keeps
its tasks, so if the second reply shows them all they were there at the first.
Assumes finitely many workers and at least one registered task.

`HealthChecksProofs`, schedulers. `StartsAreUnique`: no two processes of one boot
have one start time, so a process with the number and the start time of a
snapshot is the one that wrote it. `Known` is what holds of every snapshot ever
written, also one that is being read while it is replaced: its author, if it
still runs, has counted at least what the snapshot says, and has been quiet for
no longer than since its tick. `RecordsAreInOrder`: an answer was written no
later than the snapshot being read, and that no later than the file. The checks
of the reader stay true until it answers, as a reboot ends it (`ChecksHold`).
From these an accepted snapshot is about the Beat that runs, a silent loop is
noticed, and answers count upwards. A container takes the steps of one role, so
what is proved of a role holds of containers.

The `Types` theorems, `OneExchange`, the three theorems named `...EndToEnd` and
`NothingUncommitted` are stated without a run of their own: their definitions are checked as parts of other runs or follow from what is.

Only model-checked: the liveness properties (`EveryDueMessageIsExecuted`,
`DeposedWorkersStop`, `EveryMessageSettles`, `EveryIntentSettles`,
`EveryCallReturns`, `EveryRequestEnds`, `EveryProbeEnds`), because fairness and
ENABLED are beyond the prover, and that `AttemptsWithinLimit` fails. The faulty
variants are only run.

## 5. Plan

The modules planned are written. What would be worth adding next, in this order:

1. `IntentLedger` as the source of `Commit` in `ReliableTasks`: one promise from
   the deduplication key to the effects.
2. The limit of a pump, and `EveryMessageSettles` with two messages.
3. Hung handlers, as a question to the owners of the handlers: an intent settles
   only if each of them has a timeout of its own.

## 6. Not modelled

* Delivery observation and metrics only read. Their gauges are counts over the
  rows that `DurableDelivery` changes, taken in one REPEATABLE READ transaction;
  the single slot for a collection is taken and returned within one handler.
* Web interactions: the adapter is a deterministic reference without stored
  runs, or always unavailable. Snapshots and events are computed from constants,
  and resuming compares the cursors a browser sends. The server keeps nothing.
* API bootstrap and the readiness route: start-up has a fixed order, and the
  route asks Redis and PostgreSQL afresh under one timeout.
* Configuration: checks of the environment at start. A wrong combination of
  settings is a matter of one input; no order of steps produces it.
* Error mapping, response headers, the audit context and cross-application
  links keep no state between requests.
* The DDL of the migrations; the models take its tables and constraints as
  given.
* The type, owner, size and fields of the activity file: the file of the model
  is well formed.
* The command line around `replay` and the Celery application: argument parsing
  and declarations; their effects are `Replay` and the schedule of `StartPump`.
* `pair_fixture.py`, the delivery runtime probe, provisioning and image scripts
  drive outside tools.
* Celery, RabbitMQ, PostgreSQL, Redis, httpx and the identity provider are
  modelled only by what this code uses of them.
* Four hazards have no property. Of three the code makes no promise: a receipt
  that commits between the scan and the commit of `reconcile`, messages of one
  aggregate that use up each other's attempts, and a session whose cookie never
  arrived (nobody knows its id and it expires). The collection slot of the
  metrics is outside the models.
