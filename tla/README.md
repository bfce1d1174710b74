# A verification development for CAP for Node.js

CAP (`libs/cap-core` and its adapters) persists produced messages in an *outbox*
before they are emitted and consumed messages in an *inbox* before their handler
runs. This directory holds TLA+ models of the protocols behind that promise - the
engine, the storages, the broker adapters, the Express runtime - and of the
repository's own release and validation tools, the TLC configurations that check
them on small instances, and TLAPS proofs of the properties that matter most for
every instance.

Paths below are relative to the repository root. Run `tlc -config X.cfg M` and
`tlapm M.tla` in this directory; `PROJECT.json` names the module of each `.cfg`.

## 1. The system's parts

| Part | State | Operations | What is hard about it | What makes it correct |
|---|---|---|---|---|
| Outbox dispatch (`cap-core/src/engine/cap-engine.ts`, `utils/active-lease-heartbeat.util.ts`) | the outbox table; each round's claim token, batch, in-flight renewal | release expired, claim, renew, emit, mark published / failed | several processes on one table, leases, clocks, crashes, lost acknowledgements | nothing is marked published unseen by the broker; a claim token fences every write; every message ends |
| Immediate publish (same file) | the `publish()` call in progress | save, emit, mark | its row is visible to schedulers while it emits, and its writes carry no token | bounded damage: who can revive a published row, who can break a live claim |
| Storages (`cap-storage-{knex,typeorm,prisma,mikro-orm}`, in-memory) | the two tables, row locks, open transactions | claim, renew, mark, release, save if new, retry due, requeue, list, snapshot | one contract over five ways to write it and four dialects; a claim and a save are several statements | a held lease is owned; one inserter per key; each call does what the contract tests ask |
| Transactions (`*-transaction-manager.ts`) | callback lists, async context | run, commit, rollback | work after the commit point that fails | publish joins the caller's commit |
| Scheduler (`cap-scheduler.ts`, Nest cron) | timers, the running round | start, stop, run once | ticks during a round, stop during a round | one round at a time per instance, none after stop |
| Inbox (`cap-engine.ts`, received storages) | the inbox table; handler executions | save if new, handle, mark, retry due | duplicates, slow handlers against the fallback window, unfenced writes | one row per delivery identity, retries bounded, processed work recorded |
| Subscription lifecycle (`cap-engine.ts`) | lifecycle state, descriptors, shared promises | register, start, stop, subscribe | start, stop and subscribe overlap at every await | no attachment survives a stop, ready means attached |
| Express runtime (`cap-express/src/create-cap-express.ts`) | `startPromise`, `stopPromise`, `started`, `cap.ready` | start, stop, subscribe | its queued start and stop run microtasks apart from the engine's promises | readiness of the right cycle; a stopped application is quiet |
| Dashboard (`cap-dashboard-core`) | none of its own | flush, retry, mark | operators act on rows workers hold | same claim protocol for flush; unconditional writes for the rest |
| RabbitMQ (`cap-transport-rabbitmq`) | connection, channel, consumers, recovery loop; confirms in flight | initialize, consume, emit, recover, close | a connection lost at any await, two loops that connect, tags of an old channel | acknowledge only what was handled; recover subscriptions; every emit settles |
| Kafka (`cap-transport-kafka`) | registry of consumers per group; producer | consume, dispatch, close; initialize, emit | rebalances and commits during a handler; two `consume()` of one group | commit only what was handled; no partition is stuck |
| SNS / SQS (`cap-transport-aws-sns-sqs`) | queue policy, poll loops | provision, poll, delete, drain | visibility timeouts, a policy shared by topics | delete only what was handled; provisioned topics stay allowed |
| Service Bus (`cap-transport-azure-servicebus`) | receivers, senders | provision, process, complete / abandon, close | lost locks, provisioning while closing | complete only what was handled; no receiver left open |
| NestJS (`cap-nest`, `cap-transport-nestjs-microservices`) | none of their own | delegate | Nest's hooks | delegation |
| Envelope, message id, dedupe key | none | encode, decode | mixed header sources | stable identity |
| Workspace graph and affected validation (`tools/`) | dependency graph, plan, gates | classify, select, order, run | a change that reaches a package through others | what a change can break is built first and tested |
| Release tool (`tools/release-tool.js`, `release.yml`) | plan, npm, tags, GitHub Releases | plan, refresh, publish, verify, tag, release | a job that fails between any two of its writes and is run again, main moving on | only the approved plan is tagged; a failed release can be finished |

`PROJECT.json` lists every part with its status, and under `hazards` each place
in the code where one of these things can go wrong.

Interaction. `publish()` and the scheduler's rounds meet in the outbox table; the
transport's callback and the retry rounds meet in the inbox table; operators of the
dashboard meet both. The engine calls transports through two ports
(`PublisherPort`, `SubscriberPort`) and storages through two more, and shares no
memory with them. The runtimes call the engine's start and stop and own the
scheduler's timers.

## 2. The modules

| Module | Models |
|---|---|
| `Backoff` | `expJitter`: the set of delays a retry may get |
| `PublishStorage` | one outbox row and the conditional updates on it (the statements of Knex) |
| `Outbox` | transactions, workers (scheduler rounds and dashboard flushes), the broker, crashes, requeues, clocks |
| `OutboxPromise` | the abstract specification of the outbox: queued, done, dead |
| `OutboxTimely` | `Outbox` under prompt heartbeats, with the timers and the fairness of the scheduler |
| `OutboxDirect` | `Outbox` plus `publish()` calls that emit themselves and the dashboard's unfenced actions |
| `OutboxProofs`, `OutboxTimelyProofs`, `OutboxDirectProofs` | theorems about `Outbox`, `OutboxTimely` and `OutboxDirect` |
| `ReceivedStorage` | one inbox row and the updates on it (the statements of Knex) |
| `Inbox` | deliveries, handler executions, retry rounds, dashboard operators, crashes |
| `InboxLive` | `Inbox` with the scheduler's timers, a redelivering broker and endless time |
| `InboxProofs` | theorems about `Inbox` |
| `SubscriptionLifecycle` | register, start, stop and subscribe over a subscriber that settles or fails |
| `CapExpress` | the Express application and the scheduler's timers above `SubscriptionLifecycle` |
| `CapExpressProofs` | theorems about `SubscriptionLifecycle` and `CapExpress` |
| `SqlDatabase` | what the adapters rely on in the databases: NULL, the order of assignments, grouping, paging |
| `TypeOrmStorage`, `PrismaStorage`, `MikroStorage`, `MemoryStorage` | the statements of each library per dialect, as predicates and updates of a row |
| `StorageContract` | what the contract tests of `cap-testing` ask of one storage call |
| `Storages` | every library on its databases, their statements interleaved under row locks |
| `StoragesProofs` | theorems about `Storages` |
| `RabbitSubscriber`, `RabbitPublisher` | the two sides of the RabbitMQ adapter and their retry loops |
| `KafkaSubscriber` | consumer groups, deliveries, commits and rebalances |
| `SqsSubscriber` | provisioning, poll loops, visibility and drain |
| `ServiceBusSubscriber` | provisioning, receivers, locks and settlement |
| `DirectPublisher` | the Kafka, SNS and Service Bus publishers, which hold a client and send over it |
| `Transports` | one adapter at a time under one set of promises |
| `TransportsProofs` | theorems about the five adapters and `Transports` |
| `WorkspaceGraph` | the dependency graph, its cycle check and its topological order |
| `AffectedValidation` | from changed files to the plan of a pull request and its gates |
| `Release` | bootstrap and prepared releases: plan, npm, tags, GitHub Releases |
| `Tools` | one validation or one history of releases |
| `ToolsProofs` | theorems about `WorkspaceGraph`, `AffectedValidation`, `Release` and `Tools` |
| `MCOutbox`, `MCOutboxTimely`, `MCOutboxDirect`, `MCInbox`, `MCSubscriptionLifecycle`, `MCStorages`, `MCTransports`, `MCRabbitSubscriber`, `MCTools` | constants for TLC |

`Outbox` and `Inbox` are built on the row modules and on `Backoff`; `OutboxTimely`,
`OutboxDirect`, `InboxLive` and `CapExpress` extend the module they are about and
reuse its actions. `Outbox` refines `OutboxPromise`
(`Promise == INSTANCE OutboxPromise WITH ...`). `Storages` instantiates the row
modules, the four statement modules and the contract, so the rows the engine's models
work on are the rows the adapters are shown to keep. Definitions whose name ends in a
suffix after an underscore (`FailedRow_early`) are wrong variants of the definition
they precede; each breaks a property, and none is used by a specification.

### How the state and the actions correspond to the code

A storage call is one atomic step at the database. Between two `await`s a worker
runs alone, so one action stands for everything from one reply to the next call.
What a call captured before it was sent is state: `workers[w].at` is the `now`
that `dispatchOutboxBatch` reads once and uses for the release, the claim and the
lease, and `workers[w].beat` the `now` of an in-flight renewal. That is how a
slow database makes a lease shorter than it looks.

`workers[w].pc` is the await the worker is in. `Proceed` ends the handling of one
event: the loop goes on to the next one, whose renewal is sent at once.
`HeartbeatFires` and `HeartbeatRenews` split the renewal timer from the execution
of its call, so that the emit may settle between the two; the worker then waits
for the renewal (`if (inFlightRenewal) await inFlightRenewal`), which is why
the completion actions require `beat = NoTime`.

A fault is either a crash or a storage call that throws. A call may throw after
it was executed (`Executed`) or before (`Crash`): the round is over and its claims stay
in the table, as they do when `CapScheduler` logs the error and returns 0. A renewal
that throws, executed or not (`RenewalFails`), tells its worker that the claim is lost,
and the round goes on to the next event; the lease may be the longer one all the same.

`rows[m]` is the row other connections see, so a row inserted by an open
transaction is still absent. `copies` and `rejects` are history: what the broker
accepted and refused. They saturate at `MaxSeen`.

Abstractions: payloads, headers, errors and diagnostics are left out; ids are
numbers in the order of `created_at`; `now` is the slowest clock and `Skew` how
far each worker's runs ahead; a `setInterval` tick that finds a round running
does nothing and has no action; `MaxRetries` is at least 1, which the code does
not validate. In the engine's models a claim is one step; `Storages` takes it apart.

### The inbox

A runner is one execution: of the transport's `consume()` callback (Consumers), of
`retryInboxBatch` (Retriers) or of `DashboardService.retryInbox` (Operators).
`runs[e].pc` is the await it is in and `runs[e].rec` the record as it was read,
which is what `tryHandle` goes by. `markReceivedFailed` is two statements in every
SQL adapter and so two actions, `ReadForFailure` and `WriteFailure`, with the count
it read in `held`. `MarkProcessed` may execute and still throw, in which case the
catch clause of `tryHandle` records a failure. `Finish` is what follows
`tryHandle`: an acknowledgement, the next record of the batch, or a reply.

The unique key (group, dedupe key) makes `trySaveReceived` one step: insert, or
"duplicate" (`Storages` shows it for the statements the adapters send). A duplicate
is acknowledged and its handler is not run. A message without a message id gets a
fresh key at each delivery and is several messages of the model. Each execution has the
clock of its process (`Clock`; those in `Ahead` run `Drift` ahead): the fallback window is
measured from the consumer's `created_at` to the retry round's `now`, so it is shorter by
what the latter's clock is ahead (`Lapsed`). `getRetryDue` returns
rows in the order of its ORDER BY; a row whose handler is gone (`Orphans`) keeps its
place in the batch and is skipped without a write. `handled`, `failures` and `marked`
are history. "processing" is a declared status of received records that no code
writes; it is not in the model.

### The subscription lifecycle

`starter` is `startPromise` and `stopper` is `stopPromise`: absent, in one of the
awaits of `doStartSubscriptions` or `doStop`, or settled with the `finally` clause
still to run. Between settling a promise and clearing it lies a microtask, and
between clearing it and the resumption of a stop that awaited it another one;
`StartCleared`, `StopResumes` and `StopCleared` are those microtasks. `callers`
says what each caller awaits; "again" is a start that waited for a stop and is
about to call `startSubscriptions` once more.

`style` is how the application calls the engine, fixed for a behaviour. With
"tasks" every call comes from a task of its own (a signal handler, a request, a
timer), so never between two microtasks. With "continuations" calls come at any
point. "dynamic" also uses `subscribe()`. Which properties are stated for which
style is part of what the model says, see section 6.

### The Express application

`app` says who drives the engine: the application itself ("engine", the behaviours of
`SubscriptionLifecycle`) or `createCapExpress`. `opening` and `closing` are its
`startPromise` and `stopPromise`; `started`, `initialized` and `readiness` are its
variables of those names (`readiness` is what `cap.ready` points to), `users` the
callers of `cap.start()` and `cap.stop()`, and `timers` and `running` the
`setInterval` timers and the rounds in flight of `CapScheduler`. `Rounds` are the
loops that are enabled; a disabled scheduler is a behaviour in which they do nothing.

Between two awaits of `thisStart` and `thisStop` lies one action. `EngineStarted` and
`EngineStopped` are the moment the engine's promise is cleared and its awaiter runs;
`StartSettles` is the rest of `thisStart` with the reactions queued behind it in FIFO
order: the `finally` clause, the callers, and a stop that waited for it, which stops
the scheduler's timers in the same turn. `Drained` is the end of the rounds
`scheduler.stop()` waits for. The initialization of the adapters
(`Promise.all`) is one await that resolves or rejects, and `autoStart` is a start.
A stop that waits for a start may find another start behind it: stop, start, stop
leaves the application running, since the start is queued behind the stop that both
stops share. The comments in the code call that the final state, so no property
refuses it.

### The storages

`site` is the library and the database of a behaviour. A claim is the SELECT that
reads (and with `FOR UPDATE SKIP LOCKED` locks) the due rows, the UPDATE, and the
commit; a SELECT is READ COMMITTED and sees no uncommitted write; a blocked UPDATE
waits for the lock. MikroORM reads entities, changes them and flushes: the UPDATE
sets only the fields that differ from what was read (`Flushed`), which is not the
same as writing them all. MySQL and MariaDB evaluate assignments from left to right,
which the statements of `retry_count` depend on (`SeenAfterCount`). A received save is the
insert, the unique violation, the lookup that follows, and a commit or rollback of
the caller's transaction; its answer may be lost after the row was written (`SaveInsert`).
The other libraries reject then; MikroORM catches every error of its flush, looks the row
up and takes its own for a duplicate (`mikro-received-storage.ts:95-111`), so that the
message is acknowledged with its handler not run and left to the retry of pending rows.
`held` is history: the leases that claims returned and that no call has completed. The
clock is one for all processes here; skew is the subject of `Outbox` and `Inbox`.

`Loads` are the rows a behaviour begins with: messages of one date or two, or deliveries
of one key or two. The listings order by `created_at` alone, so rows of one date may come
in any order, and in another one on the next page (`SqlDatabase`); the count and the page
are two statements, which agree while nothing is written between them.

`CallsHonourContract` compares each call with `StorageContract`, which is translated
from the assertions of the contract tests, not from any adapter.

### The broker adapters

Each module has the awaits of its class as `pc` values and the broker as far as the
adapter can tell: which deliveries are outstanding under which link, tag, handle or
lock, which are settled. A link, client, receiver or consumer gets a new number each
time the code makes one, so that one that is overwritten is seen to be lost. Message
bodies are good or malformed; `Malformed`, `Unreadable` and `Foreign` say which.
Timers (reconnect delay, emit timeout, poll interval) are actions that may always fire.

What is told to close may fail to: the Kafka and Service Bus adapters drop an object from
their registry although its `disconnect()` or `close()` was rejected (`kafka-subscriber.ts:86-87` and
`:135-147`, `kafka-publisher.ts:89-92`, `servicebus-publisher.ts:86-94`). Such an object
is open and out of reach: `stranded` in `KafkaSubscriber` and `DirectPublisher`,
`unclosed` in `ServiceBusSubscriber`.

`RabbitSubscriber` has the loops of `initialize()` and `scheduleRecovery()`, each with the
attempts it has left: after `reconnect.attempts` (`Attempts`) failures a loop gives up for
good. The consumer tag a subscription has is kept with its group, whichever link gave it
out (`tagged`). Nothing keeps the loops apart: a `consume()` that finds no channel, from a
start or from `engine.subscribe()`, connects beside the recovery. The constant `Overlap`
says whether a behaviour is followed after that: in the `transports` run it ends there
(FALSE), `rabbit_overlap` goes on (TRUE) and shows a defect.
`Loads` and `MaxFaults` trade messages for faults: two without a message, so that a link
may be lost again while its successor restores subscriptions, one with two messages.

### The tools

`AffectedValidation` reduces a changed file to its kind - which list or pattern of
`affected-validation.js` it matches and which package owns it - and keeps everything
the script decides from there: seeds, the closure over dependants, the packages to
build, test and pack, the jobs and their order. `WorkspaceGraph` is Kahn's algorithm
with the name order the code sorts by, over any graph. The run of a plan is two places:
`gate` in the order of the gates, `turn` in the order of the packages that a gate goes
through one by one.

`Release` has npm, the tags and the GitHub Releases as the state that outlives a job,
and a job as a program counter over `release-tool.js` and the steps of the workflow.
A commit is a number, a package is either touched or prepared by it. npm shows a
version some time after it accepted it. A bootstrap plan names the tags it `moves`; run
again after such a tag was pushed, the job fails at `git tag -a`, which finds the tag
(`AlreadyMoved`, `release-tool.js:2006-2007`).

## 3. What the runs check

| Run | Instance | Question |
|---|---|---|
| `outbox_fenced` | 1 message, 2 workers (one a flush, one clock ahead by 1), 3 tokens, 2 retries, clock to 3, 1 fault | does the claim token fence every stale write? |
| `outbox_timely` | 2 messages, 2 workers with batches of 2, lease 2, 4 tokens, 1 fault | with prompt heartbeats, does contention alone never overlap or duplicate an emission, and does the whole outbox implement `OutboxPromise`? |
| `outbox_live` | 1 message, 2 workers, lease 3, 1 fault | does every committed message become published or dead-lettered? |
| `outbox_direct` | 1 message, 1 worker, all modes of `publish()`, dashboard actions | what can unfenced writers break? |
| `outbox_tx_immediate` | as `outbox_direct`, one mode | a statement of the documentation, refuted |
| `inbox_operator` | 1 message, 1 consumer, 1 retry round with a clock ahead by 1, 1 operator, 1 fault | does an operator's retry, mark or requeue beside executions leave "processed" earned? |
| `inbox_live` | 1 message and 1 orphan row, 2 consumers, 1 retry round, the clocks of it and one consumer ahead by 1, 3 retries, 3 deliveries, 2 faults | are acknowledged messages stored, retries counted, first attempts protected, and all of them settled? |
| `lifecycle` | 2 subscriptions, 3 callers of the engine or 3 users of the application, 7 calls, 2 failures, 2 scheduler loops, every style | do overlapping starts, stops and subscribes leave a consistent engine and a true `cap.ready`, and settle every caller? |
| `rabbit_overlap` | 2 subscriptions, 3 links, 2 attempts, 2 faults | a defect of the recovery, found |
| `transports` | each adapter with 2 calls, 2 messages or topics; 1 crash, rebalance or refused request, or 2 broken links with 3 reconnect attempts | is what is settled with the broker done, what was opened closed, and does every call and message end? |
| `storages` | 6 sites, 2 messages of one date or two, or 2 deliveries of one key or two, 2 workers, 2 retries, time to 2 | does every library keep the one contract when its statements interleave, and do its reads agree with its rows? |
| `tools` | every graph of 3 packages, 1 or 2 changed files; 2 packages, 3 commits, 2 versions, 2 failed steps | is what a change can break validated in order, and can a failed release always be finished as approved? |

Two of the runs end in a violation on purpose; section 5 says what they show.

Why these bounds are enough for the questions. Two workers are the fewest that
contend, and a third adds no new pair; three tokens let one worker lose a claim,
the other take it and a later round take it back, and `Fresh` lets a token be
used again only when nothing remembers it, so a bound on tokens does not hide a
stale write. Two retries give a first failure, a last one and the boundary between
them; the inbox has three so that a lost update can be followed by a further
failure. A clock to 2 or 3 ticks covers before, at and after the end of a lease of
1 or 2. One fault is a crash with a claim held; in `inbox_live` two faults allow
a crash during the retry of what a crash left behind. `MaxSeen` is at least the retry
limit, so saturated counters lose nothing that a property compares. In
`inbox_operator` the operator leaves rows alone whose count has reached `MaxSeen`:
without that, requeues and stale failure writes could drive `retry_count` up for ever.
Seven calls are what start, stop, restart and a retried stop of two callers take, with
a registration in between; the third user of the application is the one that restarts
while the others still wait.

A broker adapter's trouble is a pair: two links, two receipts of one message, two
consumers of one group, a provisioning beside another. Two calls and two of what they
work on give every pair, and one fault on top is what the second of the pair recovers
from. The retry loops have two faults, the second of which may strike in the middle of
the recovery from the first, and one attempt more than faults (`Attempts`, `Tries`): with
as many faults a loop may give up, and `LinksRecover` does not speak of it. `MaxLinks`,
`MaxConns` and `MaxClients` are one more than what the
faults can consume, so that the last recovery is always possible. In `storages` each library is
on a database that assigns the one way or the other, and MikroORM also on the one
whose claims are not locked. The two rows of a table give a page of one row that another
follows, in an order that a tie leaves open; one claim per worker is enough for two claims to cross and
for a later release. In `tools` three packages give a chain, a fork and a join, and
two changed files are what the union of two plans needs; a release needs a package
left untouched beside one that is released, a commit to plan at, one to advance to, and
one more.

`CHECK_DEADLOCK` is off in `transports`, `storages` and `tools`, where a behaviour ends
when its calls, commits and faults are used up. Everywhere else it is on: the outbox and
the inbox can always begin another round, and the lifecycle has `Done`, for an
application that makes no further call; a caller left waiting for a promise that never
settles would be a deadlock. Tokens are symmetric; workers and messages are not (a
clock runs ahead, ids order the batch), and the runs with temporal properties that need
fairness use no symmetry.

### Fairness

`Spec` of `Outbox`, `Inbox` and `Storages` has none; safety does not use it. Fairness
is stated where liveness is:

- `OutboxTimely`: interval timers fire again and again (`TimedRound`), storage and
  broker calls settle one way or the other, heartbeats fire, time passes. A
  broker need not accept, a transaction need not commit, and nothing forces a
  crash. `StoragePrompt` and `HeartbeatsPrompt` restrict time: a call takes at most
  `MaxCall` ticks (none in `outbox_timely`, one in `outbox_live`), and a heartbeat that is due fires before
  its lease runs out. A lease is longer than such a call and the skew of the clocks
  together (`MaxCall + MaxSkew < Lease`): with less, TLC overlaps two emissions, since a
  worker whose clock is ahead sees the lease run out before its holder may renew it.
  `withActiveLease` renews every third of the lease for that very reason; without
  it a slow emission can be overtaken for ever.
- `InboxLive`: timers fire, handlers and storage calls settle (a handler may
  always throw), and a broker gives an unacknowledged message to a free consumer
  again (`MaxFaults < MaxDeliveries`: it redelivers more often than calls fail).
- `SubscriptionLifecycle` and `CapExpress`: `consume()`, `close()`, the adapters'
  initialization and the scheduler's rounds settle, and queued continuations run, as
  the event loop guarantees.
- `Transports` (`WF(TransportsGoesOn)`): requests to the broker settle, timers
  fire, handlers settle, an open consumer is given what is deliverable. Faults and calls
  are not in it, so "once faults cease" is the bound on them.
- `Release`: the job's steps run or fail, a failed job is run again, a refused plan is
  planned again while that is possible, and npm shows what it took (`WF` of
  `ReleaseGoesOn` and of `RegistryCatchesUp`). Nobody has to
  advance main or approve anything new.

In `OutboxTimely` and `InboxLive`, where time is endless, the clock stays at `MaxClock`,
and a tick moves all stored times into the past (`Rebase`). Times are compared only with
the clock and with each other, so this is the same behaviour seen from a moving
origin; the assumptions that keep a pending call's time from reaching 0, where
differences would be lost, are in the ASSUMEs.

## 4. What is proved

The proofs hold for every value of the constants that the named ASSUMEs allow: any
number of messages, workers, tokens, consumers, callers, users, subscriptions,
deliveries or storage sites, any batch size, lease, window, retry limit, clock skew and
number of faults.

**Outbox** (`OutboxProofs`). `TypeOK`, `PublishedWasAccepted`, `AcceptedWasCommitted`,
`DeadLetterEarned`, `LiveClaimRespected`, `PublishedIsFinal` and the refinement
`Spec => ImplementsPromise`. None of these is inductive alone: that a worker's completion
matches only rows it still owns needs that no two workers and no row share a
token by accident (`TokensUnique`); that a lease it took is not longer than it
looks needs that the times a worker captured lie in the past (`WorkerInv`); that
"published" was accepted needs that a fulfilled emit was counted (`RowInv`,
`WorkerInv`). `IndInv` is their conjunction.

**Timed outbox** (`OutboxTimelyProofs`): `NoOverlappingEmission`, `DuplicateHasCause` and
the refinement `TimelySpec => ImplementsPromise`. Neither invariant says how long a
storage call has been on its way, which is what decides whether a lease outlives it:
`LeaseInv` says that no call is older than `MaxCall` and that who emits without having
learnt otherwise owns the row under a lease that has not run out on any clock. `CopyInv`
says that without faults no claim is lost and a message accepted once is published or
still in the hands of its emitter. `TimelyInv` joins both to `IndInv`. A tick that moves
the origin of time (`Rebase`) keeps every comparison, which is a lemma for each part
of the invariant, and is a stutter of the promise.

**Unfenced writers** (`OutboxDirectProofs`): `PublishedWasAcceptedOrForced`,
`RevivedOnlyByItsPublisher` and `ClaimBrokenOnlyDirectly`, for `publish()` calls that
emit and for the dashboard's actions beside the workers. Most of `IndInv` is lost, since
others write rows a worker holds; `DirectInv` is what is left, plus what a call without a
claim knows of its message (`CallInv`). The action properties follow from a
description of what each statement can do to one row (`DirectMove`, `PublishMove`).

**Inbox** (`InboxProofs`). `TypeOK`, `AckedIsStored`, `ProcessedWasHandled`,
`DeadLetterEarned`, `ReopenedOnlyByOverlap`, and `FirstAttemptProtected` for an
inbox without operators. `RunInv` says what an execution carries across its awaits:
its row is stored, a pending mark belongs to a handler that resolved, the count
read by `markReceivedFailed` is below the number of failures. `CountInv` relates
`retry_count` to the failures that happened, which is why a lost update can only
grant a retry too many. `FirstInv` is what makes the fallback window work: as long
as a delivery's own execution runs, only it can move its row out of "pending", so no
retry round sees the row until the window is over. `InboxInv` is their conjunction.

**Subscription lifecycle** (`CapExpressProofs`, first part). `PromiseInv` relates the two
promises to the lifecycle state and holds for every style; `AttachInv` (no
`subscribe()`) says that what a start has still to attach is not attached; `TaskInv`
(calls from tasks) says that starts and stops never overlap, which is where "ready means
attached" comes from. `LifecycleInv` is their conjunction; the safety properties of the
engine follow, and its lemmas, one per action, are reused by the next proof.

**Express application** (`CapExpressProofs`). `StartsApartFromStops`, `ReadyIsTrue` and
`StoppedIsQuiet` for the engine alone and for the application above it. `ExpressInv` adds
to `LifecycleInv` where each promise of the application is when the engine's is
somewhere (`TurnInv`: a start of the engine runs only inside `thisStart`, a stop only
inside `thisStop`, and those two take turns), that a settled engine promise has an
outcome (`OutcomeInv`), that the scheduler has timers only between a start and the
drain (`SchedulerInv`) and that the application's "started" means every
registration is attached (`AttachedInv`). The application's calls may come from
continuations: the turns replace the restriction to tasks that the bare engine needs.

**Storages** (`StoragesProofs`), for any set of sites of the five libraries.
`HeldClaimsAreOwned` needs `SafeInv`: what a claim's SELECT read is locked until its
UPDATE, unchanged and still due (`ClaimInv`), the lease in a row is at most one lease
from now, and a lease handed out is the row's (`HoldInv`). `InsertedOnce` needs
`InboxInv`: who holds the uncommitted insert of a key, and what a save that saw the
violation may still read (`SaveInv`). `CallsHonourContract` needs `EntriesInv` and
`OutboxInv`: the rows an adapter reads back are rows of the table, tokens are used by
one claim. The proof goes library by library and shows that each statement is one and the
same update of the row. `InsertedOnce` says who is told "inserted": the save that wrote the row
and no other, except MikroORM's whose INSERT lost its answer. `ReadsAreComplete` follows from the same
invariants and from facts about the queries: any finite table can be sorted by its dates
(`SortExists`, by the
least size of a counterexample), so pages of one row show each date as often as rows have
it, in whatever order the ties come on each page, and show each row once if no two dates
are equal (`PagesShowAll`);
GROUP BY has one group of each status there is, and the five ways to read it tell its
count and its oldest row (`OneGroup`, `GroupsTell`). Assumed: the sites are libraries with
a database, Prisma on MariaDB resolves to the provider "mysql", and tables are finite.

**Broker adapters** (`TransportsProofs`): `SettledWasHandled`, `EmitWasTaken`,
`SubscriptionsServed` and `NothingLeaked`, from one invariant per adapter. `NothingLeaked`
is conditional, as the code is: it speaks of calls that do not overlap (`~crossed`,
`~tangled`, `~raced`, `~doubled`, `~closedMidway`) and sets apart what was told to close
and did not (`stranded`, `unclosed`).

- RabbitMQ subscriber: a link a loop brings up is its own and bare (`ProcsInv`), the
  current link is open and heard (`HeldLinksInv`), a delivery is owed under a tag given
  out on its own link (`DeliveryInv`). While no loop began beside the other or beside a
  link in use (`~crossed`, the condition the properties state), there is one loop, each open
  link is accounted for, and the tag a run will settle is that of its delivery
  (`Undisturbed`); `rabbit_overlap` shows that `SettledWasHandled` needs the condition. The publisher's
  invariant has the same parts, and that a call that waits has its link.
- Kafka: an offset is committed past handled messages only (`OffsetInv`); while the calls
  of a process take turns (`~raced`), its registered consumer is subscribed to all it has
  handlers for but those of the call under way (`ServedAt`), and a consumer it forgot is
  closed or stranded.
- SQS: who deletes has handled the message or cannot (`PollInv`), a closed subscriber has
  no loop left (`DrainInv`), a provisioning that overlapped none has read the policy as it
  is (`PolicyInv`). Service Bus: where each call stands and what is there by then
  (`EntityInv`), one call per key (`ReceiverInv`, while not `doubled`). The other
  publishers: no client is there while one is being connected (`ClientInv`).

Assumed beside the types: the two retry loops of the RabbitMQ subscriber are not among
the subscriptions (they are processes of the same kind).

**Tools** (`ToolsProofs`): `PackagesInOrder`, `PassedIsCovered` and `ReleasedAsApproved`.
`GraphInv` says that the depth-first search holds a path (`PathInv`), that the packages
taken by the sort need no others (`OrderInv`), that the sort's counters count what is
missing (`SortInv`), and that a graph is rejected only with a cycle or an outdated
dependency range, while a finished sort has taken every package (`OutcomeInv`). That a
plan misses nothing is `PlanGood`, proved of every plan the script can make (`PlanIsGood`). `RunInv` follows a run of it: it stands at a gate the plan selects
before a package that gate is for (`PlaceInv`), and what is done is what the plan selects
up to there (`ProgressInv`). `ReleaseInv` relates a plan to npm and the tags: npm's gitHead
has the version (`NpmInv`), a tag is at that gitHead or at the same artifact (`TagInv`), and
what passed the verification is on npm at the commit the plan tags, with no tag of a
prepared release at another commit (`VerifiedInv`).

Each proof has the same shape: a lemma per action, joined in a lemma about the next-state
relation, then the invariant, and the properties as consequences.

Closures, sorted sequences and numberings are properties of whole sets. Where such a fact
needs induction, the proof takes a least counterexample: numbers are well-founded
(`LeastNumber`, from `NatLessThanWellFounded` and `WFMin`), so a set of counterexamples
would have a least one, which is refuted directly.

All 24 invariants of the passing runs and the action properties that need no fairness
are theorems. Only model-checked: the liveness properties, which need fairness and
ENABLED and are beyond the prover, and deadlock freedom.

## 5. Where the documentation and the code disagree, and a defect

- `outbox_tx_immediate`: `publish()` with a transaction and `immediate: true` emits and
  marks its row published on a connection that does not see the uncommitted row; the
  commit leaves it pending, to be emitted again. This assumes a database with MVCC,
  where another connection reads past an open transaction instead of waiting for it.
- `rabbit_overlap`: a `consume()` that finds no channel calls `initialize()` although
  the recovery is connecting. Both bring up a link, the second overwrites the first, and
  a delivery of the first link is settled with its tag on the second, where the tag names
  another message: one whose handler has not resolved is acknowledged.

Met while modelling, described here without a run:

- `publish()` without a transaction saves a row that schedulers may claim at once, emits
  it, and on a rejected emit marks it failed without a token, even if a scheduler has
  meanwhile published it: it is emitted again (`RevivedOnlyByItsPublisher` says that
  nothing else can).
- Inbox rows whose handler is gone stay due and head every batch; `batchSize` of them
  starve the rest. `EventuallySettled` is checked with room in the batch.
- A start that a stop aborts resolves, and so does a start that joins it, with
  subscriptions unattached (`libs/cap-core/README.md:102`).
- An `afterCommit` callback that throws lands in the `catch` of `runInTransaction`, so the
  `afterRollback` callbacks run although the transaction was committed
  (`knex-transaction-manager.ts:16`, the same in Prisma's and TypeORM's), which
  `libs/cap-storage-prisma/README.md:230` says they do when `$transaction` rejects.
- A plan that also finalizes an ancestor's artifact cannot be run again once some of its
  tags or GitHub Releases exist: the refreshed plan leaves that item out and no longer
  equals the approved one. `docs/release.md:487` promises the rerun.
- A bootstrap does not always put a tag at npm's gitHead. `docs/release.md:58-59`: "Each tag
  points to the npmjs-recorded `gitHead`. Bootstrap fails if an existing tag points anywhere
  else". Where the package's files are the same at HEAD, `release-tool.js:1565-1583` takes
  HEAD for the tag's target, and moves a tag that is elsewhere. `ReleasedAsApproved` allows
  what the code does (`TagTarget`, `Anchored`).
- A bootstrap that moves a tag cannot be run again once the tag was pushed: `git tag -a` finds
  it (`release-tool.js:2006-2007`). `ReleaseFinishes` excludes plans that move tags.
- After a bootstrap anchored a tag at a commit other than npm's gitHead, every later
  prepared release publishes its packages and then fails its final verification,
  before its tags (the verification does not accept the anchor that the bootstrap chose).
- A new plan for the same head after a partial tag push never equals its refresh either;
  only the original plan finishes. `MayDispatch` is the recovery the documents describe.
- GitHub Releases are lost when main advanced after the tags were pushed.
- A pull request that changes only the Jest configuration runs all unit tests
  with no package built (`affected-validation.js:604`), against the comment at 701-703.

## 6. What does not hold, and is not claimed

- *Starts from continuations of the bare engine.* A caller whose continuation runs
  between the clearing of `startPromise` and the resumption of a stop behind it starts
  beside that stop: its `consume()` overlaps `close()`, and the engine may be ready with
  subscriptions detached or stopped with some attached. Properties this breaks are
  stated for calls from tasks; the Express application restores them for any caller.
- *`subscribe()` in flight.* It takes part in neither promise: it can attach after a
  stop has closed, or be attached twice by a start. No document says what should
  happen.
- *Lost failure counts.* Two executions of one message that fail together may count
  once. Retries are never fewer than configured (`DeadLetterEarned`); they can be more.
- *Overlapping executions.* Inbox rows are not claimed, so a retry round may run a
  handler that another process still runs, after the window; a late failure then
  reopens processed work (`ReopenedOnlyByOverlap` is what is left).
- *At-least-once.* A message may be emitted twice after a crash, a rejected emit or
  a lost claim. `DuplicateHasCause` is the strongest statement.
- *What rejects its closing.* The Kafka and Service Bus adapters forget a consumer, producer,
  sender or receiver whose `disconnect()` or `close()` was rejected
  (`kafka-subscriber.ts:86-87`, `:135-147`, `kafka-publisher.ts:89-92`,
  `servicebus-publisher.ts:86-94`, `servicebus-subscriber.ts:376-386`); all but the Kafka
  publisher also hide the rejection. It stays open, a Kafka consumer may go on polling with the
  partitions it has, and a second `close()` resolves without trying again.
  `NothingLeaked` sets such objects apart, `PartitionConsumed` those that poll.
- *Overlapping calls on a transport.* The later link of two RabbitMQ loops overwrites the
  earlier, two `consume()` of one Service Bus key keep one receiver, and an `emit()` or
  `initialize()` beside `close()` leaves a client: `NothingLeaked` excludes all of these.
- *Recovery without end.* A RabbitMQ reconnect loop gives up after `reconnect.attempts`
  (`rabbitmq-subscriber.ts:335-353`, `retry.ts:18-36`), and nothing starts it again but a
  call: `LinksRecover` asks for fewer faults than attempts.
- *A row of one's own as a duplicate.* MikroORM's `trySaveReceived` answers "not inserted" to
  the save that wrote the row if the INSERT's answer was lost; the handler runs in the retry
  of pending rows only.
- *Pages and ties.* The listings order by `created_at` alone: a row may be on two pages and
  another on none when their dates are equal, and the total may not fit the page when rows are
  written between the two statements.
- *Orphans in numbers.* `EventuallySettled` is checked with one row whose handler is gone and
  room for two in a batch; section 5 says what more of them do.
- *Claims without row locks.* MikroORM on MariaDB reads and flushes without a lock;
  so do the fallbacks for SQLite
  and SQL Server (documented as single-process; they are not among the sites).
  `HeldClaimsAreOwned` speaks of the other storages. On MariaDB, two MikroORM claims in
  one millisecond can even leave a row "processing" whose `locked_until` is NULL, since
  the second flush finds its field unchanged; no claim and no release takes it up again, nor
  does a listing of the unpublished show it (with `MaxClaims` = 2, TLC reaches such a row in
  ten steps). The contract's clause on releases and `ReadsAreComplete` therefore speak of
  rows with a lease end.
- *Order and freshness of reads.* The in-memory storage lists oldest first where the SQL
  storages list newest first; MikroORM's lookup by id may answer from its identity map.
- *The shared queue policy.* Two SQS provisionings that read the same policy lose one
  statement; `PolicyKept` excludes the crossing.
- *Nest.* Its cron rounds may overlap and outlive a shutdown, unlike the scheduler's.

## 7. Abstractions, and what is not modelled

Left out of the modelled parts: payloads, headers, errors, logging and diagnostics;
`maxRetries` below 1, which the code does not reject; a flush with a retry limit
other than the engine's; storages without `renewPublishClaim`; the encoding of headers,
attributes and routing keys; validation of options.

Modelled in part:

- *Transaction managers*: a publish joins a transaction that commits or rolls back
  (`Outbox`, `OutboxDirect`); the callback lists are not modelled.
- *Administration and diagnostics*: requeue is an action; snapshots and events are read
  by no decision. The storages' snapshots are checked in `Storages`.
- *Contract tests*: what the storage contracts ask is `StorageContract`; the transport
  contract and the harness around them are not translated.
- *Workspace graph and affected validation*: without the discovery of manifests, the
  identity checks and the command line.
- *Release tool*: without the graduate, coordinated, legacy conventional and recover
  operations, which the repository does not release with.

Not modelled, with the reason:

- *Envelope, message id and dedupe key*: parsing and hashing of strings; no property of
  the models tells their results apart beyond equality.
- *NestJS microservices transport and Nest integration*: delegation to a client proxy and
  to the engine; Nest runs its hooks one after the other.
- *Dashboard HTTP layers, schemas and storage options, fakes, applications, examples*:
  routing, one-time table creation, test doubles; no protocol state.

## 8. Plan

1. `Transactions`: the callbacks around commit and rollback of the three managers, and the
   publish that waits for them.
2. `Delivery`: outbox, one transport and inbox composed over the abstract promises;
   promise: committed once, handled at least once or dead-lettered.
3. Theorems: the refinement of the composed `Delivery` by the promises of its parts; what
   the transaction callbacks promise, once modelled.
4. `TopicMatching` and `Envelope` as functions against reference definitions.
5. The release tool's remaining operations over the state of `Release`.
