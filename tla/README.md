# A TLA+ verification project for robotocore

robotocore emulates AWS in one Python process: an ASGI gateway, native service
providers, Moto backends behind the rest, background threads that do what AWS does
on its own (requeue messages, evaluate alarms, poll streams), and state that can be
saved and loaded. This directory specifies the parts of it where several actors
meet, checks them with TLC and proves their main invariants with TLAPS.

Paths below are relative to `src/src/robotocore/`; `models.py` and `provider.py`
without a directory are those of `services/sqs/`.

## Inventory of the system

| Component | State | Operations | Meets | Hard part |
| --- | --- | --- | --- | --- |
| SQS standard queue (`services/sqs/models.py`) | visible queue, in-flight and delayed tables, receipts, per-message flags | send, receive, delete, change visibility, purge, requeue, dead-letter | event loop, receive threads, worker thread, retention scanner | a receive takes a message before it takes the mutex |
| SQS FIFO queue (same file) | message groups, group queue, groups queued and in flight, deduplication cache | the same operations, overridden or inherited | the same | order in a group, one batch at a time, groups that get stuck |
| SQS store and provider (`provider.py`, `behavioral.py`) | queues, move tasks, cooldowns | create, delete, move, snapshot, restore | gateway, SNS, EventBridge, Lambda, Step Functions | snapshots and move tasks beside running receives |
| Read-write lock (`state/rwlock.py`) | reader count, two writer flags, two events | read, write | coroutines | flags and events that must agree at every suspension |
| State manager (`state/manager.py`) | snapshot directories and archives, dirty flag, debounce time | save, load, import, export, list, scheduled and debounced save, versions | every provider, startup | crashes between files, loads beside saves, two forms of one snapshot |
| Consistent state manager (`state/consistency.py`) | pause flag, mutation version | pause, save, resume, wait | the lock and the state manager | requests that time out while waiting |
| Boot orchestrator (`boot/`) | component states, `_booted` | register, boot, shutdown | gateway lifespans (HTTP, and HTTPS in a second thread) | failed dependencies, reboot, two boots at once |
| Lambda limits (`services/lambda_/limits.py`) | counters per function and account, reservations, provisioned pools | acquire, release, configure | request threads | counters that must balance over all error paths |
| Lambda recursion (`services/lambda_/recursion.py`) | depth per function | check, increment, decrement | request threads, invocation pool | check and increment are apart |
| Lambda invocation pool (`services/lambda_/invoke.py`) | four threads and a work queue | asynchronous and synchronous invocation | SNS, Pipes, CloudFormation and others | nested synchronous calls, timeouts |
| Lambda event sources (`services/lambda_/event_source.py`) | mappings, positions in streams | poll, invoke, bisect, advance; create, update, delete mappings | SQS, Kinesis, DynamoDB streams | partial failure of a batch, shared positions, changes during a poll |
| EC2 capacity (`services/ec2/capacity.py`) | capacity profiles | check, consume, release, set | RunInstances, TerminateInstances | profiles replaced between check and use |
| EventBridge Pipes (`services/pipes/provider.py`) | pipes, poller threads | start, stop, poll, deliver | SQS, streams, targets | start and stop against the poller |
| Step Functions (`services/stepfunctions/`) | machines, executions, task tokens | start, stop, finish, delete; wait, answer, retry | execution threads, workers | stop and delete against finish, answers against timeouts |
| CloudFormation (`services/cloudformation/`) | stacks, exports, change sets | create, update, delete stacks; create, execute, delete change sets | most providers | failures part way, names and ARNs of deleted stacks used again, exports in use |
| Others | dictionaries, Moto backends, files | request handlers | gateway | mostly data |

What makes the first ones correct:

- *standard queue*: a message is never lost, never in two places, hidden while it is
  leased, received at most `maxReceiveCount` times, dead-lettered once, gone when it
  is deleted, and received some day when it is not;
- *FIFO queue*: messages of a group come in sequence, one batch at a time; a group
  with messages is always queued or has a batch in flight;
- *lock*: many readers or one writer, waiting writers first, nobody waits for nobody;
- *Lambda limits*: counters equal what runs, a reservation is a guarantee, a
  provisioned pool is not overbooked, recursion stops at the limit, nothing leaks;
- *boot*: dependencies first, and last when it stops; a result that says what is; an
  application that comes up although a component hangs;
- *snapshots*: what was saved can be loaded, whole, until it is replaced;
- *event sources*: every record and message is handled or still there;
- *executions*: each ends, once, as its own run decided, with a whole answer;
- *stacks*: what a stack lists exists, what it imports is exported, one stack to a name but
  for the one case in which the code makes two.

`PROJECT.json` lists every component with its status, every hazard with its line,
and the source lines behind each definition.

## Modules

| Module | What it is |
| --- | --- |
| `StandardQueue` | `StandardQueue` of `models.py`, with the provider's part of receive and the background threads |
| `LeasedQueue` | the abstract queue: a message is queued, leased or gone |
| `StandardQueueRefinement` | the mapping from the first to the second |
| `StandardQueueProofs` | proofs about `StandardQueue` and that it implements `LeasedQueue` |
| `FifoQueue` | `FifoQueue` of `models.py`, with what it inherits and the provider's dead-lettering |
| `ReadWriteLock` | `state/rwlock.py` |
| `LambdaConcurrency`, `LambdaConcurrencyProofs` | `limits.py` and `recursion.py` as `_invoke` and the invocation pool use them, and proofs |
| `BootOrchestrator` | `boot/orchestrator.py` under the lifespans of two servers |
| `Snapshots` | save, load and import of `state/manager.py` at every file operation, with crashes |
| `EventSources` | the engine of `services/lambda_/event_source.py` and the mappings it polls |
| `Executions` | executions and callback tasks of `services/stepfunctions/` |
| `Stacks` | stacks and change sets of `services/cloudformation/` |
| `StateProofs` | proofs about `Snapshots` and `ReadWriteLock`, the two modules of `state/`; those of the lock's names that the other has too begin with `Lock` |
| `FifoQueueProofs`, `BootOrchestratorProofs`, `ExecutionsProofs`, `EventSourcesProofs`, `StacksProofs` | proofs about the modules they are named for |
| `MC...` | model values and bounds for TLC |

### StandardQueue

The Python containers are variables of the same meaning: `visible` is the
`queue.Queue` `_visible` (a sequence, repetitions possible), `inflight`, `delayed`,
`stored` (`_all_messages`) and `receipts` are sets of messages, the fields of
`SqsMessage` are functions or sets over messages (`deleted`, `deadline`,
`receiveCount`). Client calls run on the event loop and take the mutex, so each is
one action. `ReceiveMessage` is different: `handle_sqs_request` runs it in a thread
(`asyncio.to_thread`), and `receive` does three things that others can come between:

1. `Get*` takes a message off `_visible` and looks at its deleted flag and age, with no lock;
2. `Deliver` counts the receive under the mutex and dead-letters the message, leases
   it, or (timeout 0) puts it back;
3. `Reply` is the provider's second look at the receive count, again with no lock.

A call for several messages is several of these in a row. Time is abstract: a
deadline is in the future until `VisibilityExpires`, a delay ends, an age passes the
retention period, at any moment. The order of `_inflight` is not kept, so messages
that expire together may come back in any order. `Purge` is one step: a receive that
takes a message between two of its `get_nowait` calls is not modelled. Of the two
ways a redrive policy can fail to lead to a queue, a missing queue deletes the
message and a missing target leaves it in `_all_messages` only (`Dropped`).
Attributes of the queue do not change while the model runs.

`PoliteClients` restricts clients to zeroing the timeout of messages in flight. A
client that zeroes the timeout of a message that is visible again makes the queue
hold it twice (`models.py:344` puts it without looking), so `OnePlace` and the
refinement are for polite clients; all other theorems are for all clients.

### FifoQueue

`heap` is the union of the group heaps, ordered by `created`, as `SqsMessage.__lt__`
orders them; `groupQueue`, `queuedGroups` and `inflightGroups` are the code's.
Receive again starts without the lock (`GetGroup`), then fills its batch from the
group under the lock (`LockGroup`), and may go on with another group. A producer
builds a message (its `created` time) and puts it (its sequence number) in two
steps. `Uses` names the operations that put the queue at risk, so that a run can
say under which of them a property holds:

| `Uses` | What happens in the code |
| --- | --- |
| `overlap` | two producers build and put in different orders: the group is ordered by the first, numbered by the second |
| `stale` | a message is deleted by a receipt older than its current place; `receive` later marks the group in flight and pops only the deleted message |
| `zero` | the inherited `change_visibility(0)` moves the message to `_visible`, which FIFO receives do not read |
| `retention` | the scanner removes a message and not its group; FIFO receives do not look at the age |
| `purge` | the inherited `purge` leaves the groups as they are |

### ReadWriteLock

Coroutines interleave only where they suspend. The inner `asyncio.Lock` is never held
across a suspension, so it is always free and each stretch of code between two waits
is one action. `Event.wait()` on a set event does not suspend, so a waiting loop whose
event is set while its condition holds blocks the event loop; the model calls that
"spinning", and nothing runs any more. `Cancel` cancels a waiting task, as
`asyncio.wait_for` around `write()` would.

Nothing in `src/src` but `state/consistency.py` uses this lock, and nothing but tests
constructs that manager; live persistence is the boot component `state` and the
management endpoints of `gateway/app.py`.

### LambdaConcurrency

Each member of `Invocations` is one invocation. `Check` is `check_recursion`, `Admit`
and `Throttle` are `increment_depth` followed by `acquire`, `End` is `release` and
`decrement_depth`. The increment and `acquire` are two critical sections, merged
here because nothing reads one variable against the other in between. `chain` records
which running invocation made an invocation, so that the depth can be compared with
real nesting. `promised` is what PutFunctionConcurrency stores in Moto. Invocations
that `invoke.py` runs (`kind` "worker") count in the depth and take no slot.
`set_reserved` is modelled though nothing in `src/src` calls it: it is the tracker's
interface. Account limits and the RecursiveLoop setting do not change.

### BootOrchestrator

`status`, `booted` and `bootResult` are the orchestrator's; `phase`, `place` and `failed`
are the local state of one `boot()` or `shutdown()`. `main.py` runs the application in
two servers, each in a thread with an event loop of its own, so two lifespans share the
orchestrator, and a step is what a thread does between two calls of `start()`,
`health_check()` or `stop()`. `order` is `_resolve_order`: it is a pure function of a graph
that does not change, so `Init` chooses it once, as a sequence that `IsOrder` describes: each
component is the first, by name, of those whose dependencies are before it, until none is. A cycle makes `boot()` return a failure
without setting `_booted`, and the application serves nevertheless. An HTTPS server
that cannot bind its port shuts its lifespan down while the HTTP server runs; this is
`Close` of one lifespan at any time. `past` remembers whether boots overlapped or a
shutdown ran, which two of the properties exclude.

### Snapshots

`dir` and `archive` are the file system: a file is `Missing`, `Torn` between `open` and
the end of the write, or holds the number of the save that wrote it. `saver` is the save
that holds `_save_lock`. `import_snapshot_bytes` does not take that lock and `load` takes
none. `rmtree` removes files in any order. A crash forgets the operations in progress
and leaves the files. `writers` and `good` are history: who has begun to write a name
and what has been stored under it since. `Missing` and `Torn` are assumed to be neither
numbers nor contents of an archive.

### EventSources

One shard and one queue. `position` is `_kinesis_positions` or
`_dynamo_stream_positions`: it belongs to the stream, not to a mapping. A poll keeps the
configuration it has read; `poll.batch` is what it took from the source and `poll.sent`
what the filter left. A record is its number; its data, and what a filter pattern means,
are abstracted to the set of records that match; `Passing` is the list comprehension that
keeps the matching records in their order. The queue is reduced to where a message
is (`StandardQueue` models it in full).

### Executions

Each member of `Runs` is one StartExecution call with the thread it starts; `execution`
maps a name to the run that stored it, which the code does not know. `token` is the
`token_info` dictionary of one attempt and `answers` the requests that are filling it
in. StopExecution changes the record only: the abort event is set and nothing reads it,
so it is left out. The machine has one callback task with a retry.

### Stacks

Handlers do not await after they have read a request, so a request is one step of its
server; what interleaves is the order of requests, and what happens within one is the
set of its `Outcomes`: which resources it made and which exports it registered before it
failed, and which deletions failed. A resource stands for its definition, so a changed
definition is another resource with the same logical id. `live` are the resources that
exist, which the store does not know.

A stack stays in the store when it is deleted, so that its place in `stacks` stands for its
ARN. A request names a stack by name or by ARN, and so does a change set, which keeps what
it was given (`provider.py:947`) until it is executed: `Target` looks it up then, and an ARN
finds its stack whatever its status (`engine.py:77`, `provider.py:1099`). So a deleted stack
can come back beside a new stack of its name. `SecondOnlyByArn` says that this is the only way
to have two, and `ImportsResolve` that such a pair is the only case in which the check of
references lets an import of a spelled-out name go: it passes over stacks of the name it is given
(`provider.py:291`), and the name finds one of the two. Both are about steps: once a name has
two stacks, or an import is lost, they go on to restrict what the other stacks do.

## Runs

| Run | Instance | Shows |
| --- | --- | --- |
| `standard_queue` | 2 messages, 2 receivers, redrive after 1 receive; 254 000 states | safety, refinement of `LeasedQueue` and liveness of the standard queue |
| `fifo_queue` | 2 messages with one deduplication id in 1 group, 2 receivers, batches of 2, redrive after 1 receive, all of `stale`, `zero`, `retention`, `purge`; 2.3 million states | a group is in one place and delivers one batch at a time whatever clients do |
| `fifo_queue_order` | 3 messages in 2 groups, 2 receivers | order, no loss, no stuck group, every group served |
| `read_write_lock` | 4 readers, 1 writer, cancellation | exclusion, writer preference, no hang, no starvation |
| `lambda_concurrency` | 3 invocations, 2 functions, account and recursion limits of 2, reservations of 0 or 1, pools of 1; 586 000 states | counters, reservations, recursion bound, slots |
| `boot` | 3 components, 2 of them required and 2 with health checks, every graph against the order of names, one along it and the cyclic ones; 2 lifespans; 581 000 states | order, results, moving on |
| `executions` | 2 starts with 1 name, 2 answers at a time, 1 retry, deletion of the machine; 306 000 states | one outcome per execution, its own; whole answers; an end |
| `snapshots` | 2 names, 2 saves, 1 import, 1 load at a time, 1 crash; 4.4 million states | durability, the atomic first save |
| `event_sources` | 2 mappings of a stream of 4 records, or 1 of a queue of 3 messages; 2 failures; 372 000 states | nothing skipped, nothing lost, streams drained |
| `stacks` | 2 names, 3 templates, 2 change sets of a name or an ARN, 3 creations or failures; 386 000 states | imports, resources, names |

Every module has a `TypeOK`; it is listed in the configuration of `standard_queue` and
proved for every other module (for the lock, `LockTypeOK` as a part of `LockInv`).

Two runs show that the code does not do what a comment says:

| Run | What TLC finds |
| --- | --- |
| `executions_retry` | an execution that fails because the retry of its task succeeds: `_handle_error` returns the output and the next state of the retried state (`asl.py:785`), its caller takes them for the next state and the output |
| `stacks_rollback` | a stack whose update was rolled back, "restored", lists a resource that the update had deleted |

### Divergences kept as configurations

These configurations are not among the runs of `PROJECT.json`. Each violates the
property it names, by `tlc -config <file> <module>`:

| Configuration | Property | What TLC finds |
| --- | --- | --- |
| `StandardQueueTwice.cfg` (`MCStandardQueue`) | `DeadLetteredOnce` | two copies of one message in the dead-letter queue: the receive and the provider (`provider.py:367`) both make one |
| `FifoQueueRedrive.cfg` (`MCFifoQueue`) | `NoStuckGroup` | a group blocked for ever by a message that was dead-lettered |
| `FifoQueueZero.cfg` (`MCFifoQueue`) | `NoLostMessage` | a FIFO message lost by a visibility timeout of 0 |
| `ReadWriteLockWriters.cfg` (`MCReadWriteLock`) | `Exclusion` | two writers inside the lock |
| `LambdaMisrouted.cfg` (`MCLambdaConcurrency`) | `ProvisionedBounded` | more requests routed through a provisioned pool than it has slots |
| `LambdaThrottled.cfg` (`MCLambdaConcurrency`) | `DepthReturned` | recursion depth that stays after a throttled invocation |
| `LambdaReserved.cfg` (`MCLambdaConcurrency`) | `ReservationEnforced` | requests beyond the reservation PutFunctionConcurrency has made |
| `BootRestart.cfg` (`MCBootOrchestrator`) | `RestartRuns` | `boot()` after `shutdown()` returns the old result and starts nothing, although the docstring of `shutdown` (`orchestrator.py:334`) says that it can be called again |
| `SnapshotsShared.cfg` (`MCSnapshots`) | `Durable` | snapshots named `v1.0` and `v1.1` share the archive `v1.tar.gz`, as `with_suffix` replaces what follows the dot |
| `StacksRevived.cfg` (`MCStacks`) | `OneUndeleted` | two stacks of a name: a change set made for the ARN of a stack that was deleted is executed when the name has a new stack (`provider.py:1099`) |

The same models show more of this kind:

- *queues*: with `overlap` a FIFO queue delivers against its sequence numbers; with `stale` a
  group gets stuck; with `retention` an old message is delivered and a stuck group can
  follow; with `purge` a purged message is received afterwards; an oversized message is
  acknowledged and dropped (`models.py:241`); the second of two entries of a zeroed
  message is received while the first is leased;
- *lock and limits*: with two writers a reader's loop hangs the event loop
  (`rwlock.py:68`); a writer cancelled while it waits keeps readers out (`ReaderWoken`
  excuses it by `Abandoned`); parallel invocations of a function are refused as
  recursive although none is nested (`recursion.py:21`);
- *boot*: two boots at once start components twice and may mark a component failed that
  the other boot relies upon; a component that failed its health check is never stopped;
- *snapshots*: a crash during an overwriting save leaves a mixture of two saves that loads
  successfully; a load or a crash during the `rmtree` of a compressed save finds a
  directory without metadata, which hides the complete archive;
- *event sources*: items reported as failed by a half of a batch are deleted
  (`event_source.py:381`); two mappings of one stream each miss what the other has taken;
- *executions*: StopExecution aborts what has succeeded; an answer that comes after the
  timeout is accepted and ignored; a thread whose machine was deleted, or whose
  EXPRESS name was used again, finishes a later execution of its name;
- *stacks*: with two stacks of a name, deleting by name the one that exports removes an
  export that the other imports; an export whose name is computed (`Fn::Sub`) escapes the check of references;
  deletion by ARN of a stack with exports is refused because its own template mentions
  them; exports of a failed creation stay; a CREATE change set over an existing stack
  keeps resources its template does not have; updates ignore `DeletionPolicy`.

### Bounds

Two messages and two receivers are enough for every pair of steps of two receives,
of a receive and a client, and of a receive and a background thread to meet, and for
one message to overtake another; a third FIFO message gives a second group beside a
group with an order. With a redrive limit of 1 the second receive of a message is the
one that dead-letters. `VisibleBound` (2) stops clients from filling `visible` with
copies of a zeroed message; in `standard_queue` no message can be there twice, so
it cuts nothing below the number of messages. `ReceiveBound` stops receive counts: the standard runs
never reach 9 (beyond the limit a message is dead-lettered), and in `FifoQueue` the
count saturates above every number it is compared with. Three Lambda
invocations against limits of two fill every limit and exceed it by one. One writer
and four readers are a whole queue of readers around a writer; the second writer is
what the code does not handle.

Three components have every shape of dependency (a chain, a fork, a join, a cycle), and
with two lifespans a boot can overlap a boot, a shutdown or a restart. Two saves are the
least for one to overwrite or outlive the other, with an import and a crash between any
two of their file operations. Four records give a batch whose halves are not single
records, two failures fail a batch and its half; `OneSource` keeps the stream and the
queue apart, which share nothing but the engine thread. Two runs of one name are the
least that can be taken for each other; two answers at a time are a success and a
failure of one token, or an answer to an old token beside one to a new. `Budget` counts
created stacks and failing steps together, so that a behaviour has three stacks, or two
and a failure, or one and two failures; updates and deletions are not
bounded. `MaxChangeSets` is the number of change sets that are ever made: two can wait together,
for two names, for a name and an ARN, or for the ARNs of two stacks of a name.

`CHECK_DEADLOCK FALSE` stands where a queue may be empty for ever or all invocations
are over; the lock has no such state and is checked for deadlock.

### Fairness

- Time passes: a deadline or a delay that lies ahead is over some day.
- The worker thread loops for ever (`_background_worker` catches every exception), so
  `RequeueInflight` and `EnqueueDelayed` are weakly fair. The retention scanner is not
  assumed to run.
- Receivers call again and again, and a thread that is inside `receive` finishes.
  Without a consumer no message is received, and no emulator can change that.
- Lock: a task that is ready runs, and a task that holds the lock leaves its block.
  Nobody must ask for the lock, and nobody must be cancelled.

- Boot: `start()` and `stop()` return or raise, and the poll of a health check ends at its
  deadline. That a component ever becomes healthy is not assumed.
- Executions: threads run and waits for an answer time out (60 s by default). Workers
  need not answer.
- Event sources: the engine thread runs and invocations end, well or badly. `MaxFailures`
  bounds what `MaximumRetryAttempts`, which the engine does not read, would have to.

Client calls are never assumed to happen. `EventuallyVisible` asks that clients stop
extending a lease, as they could keep it for ever.

## Proofs

`StandardQueueProofs`, for any sets of messages and receivers, any limits:

- `TypeCorrect`, by `TypedInv`: `TypeOK` and that `_inflight`, `_delayed` and the
  hands of receivers hold what phases say.
- `NothingLost` ([]NoLostMessage). A message leaves one container only into another or
  into a receiver's hand, so the invariant is inductive with the types.
- `NeverTwice` ([]OnePlace), for polite clients, by `OneInv`: a message that was never
  acknowledged is nowhere, so `Put` cannot add a second entry; a message is only
  requeued from `_inflight`, where it has no entry elsewhere.
- `DeletedForGood` (NoRevival): every step that counts a message or hands it out
  takes it from a hand, and a deleted message gets into a hand by no step.
- `DeadLetteredInTime`: receive counts only grow, so what was above the limit stays there.

- `PromiseKept` (KeepsPromise): the queue implements `LeasedQueue`, for polite clients. `KnownInv`
  adds to `OneInv` that all the queue remembers, holds or marks deleted was accepted. With it
  every step of the code maps to one of the abstract queue: `PromiseStep` has one step per
  action, and small lemmas (`Unmoved`, `Removes`, `Requeues`, `Idles`, ...) say which change of
  the containers is which change of the abstract states. Taking a message off `_visible`, and
  the provider's second look, are stutters; the lease begins under the mutex.

`FifoQueueProofs`, for any numbers of messages, groups and receivers, any batch size:

- `TypeCorrect` by `TypedInv`: what the queue knows was put, and finitely many messages were
  built, at different times, so that the oldest of a group and the latest of all exist.
- `GroupsOnce` ([]GroupOnce), for all of `Uses`: the invariant is inductive with the types.
  `GroupsBlock` (GroupBlocked) follows from it in the state before the step.
- `NothingLost` ([]NoLostMessage), unless clients zero a timeout, which moves a message to
  where no FIFO receive looks (`FifoQueueZero.cfg`).
- `GroupsFlow` ([]NoStuckGroup), under `Steady`: no redrive policy and none of `stale`, `zero`,
  `retention`, `purge`, each of which gets a group stuck (`FifoQueueRedrive.cfg`). `SteadyInv`:
  a group that is marked in flight has a message in flight, and every waiting message
  belongs to a queued or a marked group.
- `GroupsInSequence` (InSequence), under `InOrder`: messages are put in the order in which they
  are built, and no timeout is zeroed; `OrderInv` says that creation times and sequence
  numbers agree. Without the first the code orders against its own numbers.

`StateProofs`, of the lock: with one writer, `WriterAlone`,
`NoWaitingLoopSpins` and `WriterGoesFirst`, from `LockInv`, which ties both events and both
flags to who waits and who holds. The assumption `OneWriter` is necessary, as
`ReadWriteLockWriters.cfg` shows.

`StateProofs`, of the snapshots, for any numbers of names, saves, imports, crashes and loads:

- `TypeCorrect`, for any archives.
- `WhatIsSavedStays` ([]Durable) and `FirstSaveIsAtomic` ([]FirstSaveAtomic), by `DiskInv`,
  if no two names share an archive (`OwnArchives`; `SnapshotsShared.cfg` shows what happens
  otherwise). What a save or an import has written is in the files only if nothing else
  writes that name, so `SaverInv` and `ImporterInv` speak of one that is `alone`. What is good
  (`GoodInv`) is in the directory or, without a directory, in the archive. Its number is
  below that of a save in progress, so that a save that stores no Moto state
  cannot change what an earlier number stands for. `FirstInv` says that the metadata of a
  first save is written when all it describes is there, so that a load that has found
  metadata reads files that no longer change; `UntouchedInv`, that such a save finds nothing.
- A step of a save, of an import or of a load can disturb one name only: `Elsewhere` is the
  argument for all other names, once for all actions, and `SaverElsewhere`, `ImporterElsewhere`
  and `LoadElsewhere` say which actions it fits.

`LambdaConcurrencyProofs`, for any functions, qualifiers and invocations:

- `TypeCorrect`, `TrackerCounts` and `SlotsReturned` by `AccountInv`: counters are
  cardinalities of sets of requests, so `release` is never called on a zero counter,
  its floors never apply, and every slot in use belongs to a request that was routed
  through the pool. This needs `Invocations` finite.
- `ReservationsHold` ([]ReservationGuaranteed), if `Settled` holds the reservations, as the
  property says, and `Functions` is finite. `ReservedInv`: no function uses more than it
  has reserved, and reservations and what the others use fit into the account together. A
  function below its reservation leaves a unit of it unused. `Total` is the number of the
  units that its addends have, so that sums are compared by inclusion of sets.
- `DepthIsCovered` and `ChainsAreBounded` by `DepthInv`: an invocation that has passed
  the check left at most `MaxRecursionDepth - 1` running ones of its function in its
  chain, and nothing can start in a chain behind it, although other threads may run between the check
  and the increment.

`BootOrchestratorProofs`, for any finite set of components, any graphs and any lifespans, which
may boot and shut down together:

- `TypeCorrect` and `Dependencies` by `WalkInv`: a boot has gone a prefix of the order, in
  which dependencies come first, and knows all that failed in it.
- `StoppedInReverse` and `Honest` by `AloneInv`, which holds while no boots overlap: what the
  boot has passed is healthy, failed or skipped as its own record says, and nothing
  after the place of a shutdown runs. The two properties exclude overlap themselves.

`ExecutionsProofs`, for any runs, names, answers and retries:

- `TypeCorrect` and `Answered` ([]AnswerWhole) by `TokenInv`: an answer between two of its
  assignments has left its payload and then its status in the token, whoever else writes.
- `OwnOutcome` and `StatusStable` by `RecordInv`: a run that is stored is the one its name
  finds, or its machine was deleted or its name was used for an EXPRESS execution.

`EventSourcesProofs`, for any mappings, any streams and queues, any size of a batch, any filters
and failures:

- `TypeCorrect` by `EngineInv`; its `PollInv` says that a batch of a stream starts behind the
  position, that nothing moves the position during a poll, and that what is sent is what
  passes the filter.
- `NoRecordSkipped` ([]NoneSkipped). The engine advances by the number of *filtered* records
  that succeeded when a batch was halved. What the filter keeps never stands later than it
  stood in the batch (`PassingIs`, by counting), so the position never runs ahead of it.
- `OnlyHandledDeleted` ([]DeletedHandled): what is deleted after a success was in the whole batch
  or half that succeeded, or was filtered out of it, or was reported in a half and not read.

`StacksProofs`, for any names, templates and change sets and any finite set of resources:

- `TypeCorrect` and `ListedExist` by `StacksInv`, which adds to what is promised that a stack
  lists definitions of its own template only: the template is what protects the exports
  it mentions.
- `OnlyArnsRevive` (`SecondOnlyByArn`) and `ImportsKept` (`ImportsResolve`) are about steps.
  `StacksChange` shows from `StacksInv` that every step satisfies `Changes`: a stack that comes to
  exist is the only one of its name or the one whose ARN an executed change set names, and a
  stack whose imports resolve, whatever its status, keeps them unless a stack of its name beside it
  is deleted by name. Which stack a name finds is `Found`, by the least and the greatest of a
  finite set of numbers.

What is assumed of constants is named in each module, and TLC evaluates it. Three assumptions
are there for the proofs: `Functions` and `Resources` are finite; a definition that several
templates share has its imports spelled out in all of them or in none, as a resource stands
for its definition; a mapping reads a stream or a queue (`EventSourceArn` names one of them). The theorems with an assumption of their own (`OneWriter`, `PoliteClients`, `Steady`,
`InOrder`, `OwnArchives`) are about a part of the behaviours; a configuration above, or the
list below it, shows what happens in the rest.

Each proof has one step per action of `Next`, and lemmas where several actions share
an argument. Where the code folds or filters, the model says what comes out (`IsOrder`,
`Passing`, `Total`) rather than how, since nothing can be proved here by induction over
data. Where a finite set has a greatest or a first member (`Greatest`,
`OldestFirstOf`), the proof takes a least set without one, by the
well-foundedness of inclusion.

Only model-checked: the liveness properties `EventuallyReceived`, `EventuallyVisible`,
`GroupServed`, `WriterNotStarved`, `ReaderWoken`, `LifespanMovesOn`, `ExecutionEnds` and
`StreamDrained` (the prover has no fairness reasoning here). Every invariant and every
action property that a run checks and expects to hold is stated by a theorem.

## Not modelled

Of the modelled components: snapshot and restore of queues, move tasks, several
queues in one store, queue attributes that change, code size limits; versioned and
selective snapshots, the debounce and the change tracker (a save under a temporary or
another name marks the tracker clean too); several shards, streams created again (they
keep the old position) and the positions lost by a restart; states of the language
other than a callback task; parameters, conditions and intrinsic functions of templates;
requests to both servers at the same time, except for boot and executions.

Of the system:

- *EventBridge Pipes*: a poll loop that ends because it sees its pipe stopped leaves its
  key in `_polling_threads`, and a start before the stop has removed it starts no thread;
  messages are deleted from the source before they are enriched and delivered; a Kinesis
  source is read from its start by every poll;
- *EC2 capacity*: profiles are fetched before the lock they change under; instances are
  released without a look at what TerminateInstances answered, and a failed RunInstances
  may keep its capacity;
- *Lambda invocation pool*: nested synchronous invocations on four threads wait for each
  other until they time out;
- request parsing, wire formats, the resource types of CloudFormation, service handlers
  that only look up and store, executors that start processes or containers, and
  developer tooling. `PROJECT.json` gives the reason for each.

## Plan

1. `Pipe` and `Capacity`, in place of two of the configurations above.
2. `LambdaPool`, composed with `LambdaConcurrency`; `MoveTask` and snapshots of queues on
   top of the queue modules; the consistent state manager on top of `ReadWriteLock`.
