# aioq in TLA+

A verification project for [aioq](../src/README.md), an asynchronous job queue
for Python with Redis, PostgreSQL, MySQL and in-memory brokers. The modules
state the life cycle of a job and model how the SQL, the Redis and the in-memory
brokers carry it out, the worker as an asyncio program, what it tells hooks and
metrics, the fleet-wide cron schedule and the registry of workers; TLC checks
them on small instances, and TLAPS proves the most important properties for
every value of the constants. All line numbers are in
`src/src/aioq/`.

    cd tla
    tlc -config SQLJobsClaims.cfg SQLJobsMC.tla      # one run of PROJECT.json
    tlapm SQLJobsProofs.tla                          # the proofs of one module

## The system

Producers, the CLI and the dashboard call **client operations** (enqueue,
enqueue_many, cancel, retry, replay, purge) on a **broker**.  **Workers** claim
jobs from the same broker, run them in up to `concurrency` asyncio tasks, and
write the outcome back.  There is no server process: every rule of the job life
cycle is carried out by whichever process happens to call the broker, and
processes interact only through what the broker stores.

| component | source | state | operations | what is hard |
|---|---|---|---|---|
| job model | models.py, task.py | a job: status, queue, retries, run_at, depends_on | reset_for_replay, build, serialise | which status may follow which, with several writers |
| SQL brokers | backends/sql.py, postgres.py, mysql.py, base.py | tables of jobs, workers, cron locks | enqueue, enqueue_many, dequeue, update_job, cancel, retry, replay, purge, promotion of dependents | an operation is several statements; `update_job` and the upsert write unconditionally |
| Redis broker | backends/redis.py | a record per job, a list per queue and priority tier, a deferred set, dependents, status sets | the same | every operation is several round trips; a record is read and written back whole; a popped id is nowhere but in the worker |
| in-memory broker | backends/memory.py | dictionaries shared by every coroutine of one process | the same | job objects are shared by reference |
| worker loop | worker.py:66-167 | semaphore, stop flag, sets of tasks | run, main loop, drain, heartbeat, signals | interleaving at awaits, cancellation at any of them, errors |
| job execution | worker.py:228-345 | the claimed job | process, success, failure, retry, dead letter | writes late what it claimed early; may be lost at any point |
| cron | cron.py, worker.py:173-222, acquire_cron_lock | a schedule per worker, expiring locks at the broker | tick, compete, fire | clocks disagree, loops lag, locks expire, calls fail |
| worker registry | register/heartbeat/deregister/list_workers | last heartbeat per worker | the same, and the reaping of stale entries (Redis) | read-modify-write of the entry, thresholds |
| retry delay | retry.py | none | compute_retry_delay | caps, jitter, a product that overflows |
| app and hooks | app.py, hooks.py | registrations made at import time | look-up of tasks, emission of events | a hook suspends its job's task while others go on |
| metrics | metrics.py | counters, a cache of listings | record_start, record_retry, record_finish, scrapes | attempts that end in an exception |
| CLI, dashboard | cli.py, dashboard/ | none | the client operations, as commands and HTTP routes | they read, then act on what they read |

What makes each correct:

- *brokers and job execution*: a job is given to one worker at a time; nothing
  overwrites a finished job; no job that could run is forgotten; a dependent runs
  after its dependencies, and does run; a job is given up only after its last
  attempt; a deferred job does not run early; a purge deletes only finished jobs.
- *worker loop*: concurrency slots are conserved through errors and
  cancellations; shutdown waits for the jobs in flight and leaves nothing behind;
  a stop is always honoured.
- *hooks and metrics*: the counters add up, and the application is told of each
  job's outcome once, and as it is stored.
- *cron*: an occurrence fires once over the whole fleet, and is not skipped.
- *registry*: a serving worker is seen alive, a stopped one is not seen at all.

`PROJECT.json` lists the hazards behind these, each at its line, with the properties
that would catch it or the reason why none does.

## The modules

| module | models | a step is |
|---|---|---|
| `AioqModels` | the statuses, the status sets and the resets of models.py | |
| `JobLifecycle` | what aioq promises about the life of one job, whatever stores it | one change of what is stored |
| `SQLJobs` | the job life cycle over a SQL broker: brokers, workers' job handling, clients | one SQL statement or transaction, with what the process computes before its next one |
| `RedisJobs` | the same over Redis | one round trip: a command, a MULTI/EXEC pipeline or a Lua script |
| `CronFleet` | the cron loops of all workers, the broker's locks, the clocks | one wake-up, one lock call, one tick of the broker's clock |
| `WorkerLoop` | one worker as coroutines | what one coroutine does between two awaits |
| `MemoryJobs` | the life cycle over the in-memory broker, in the event loop that clients and worker share | what a coroutine does until it is suspended: a whole operation |
| `RetryPolicy` | compute_retry_delay, as operators | |
| `JobExecution` | one worker's slots with hooks, metrics and the retry policy, over a broker whose calls may fail | what `_process` does between two suspensions |
| `WorkerRegistry` | workers' entries over Redis and over a table: heartbeats, the listing, its reaping of stale entries, clocks | one command, one tick of time |
| `*MC` | the constants of the small instances | |
| `SQLJobsProofs`, `RedisJobsProofs`, `RedisDeliveryProofs`, `MemoryJobsProofs`, `CronFleetProofs`, `WorkerLoopProofs`, `WorkerRegistryProofs`, `JobExecutionProofs` | theorems and proofs | |

`SQLJobs`, `RedisJobs` and `MemoryJobs` each implement `JobLifecycle`.
`JobExecution` stands on top of them: its broker does what `JobLifecycle` says,
so that the hooks and the metrics need not be repeated for every broker.

### JobLifecycle

The status diagram of docs/guide/enqueueing.md with what it leaves out: `retries`
and `executors`, the slots with an attempt that is alive.  An attempt begins with
`Take`, when the job is stored as running, while there is no other; it ends with
`Complete`, `Retry` or `GiveUp`, when its outcome is stored, or with `Lose`.  No
client action is enabled on a running job, `Retry` counts one attempt, and
`GiveUp` needs all of them used up.  `Reject` is for jobs whose task is unknown,
`Requeue` is retry_job and replay_dead_job, `Purge` deletes finished jobs only,
by a client or by expiry.

A broker model instantiates it once per job, as `Life(j)`, with `status` and
`retries` from what it stores and `executors` from its slots: those between claim
and outcome (SQL), with a popped id while the record says running (Redis), in the
user's function (memory).  `ImplementsLifecycle` is `\A j \in Job : Life(j)!Spec`,
written as one initial condition and one action, the form TLC evaluates.  The
brokers differ in two constants.  `Startable` has the statuses an attempt can
begin in: a job cancelled and purged between the in-memory dequeue and its task's
first turn runs all the same, as `get_job` does not find it.  `MayLose` is false in
memory, where process and store are lost together.

### SQLJobs

`row` is the jobs table (`"absent"`: no row).  `proc` holds, for every
concurrency slot of every worker and every client, where it is in its operation
and the Job objects in its local variables: this is what a late write writes.
A slot goes *claimed → start → invoke → finish → resolve → promote*: `Claim` is
dequeue (the same in PostgreSQL, one UPDATE over a SKIP LOCKED subquery, and in
MySQL, one transaction), `CheckCancelled` the `get_job` of `_process`, `Start`
the first `update_job`, `Succeed`/`ScheduleRetry`/`MoveToDLQ`/`Fail` the end of
the task, `Finish` the `update_job` with the outcome, `FetchDependents`,
`CountDeps` and `MarkPending` the promotion loop.  `CheckDeps`, `Upsert` and the
promotion loop are the enqueue, shared by clients and by a worker's retry.  The
two SQL brokers differ in `enqueue_many`, one transaction in PostgreSQL and one
autocommit per row in MySQL: the constant `AtomicBatch`.  `Crash` loses a process
between any two statements, and stands for an exception raised by a call too.

`due` abstracts `run_at`: in the past, or not yet.  `Rank` is the position in
`ORDER BY priority DESC, enqueued_at`.  Names, arguments, results, errors and
timestamps are left out: no property tells them apart.

### RedisJobs

Separate variables for what Redis stores under separate keys (`record`,
`pending`, `deferred`, `dependents`, and the indexes `listed` by status, `filed`
by queue and `expiring`), since what can go wrong is that they disagree.  `GetOld` and `Write` are `_write_job`: the read of the old record
and the transaction that writes the new one, moves the status-set entry and
pushes.  `PromoteDeferred` is the Lua script (one atomic step over all queues of
the worker), `Pop` the BRPOP over priority tiers, `Load` the GET after it.
`Register`, `CheckDep`, `PromoteGet`, `PromoteDep` and `Wake` are the dependency
protocol, one round trip each.  A job in `Kept` saves its result for a while:
`ResultExpires` is Redis dropping its record, `Reap`, `ReapForget` and `ReapRemove` the
reaper that queue_stats and purge start with, which finds the entries (a job and a
queue) whose time has passed, forgets them one by one and takes them off `expiring`, and `Query` queue_stats
itself.  `Cancels` are the jobs an instance's clients cancel.

### CronFleet

`now` is the broker's clock, `Ahead[w]` the offset of a worker's clock.  A worker
schedules the next occurrence *before* it competes for the lock (worker.py:193),
as the code does; `AcquireFails` is a call that raises, or a worker that goes
down during it, after the broker granted the lock or before.  `Tick` advances the
clock, but never so far that a worker would compete for an occurrence more than
`MaxLag` late: the bound under which the lock's TTL can protect anything.

### WorkerLoop

`main` is the await at which `run()` is suspended.  A slot of the semaphore is
taken before the dequeue and released by the callback of the job's task, by an
empty or failing dequeue, or by a cancelled one.  The loop looks at the stop flag
before it waits for a slot and not after, so a worker stopped while full claims
one more job: the model does the same.  Cancellation of `run()` itself is modelled
at every await, inside the main loop (`CancelLoop`) and inside the finally block
(`CancelGather`, `CancelLeave`), where it makes `gather` cancel the jobs.
A call that raises or is cancelled may have had its effect: a failed registration
may leave an entry (`StartFails`), a failed deregistration may have removed it
(`DeregisterFails`, `CancelLeave`).  If it has one, it has it before the worker's
next call.

### MemoryJobs

No broker operation suspends but a blocked dequeue: the lock is never held across
an await, so acquiring it does not yield, and the nested calls are plain
coroutines.  A step is therefore a whole operation, and the interleavings left are
those at the start of a job's task (dequeue returns a job and its task runs later:
`claimed`) and during the user's function (`invoke`).  `job` is the one Job object
per id that everybody shares; `jobs` the keys of `_jobs`: a purged object lives on
in the worker that has it, and is stored again with its outcome.  `ready` has the
lists of ids as sets, since their order is a function of the jobs (`Rank`).  Unlike
the other brokers', this dequeue does not mark the job as running.

### JobExecution

`slot` has what each slot is doing and its own Job object, `told` how often each
hook was called for each job, `started`, `finished` and `retried` the counters.
One attempt is *claimed → start → on_start → invoke → store → tell*: the
look-up of the task and `get_job`, `update_job`, the on_start hooks, the user's
function, `update_job` or `enqueue` with the outcome, the hooks of the outcome.
After each the worker goes on to the next suspension: `record_start` follows the
on_start hooks, `record_retry` the enqueue, and `Finish` is the finally clause.
`StoreOutcome` makes a retried job available at once, while the on_retry hooks of
the attempt before may still be running.  `Fault` is a broker call that raises,
with or without effect, or a coroutine cancelled at any suspension: `_process`
catches neither.  `RetryOverflows` is the exception of compute_retry_delay, whose
product `RetryPolicy` has as a float with a largest power of two (`FloatExp`).  A
hook that raises is logged and changes nothing.

### WorkerRegistry

`entry` and `age` are the hash of workers and the time since each last heartbeat;
`beat`, `wait` and `held` the heartbeat loop: asleep, or between its HGET and its
HSET with a time stamp `held` old.  Clocks are kept as ages up to the largest
threshold, so that time needs no bound.  `List` and `Reap` are the HGETALL and the
HDEL of list_workers, with an age read up to `MaxSkew` wrong.  `Tick` lets no worker
be later than `Latency` with its heartbeat, except those in `Stalling`, whose jobs
may block the event loop.  `broker` chooses between Redis and a table: over the
SQL and the in-memory brokers a heartbeat is one statement (`BeatRow`) and nothing
reaps, so that an entry left by a crash stays, and is shown as dead.

## What the runs check

Every property of a passing run has a mutant in `PROJECT.json`: a plausible bug
in a mapped definition under which TLC finds the property violated.

| run | instance | properties |
|---|---|---|
| `sql_claims` | 3 jobs (c depends on a and b; a may retry once, b is dead-lettered, c's task is unknown), 2 slots, 2 clients, all operations, batches of 2 committed row by row, 1 crash | `ExclusiveClaim`, `ClaimInv`, `NoOrphan`, `NoLostWakeup`, `TerminalStable`, `ImplementsLifecycle` |
| `sql_dependencies` | the same jobs with a known task, atomic batches, enqueue and cancel, fair | `DependencyOrder`, `DependenciesRelease`, `EverySubmittedJobSettles` |
| `redis_delivery` | 2 independent jobs in two tiers with saved results, 2 slots on both queues, delay, retry, replay, purge, statistics, expiry, 2 crashes | `SingleDelivery`, `NotStranded`, `StatsExact`, `NotBeforeRunAt`, `ImplementsLifecycle` |
| `redis_wakeups` | b depends on a, a's result is saved and b's task unknown, 2 slots, delay, cancel of b, retry, purge, statistics, expiry, fair | `NoLostWakeup`, `EverySubmittedJobSettles` |
| `cron_fleet` | 2 workers, one clock ahead and one behind, 2 crons of different periods, 1 failing lock call, locks that expire within the run | `AtMostOnce`, `NoneMissed` |
| `memory_jobs` | 4 jobs (c depends on a and b; a may retry once, b is dead-lettered, d's task is unknown), 2 slots on both queues, every operation, batches of 2; clients retry failed jobs | `ExclusiveClaim`, `ReadyMatches`, `NoStaleWait`, `TerminalStable`, `ImplementsLifecycle` |
| `job_execution` | 4 jobs (a backs off, is capped, depends on another job and overflows on its second retry, b is dead-lettered, c's task is unknown, d fails), 2 slots, clients that cancel, 1 fault, fair | `MetricsAddUp`, `HooksTellTheTruth`, `EveryEndIsTold` |
| `worker_registry` | Redis or a table, 2 workers, one that may block, 2 viewers, clocks 1 apart, 1 failing heartbeat, heartbeats every 2 ticks and up to 1 late, thresholds 9 and 10, fair | `ServingShown`, `GoneLeaves` |
| `worker_loop` | 3 jobs, 2 slots, 1 cron, 2 failures or cancellations, fair | `SlotsConserved`, `DrainedBeforeLeaving`, `NeverResurrected`, `StopIsHonoured`, `QueueIsServed` |

A lost process really does take its job, its wake-ups or its occurrence with it
(below).  `NoOrphan` and `NotStranded` count the jobs taken: never more than the
processes lost, and none for any other reason.  `NoLostWakeup` of `SQLJobs` is stated
for the states before the first crash (`crashes = 0`), and `NoneMissed` for those
before the first failed lock call; `redis_wakeups` has no crash, and `EveryEndIsTold`
holds until the first exception that escapes.

**Bounds.**  Two slots and two clients are enough for every race between two
writers; a third would repeat one of the roles.  Three jobs give a dependent two
dependencies that finish at different times and in different ways; over Redis two
jobs do, because the promotion of a dependent looks at one dependency per round
trip.  `MaxCalls` bounds the client operations over Redis and `MaxCrashes` the
losses; jobs retry at most once, so that both sides of the retry boundary are
reached.  `MaxCrashes` is 2 in `redis_delivery`, so that a reap may be lost and the
next one too.  Over SQL client operations are not bounded: the state space is finite.
In `memory_jobs` nothing is bounded but the batch.  In `worker_registry` the
thresholds are the smallest that satisfy `BeatsOutliveTTL` for one lost heartbeat,
as 10, 30 and 300 seconds do in the code (two in a row would not be tolerated), so
that any longer silence violates `ServingShown`.  `MaxTime` in CronFleet covers two
occurrences of each cron and the expiry of the locks taken on them; `MaxErrors` in
WorkerLoop equals the concurrency, so that leaking a slot per error would wedge the
loop.  In `job_execution` `FloatExp` is 1, a small stand-in for 1024, so that the
second attempt overflows instead of the 1025th, and `BackoffMax` is below the
first delay, so that the cap bites; `MaxFaults` bounds the exceptions that escape
by a call or a cancellation, and each takes no more than its own attempt along.  Slots and clients are symmetric
where a run checks no liveness.

**Fairness.**  Weak fairness on what a process does by itself: a call to the
broker returns, a task ends, a callback is run, a polling worker with a free slot
polls, a clock advances.  Nothing forces a client to call, a worker to stop, a
process to crash or a call to fail.  A slot's claim is fair because the worker's
main loop never stops polling while it has slots (worker.py:98), and the fairness
of `Run` in WorkerLoop is that of the event loop for a ready coroutine.  In
`job_execution` calls, hooks and tasks return, a free slot polls, and a delay ends
(`BecomesDue`): timeouts bound only the tasks that have one, so that for the others
this is an assumption on the application, as it is for its hooks.
`GoneLeaves` needs that somebody goes on listing the workers, as the dashboard's
pages and the metrics do: strong fairness of a listing that finds a stale entry.
Without it nobody removes the entry, in the code as in the model.

**Deadlock** is not checked: every system here really may stop, when all jobs are
settled, the worker has returned, or the bounds are used up.

### Where the code does not do what is said of it

Each is a run that TLC must find violated; `PROJECT.json` quotes the statement.

- `sql_crashed_completion`: the completion is committed before the dependents
  are promoted; a worker lost in between leaves them waiting for ever.
- `redis_double_promotion`: the enqueuing client and the completing worker both
  promote a waiting job, which is delivered twice and run by two slots at once.
- `redis_purge_race`: a failed job retried between purge's listing and its fetch
  is deleted while queued.

The same models show further behaviours that have no run of their own.  They are
why the instances above leave some operations out:

- over SQL and in memory, retrying a cancelled job makes it pending whatever its
  dependencies, so that `sql_dependencies` has no retry (`DependencyOrder`; the
  guide has `depends_on` "ensure a job runs only after other jobs complete",
  docs/guide/enqueueing.md:159);
- over Redis, a promoted job goes to the pending list whatever its run_at, so that
  `redis_delivery` has independent jobs (`NotBeforeRunAt`);
- over Redis, a cancel that has read a job as pending and the worker that starts
  it overwrite each other, so that `redis_delivery` has no cancel
  (`ImplementsLifecycle`), and cancelling and retrying a queued job queues it twice
  (`SingleDelivery`);
- over Redis, two clients retrying the same job around a claim leave its id in two
  status sets, so that `redis_delivery` has one client (`StatsExact`);
- over Redis, a purge of a job cancelled under a running worker deletes its
  `dependents` before the worker completes it, so that clients of `redis_wakeups`
  cancel the dependent only;
- a job whose dependency was purged or has expired waits for ever, and
  `EverySubmittedJobSettles` counts it as settled;
- a retry whose delay overflows a float raises out of `_process`, and leaves the job
  stored as running, as does a broker call that fails while the outcome is stored
  (`EveryEndIsTold`);
- over SQL, `replay_dead_job` writes the row twice; a worker that serves the dead
  letter queue and claims it in between loses its exclusive claim, so that
  `sql_claims` and the theorems have nobody serve that queue;
- over SQL, a dependency purged before the last one completes no longer counts,
  so that `sql_dependencies` has no purge;
- in memory, a job cancelled and retried between dequeue's return and the first
  turn of its task runs twice, so that clients of `memory_jobs` retry failed jobs
  only; a job whose task is unknown is marked failed even when it was cancelled
  meanwhile (`TerminalStable` leaves those jobs out);
- a worker that drains for longer than 30 s is shown as dead, and one that was
  blocked for longer than the reaping threshold may lose its entry for good;
- an occurrence whose lock call fails is fired by nobody, and a worker later than
  the lock's TTL fires it again (the hypotheses of the cron theorems).

## What is proved

The theorems hold for any sets of jobs, slots, clients, workers and crons, any
dependencies, retries and bounds, from the modules' `ASSUME`s (types of the
constants) and the hypotheses named here.

| theorem | states | hypothesis |
|---|---|---|
| `SQLJobsProofs!Typing` | `[]TypeOK` | none |
| `SQLJobsProofs!ClaimsGuarded` | `[]ClaimInv` | `NoServedReplay`: if jobs are replayed, nobody serves the dead letter queue |
| `SQLJobsProofs!Exclusive` | `[](ExclusiveClaim /\ ExecutingIsRunning)` | `NoServedReplay` |
| `SQLJobsProofs!Terminal` | `TerminalStable` | `NoServedReplay` |
| `SQLJobsProofs!Implements` | `ImplementsLifecycle` | `NoServedReplay` |
| `SQLJobsProofs!NothingForgotten` | `[]NoOrphan` | `NoServedReplay` |
| `SQLJobsProofs!WakeUps` | `[]NoLostWakeup` | `NoServedReplay` |
| `SQLJobsProofs!Ordered` | `DependencyOrder` | `NoServedReplay`, `NoRetryNorPurge`: no client retries or purges |
| `RedisJobsProofs!TypeCorrect` | `[]TypeOK` | none |
| `RedisJobsProofs!WakeUps` | `[]NoLostWakeup` | `NothingLost`: no crash, no purge, no result that expires |
| `RedisJobsProofs!NoneWaitsInVain` | `[]NoKnownWaitsInVain`: `NoLostWakeup` for the jobs that their dependencies still know | no crash |
| `RedisDeliveryProofs!NoneStranded` | `[]NotStranded` | none |
| `RedisDeliveryProofs!DeliveredOnce` | `[]SingleDelivery` | `Alone`: no dependencies; nothing is cancelled if clients retry, and one client only if they retry or replay |
| `RedisDeliveryProofs!SoloDelivered` | single delivery of each job in `Solo` (it has no dependencies, and is not both cancelled and retried), whatever the others depend on | one client only, if they retry or replay |
| `RedisDeliveryProofs!RunsOnTime` | `[]NotBeforeRunAt` | `Alone` |
| `RedisDeliveryProofs!StatsAddUp` | `[]StatsExact` | `Undisturbed`: `Alone`, and nothing is cancelled |
| `RedisDeliveryProofs!Implements` | `ImplementsLifecycle` | `Undisturbed` |
| `RedisDeliveryProofs!PurgesSpareQueued` | `PurgeSparesQueued` | `Undisturbed` |
| `MemoryJobsProofs!MemTyping` | `[]TypeOK` | `NoCancelledRetry`: no client retries a cancelled job |
| `MemoryJobsProofs!MemExclusive` | `[](ExclusiveClaim /\ ExecutingIsRunning)` | `NoCancelledRetry` |
| `MemoryJobsProofs!MemNothingForgotten` | `[](ReadyMatches /\ NoOrphan)` | `NoCancelledRetry` |
| `MemoryJobsProofs!MemImplements` | `ImplementsLifecycle` | `NoCancelledRetry` |
| `MemoryJobsProofs!MemNoStaleWait` | `[]NoStaleWait` | `NoCancelledRetry` |
| `MemoryJobsProofs!MemTerminal` | `TerminalStable` | `NoCancelledRetry` |
| `CronFleetProofs!CronTyping` | `[]TypeOK` | none |
| `CronFleetProofs!FiresAtMostOnce` | `[]AtMostOnce` | `LockOutlivesLag`: MaxAhead + MaxLag < TTL |
| `CronFleetProofs!MissesNone` | `[]NoneMissed` | none |
| `WorkerLoopProofs!TypeCorrect` | `[]TypeOK` | none |
| `WorkerLoopProofs!SlotsNeverLeak` | `[]SlotsConserved` | none |
| `WorkerLoopProofs!ConcurrencyBound` | no more jobs in flight than `concurrency` | none |
| `WorkerLoopProofs!Drains` | `[]DrainedBeforeLeaving` | none |
| `WorkerLoopProofs!StaysGone` | `NeverResurrected` | none |
| `WorkerRegistryProofs!TypeCorrect` | `[]TypeOK` | none |
| `WorkerRegistryProofs!ServingWorkersShown` | `[]ServingShown` | none; the property itself asks that the thresholds leave room for the silences (`BeatsOutliveTTL`) |
| `JobExecutionProofs!TypeCorrect` | `[]TypeOK` | none |
| `JobExecutionProofs!MetricsExact` | `[]MetricsAddUp` | none |
| `JobExecutionProofs!HooksTrue` | `[]HooksTellTheTruth` | none |

*Exclusive claims.*  `update_job` and the upsert write a row whatever it says by
then, so that exclusiveness is not inductive: it holds because of who may be
about to write.  `ClaimInv` says so: a slot holds at most the job it executes,
whose row is running; a client about to write holds an id nobody else knows
(`FreshWrite`) or a dead job in a queue nobody serves (`ReplayWrite`).  Each
action keeps each part; an action that changes neither the status nor the queue
of a row keeps all of them (lemma `RowKeeps`).  `ClaimInv` is an invariant of
`sql_claims` too.

*Refinement over SQL.*  The step of each action is mapped, job by job, to a step
of `JobLifecycle` or to none.  `LifeInv` carries what the mapping needs: a row
never counts more attempts than the job has (`RowLife`), and the copy in the slot
that executes the job counts them as the row does (`Attempt`), so that the late
write with the outcome is the next step of the life and not a step from an older
state.  A row that no step names stays as it is (frame lemmas), which leaves one
job per action to look at.  The same proof shows that no step but a crash adds to
the running rows without a slot (`Orphans`), and a crash adds the one job its process
was executing: `NoOrphan`, by induction on the number of losses (`FewOrphans`).

*Dependencies over SQL.*  `DepInv` says of each job that is or was claimable that
its dependencies have completed (or that it is a replayed job nobody can claim), and
of each process on its way to make one pending that it has seen so; a completed row
stays because of `ClaimInv` and the hypothesis `NoRetryNorPurge`.  `WakeUps` follows a waiting job: whoever wrote the
last fact that makes it ready (its own row, or the completion of a dependency)
goes on to a loop that visits it, and it leaves the loop only promoted or with a
dependency found open.

*Redis: wake-ups and stranded jobs.*  `Wakes` is the protocol of enqueue: a job that
is or will be stored as waiting is registered with every dependency (`Registered`),
and whoever stores it goes on to look again; whoever stores a completion goes on to
the dependents.  Of the two last writes the later one is therefore followed by a
visit.  `NothingLost` is needed: a crash between a completion and the promotion loses
the wake-up, and a purge or an expiry deletes the set of dependents.
`NoneWaitsInVain` shows that this is all a deletion can do.  Its invariant `Attended`
looks at the jobs that all their dependencies have completed for and still know
(`Linked`): each that waits is attended by a process, one about to promote it or one
in enqueue that looks at its dependencies, or will when it has written it.  A write can
only make a job linked or waiting in the hands of the process that attends to it next,
and a deletion of a record makes no job linked, whoever deletes and whatever a late
write brings back.
`Sending` says that whoever stores a job as runnable pushes it in the same
transaction or, in a replay, in the next one, and that only a slot that goes on to run
it stores it as running (`SendsAs`).  Hence no step but a crash adds to the jobs that
are live and nowhere (`Astray`), and a crash adds one, as a popped id is nowhere but
in the worker: `NotStranded` (`FewAstray`).

*Redis: delivery.*  Nothing but the list an id is popped from keeps two workers
apart, so that single delivery is a fact about *places*: a process, a list, a
deferred set.  `Placed` says that a job of `Solo` is in one at most (`Single`), that a
finished one is nowhere until a client pushes it again, and that whatever is
anywhere was given to enqueue; `Rooted` says what each process that has such a job can
be in the middle of, and that none of them is waiting.  A step
moves a job from one place to another or puts a new one somewhere (lemmas
`Relocated`, `PlacesKept`); the Lua script and LPUSH are proved to move exactly the ids
they should, and a step about another job, the promotion of a dependent and the
cascade of a failure among them, leaves every job of `Solo` where it was (`Elsewhere`).
This is `SoloDelivered`.  `DeliveredOnce` is the case in which every job is in `Solo`
(`Whereabouts`).  `Ripened` adds that once an id can be claimed every copy of its job
is due, so that no late write brings back an earlier run_at.  `Solo` and the one client
leave out what breaks this in the code: two requeues of a failed job push it twice, so
does the retry of a cancelled job that a slot still has, and so do two promotions of
one job.  Crashes, purges, expiries and reaps are all included.

*Redis: records, index, life cycle.*  A write replaces the whole record by a copy
read some round trips before.  `Staged` says that the copy is still good: what is
queued is stored as runnable, and whoever has a job (one process, by `Whereabouts`)
has it as it is stored, with one attempt more once the attempt has failed.  Hence
each write is a step of the life cycle.  `Indexed` says that each job is in the
sets of its status and queue and no others, or has expired and is still listed for
the reap (`Tallied`), and that what a purge or a reap has in hand is finished and
stays so (`ReapAs`, `Spent`), for whoever could requeue it is the very client that
is purging: hence the deletions are steps of the life cycle too, and
`PurgesSpareQueued` follows from the refinement.  With a cancel, which reads the
record and writes it back over what a worker has stored meanwhile, or with a second
client that retries, none of the three holds (`redis_purge_race`, and the list above).

*Cron.*  `CronInv` adds to `AtMostOnce` that a fired occurrence is closed: its
lock outlives every moment at which a worker may still compete for it.  That in
turn needs each worker's schedule to be within `MaxLag` of the clock and not
ahead of it by more than `MaxAhead`.  `MissInv` says that a lock on an occurrence
means it was fired, and carries that through every schedule until a lock call
fails.

*Worker loop.*  `SlotsConserved` needs that a job in the queue has no task, so
that a claim adds one to the tasks in flight, and its proof counts that set.
`DrainedBeforeLeaving` needs that a job is cut short only by a drain that is
itself cancelled, after which `run()` raises and never deregisters.

*In-memory broker.*  `MemInv` is stated per job (`JobInv`): where its id may be (on
the list of its queue, in one slot, or nowhere) for each status.  An action that
leaves a job's object, its place on the lists and its slots alone keeps it
(lemma `Frame`), so that each action's proof is about the one job it touches.
The refinement and `NoStaleWait` rest on the same invariant: promotion is part of
the step that completes a job, so that the wait ends where its last reason does.

*Registry.*  `ServingShown` needs a bound on the age of a serving worker's entry
that holds at every moment of its heartbeat loop.  `ShownInv`: the age of the entry
and the time to the loop's next call never exceed `Silence(errors)`, one round of
the loop and one more for each heartbeat that has failed; a
write under way carries a time stamp no older; and no viewer has found the entry
stale.

*Job execution.*  `TypeOK` bounds the delay of a retry, from the lemma
`DelayBounded` on `RetryPolicy`'s operators (a power of two is a natural number
because it counts subsets).  `Local` says what a slot and a stored job hold in
each phase; `Owned` that one slot at a time is at a job, which counts the attempts
as the broker does; from it, that a stored end stays (`ClosedStays`), and that the
slot that stored it is the only one to tell it (`Truth`).  The counters and the
calls of the hooks are compared with the number of slots that are measured and
that tell a retry (`MetricsInv`, `HookCounts`): a step moves one slot, and changes
both sides alike.

**Only model-checked**: the liveness properties (`DependenciesRelease`,
`EverySubmittedJobSettles`, `StopIsHonoured`, `QueueIsServed`, `GoneLeaves`,
`EveryEndIsTold`), since liveness under fairness is out of TLAPS's reach here; and
`NoLostWakeup` of `RedisJobs` where a purge, an expiry or a reap deletes a set of
dependents, as in `redis_wakeups`, whose dependency is never cancelled (of one that is
cancelled TLC finds it violated).

## Not modelled

- What the listings (list_jobs, queue_stats) return and what renders it:
  metrics.py's collector with its cache, cli.py's output, dashboard/.  That
  the sets they read agree with the jobs is `StatsExact`; the commands and routes
  that change jobs are the client operations.
- Several jobs in one purge: they are seen as one purge each.
- The conversions of stored rows and records.  One is not the identity: a stored
  `retry_backoff_max` or `result_ttl` of 0 is read back as the default.
- Registration of tasks, crons and hooks, which happens at import time, and what
  hooks do; an exception in one is logged.
- Over the in-memory broker, the one Job object that a slot's late metrics and hooks
  share with the job's next attempt: `JobExecution` gives each slot its own.
- Connecting, reconnecting and the schema set-up of the brokers, apart from
  `WorkerLoop`'s calls that fail.
- nack, which nothing calls, and the in-memory broker's clear, for tests.

## Plan

Done, in this order: `AioqModels`, `SQLJobs` with its proofs, `CronFleet` with its
proofs, `RedisJobs`, `WorkerLoop` with its proofs, `MemoryJobs` with its proofs,
`WorkerRegistry`, `JobLifecycle` with the three refinements, `RetryPolicy`,
`JobExecution`.

Then the proofs of all safety properties of the passing runs, the three refinements
included.

Left open: that `NoLostWakeup` holds under purges and expiries too when the
dependencies are never cancelled, for then only jobs whose dependents have been looked
at are deleted.
