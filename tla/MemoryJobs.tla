------------------------------ MODULE MemoryJobs ------------------------------
(***************************************************************************)
(* The job life cycle of aioq over the in-memory broker (memory.py) and the *)
(* worker's job handling (worker.py), in the one event loop they share.     *)
(*                                                                          *)
(* No broker operation but a blocked dequeue ever suspends: its lock is     *)
(* never held across an await, so that acquiring it does not yield.  A step *)
(* is therefore a whole operation, and all that a coroutine does up to its  *)
(* next suspension: the start of a new task and the user's functions.       *)
(* The broker, the worker and the caller share one Job object per id.       *)
(***************************************************************************)
EXTENDS AioqModels, FiniteSets

CONSTANTS
    Job,            \* the job ids of one run
    Slot,           \* the concurrency slots of the workers
    None,           \* a slot without a job
    DependsOn,      \* Job.depends_on
    MaxRetries,     \* Job.max_retries
    DeadLettered,   \* the jobs with a dead_letter_queue
    Unknown,        \* the jobs whose task the application has not registered
    Rank,           \* position in the order (-priority, enqueued_at)
    Queues,         \* the queues each slot's worker consumes
    Retried,        \* the statuses clients call retry_job on
    MaxBatch        \* bound: jobs in one enqueue_many

ASSUME DependsOnAssumption == DependsOn \in [Job -> SUBSET Job]
ASSUME MaxRetriesAssumption == MaxRetries \in [Job -> Nat]
ASSUME RankAssumption == Rank \in [Job -> Nat]
ASSUME QueuesAssumption == Queues \in [Slot -> SUBSET Queue]
ASSUME SetsAssumption == /\ DeadLettered \subseteq Job
                         /\ Unknown \subseteq Job
                         /\ Retried \subseteq RETRIABLE_STATUSES
ASSUME NoneAssumption == None \notin Job
ASSUME BoundsAssumption == MaxBatch \in Nat

VARIABLES
    job,        \* the Job object of each id, wherever it is referenced from
    jobs,       \* the keys of _jobs
    ready,      \* _ready: the ids of each queue's list; Rank is their order
    slot,       \* what each slot is doing
    submitted   \* ids already drawn

vars == <<job, jobs, ready, slot, submitted>>

\* claimed: the task of _process is created and has not run yet.  invoke:
\* the on_start hooks, then the task function.
SlotState == [pc : {"idle", "claimed", "invoke"}, job : Job \cup {None}]
Idle == [pc |-> "idle", job |-> None]

-----------------------------------------------------------------------------
(* The dictionaries.                                                        *)

\* _all_deps_completed, through get_job.
AllDepsCompleted(j) == \A d \in DependsOn[j] : d \in jobs /\ job[d].status = "completed"

\* enqueue: store the object, as waiting or on its queue's list.  Its second
\* look at the dependencies follows the first without a suspension.
Put(j, object) ==
    LET runs == AllDepsCompleted(j)
    IN  /\ job' = [job EXCEPT ![j] = IF runs THEN object ELSE [object EXCEPT !.status = "waiting"]]
        /\ jobs' = jobs \cup {j}
        /\ ready' = IF runs THEN [ready EXCEPT ![object.queue] = @ \cup {j}] ELSE ready

\* update_job with an outcome that promotes nobody.
Update(j, object) ==
    /\ job' = [job EXCEPT ![j] = object]
    /\ jobs' = jobs \cup {j}
    /\ ready' = ready

-----------------------------------------------------------------------------
(* A worker.                                                                *)

Runnable(s) == {j \in jobs : job[j].due /\ \E q \in Queues[s] : j \in ready[q]}

\* Mutation: the id stays on its list until the job is finished.
MutClaim(s, j, q) ==
    /\ slot[s].pc = "idle"
    /\ j \in Runnable(s) /\ q \in Queues[s] /\ j \in ready[q]
    /\ \A k \in Runnable(s) : Rank[j] <= Rank[k]
    /\ ready' = ready
    /\ slot' = [slot EXCEPT ![s] = [pc |-> "claimed", job |-> j]]
    /\ UNCHANGED <<job, jobs, submitted>>

\* dequeue: the first due job of the queues' lists; a cancelled one is dropped
\* and the loop looks again.  The status does not change.
Claim(s, j, q) ==
    /\ slot[s].pc = "idle"
    /\ j \in Runnable(s) /\ q \in Queues[s] /\ j \in ready[q]
    /\ \A k \in Runnable(s) : Rank[j] <= Rank[k]
    /\ ready' = [ready EXCEPT ![q] = @ \ {j}]
    /\ slot' = IF job[j].status = "cancelled" THEN slot
               ELSE [slot EXCEPT ![s] = [pc |-> "claimed", job |-> j]]
    /\ UNCHANGED <<job, jobs, submitted>>

\* _process records the outcome of the slot's job and returns.
Return(s) == slot' = [slot EXCEPT ![s] = Idle]

RejectUnknown(s, j) ==
    /\ slot[s] = [pc |-> "claimed", job |-> j]
    /\ j \in Unknown
    /\ Update(j, [job[j] EXCEPT !.status = "failed"])
    /\ Return(s)
    /\ UNCHANGED submitted

\* get_job: a job cancelled after the claim is dropped.
DropCancelled(s, j) ==
    /\ slot[s] = [pc |-> "claimed", job |-> j]
    /\ j \notin Unknown
    /\ j \in jobs /\ job[j].status = "cancelled"
    /\ Return(s)
    /\ UNCHANGED <<job, jobs, ready, submitted>>

\* Mutation: no look at the job's status before it starts.
MutStart(s, j) ==
    /\ slot[s] = [pc |-> "claimed", job |-> j]
    /\ j \notin Unknown
    /\ Update(j, [job[j] EXCEPT !.status = "running"])
    /\ slot' = [slot EXCEPT ![s].pc = "invoke"]
    /\ UNCHANGED submitted

Start(s, j) ==
    /\ slot[s] = [pc |-> "claimed", job |-> j]
    /\ j \notin Unknown
    /\ ~(j \in jobs /\ job[j].status = "cancelled")
    /\ Update(j, [job[j] EXCEPT !.status = "running"])
    /\ slot' = [slot EXCEPT ![s].pc = "invoke"]
    /\ UNCHANGED submitted

\* Mutation: the dependencies are looked at before the completion is stored.
MutReleased(j) == {k \in jobs : /\ job[k].status = "waiting" /\ j \in DependsOn[k]
                                /\ AllDepsCompleted(k)}

\* The waiting jobs that the completion of j makes pending.
Released(j) ==
    {k \in jobs \ {j} : /\ job[k].status = "waiting" /\ j \in DependsOn[k]
                        /\ \A d \in DependsOn[k] \ {j} : d \in jobs /\ job[d].status = "completed"}

\* update_job of a completed job, with its promotions.
Succeed(s, j) ==
    /\ slot[s] = [pc |-> "invoke", job |-> j]
    /\ job' = [k \in Job |-> IF k = j THEN [job[k] EXCEPT !.status = "completed"]
                             ELSE IF k \in Released(j) THEN [job[k] EXCEPT !.status = "pending"]
                             ELSE job[k]]
    /\ jobs' = jobs \cup {j}
    /\ ready' = [q \in Queue |-> ready[q] \cup {k \in Released(j) : job[k].queue = q}]
    /\ Return(s)
    /\ UNCHANGED submitted

CanRetry(j) == job[j].retries < MaxRetries[j]

\* The task raised or timed out with attempts left.
ScheduleRetry(s, j) ==
    /\ slot[s] = [pc |-> "invoke", job |-> j]
    /\ CanRetry(j)
    /\ \E due \in BOOLEAN : Put(j, Retrying(job[j], due))
    /\ Return(s)
    /\ UNCHANGED submitted

MoveToDLQ(s, j) ==
    /\ slot[s] = [pc |-> "invoke", job |-> j]
    /\ ~CanRetry(j) /\ j \in DeadLettered
    /\ Update(j, [job[j] EXCEPT !.status = "dead", !.queue = "dlq"])
    /\ Return(s)
    /\ UNCHANGED submitted

\* Mutation: the last error is logged and not recorded.
MutFail(s, j) ==
    /\ slot[s] = [pc |-> "invoke", job |-> j]
    /\ ~CanRetry(j) /\ j \notin DeadLettered
    /\ Return(s)
    /\ UNCHANGED <<job, jobs, ready, submitted>>

Fail(s, j) ==
    /\ slot[s] = [pc |-> "invoke", job |-> j]
    /\ ~CanRetry(j) /\ j \notin DeadLettered
    /\ Update(j, [job[j] EXCEPT !.status = "failed"])
    /\ Return(s)
    /\ UNCHANGED submitted

-----------------------------------------------------------------------------
(* The client API.                                                          *)

\* Task.enqueue and enqueue_many: new jobs that share one run_at, depending
\* on jobs whose ids the caller already has.
Enqueue(batch) ==
    LET runs == {j \in batch : AllDepsCompleted(j)}
    IN  /\ batch # {} /\ batch \cap submitted = {} /\ Cardinality(batch) <= MaxBatch
        /\ \A j \in batch : DependsOn[j] \subseteq submitted
        /\ \E due \in BOOLEAN :
              job' = [j \in Job |-> IF j \in runs THEN Fresh(due)
                                    ELSE IF j \in batch THEN [Fresh(due) EXCEPT !.status = "waiting"]
                                    ELSE job[j]]
        /\ jobs' = jobs \cup batch
        /\ ready' = [ready EXCEPT !["home"] = @ \cup runs]
        /\ submitted' = submitted \cup batch
        /\ UNCHANGED slot

Cancellable(j) == j \in jobs /\ job[j].status \in CANCELLABLE_STATUSES

\* Mutation: the id is left on its list for dequeue to drop.
MutCancelJob(j) ==
    /\ Cancellable(j)
    /\ job' = [job EXCEPT ![j].status = "cancelled"]
    /\ UNCHANGED <<jobs, ready, slot, submitted>>

CancelJob(j) ==
    /\ Cancellable(j)
    /\ job' = [job EXCEPT ![j].status = "cancelled"]
    /\ ready' = [ready EXCEPT ![job[j].queue] = @ \ {j}]
    /\ UNCHANGED <<jobs, slot, submitted>>

RetryJob(j) ==
    /\ j \in jobs /\ job[j].status \in RETRIABLE_STATUSES
    /\ job[j].status \in Retried
    /\ job' = [job EXCEPT ![j] = Reset(job[j])]
    /\ ready' = [ready EXCEPT ![job[j].queue] = @ \cup {j}]
    /\ UNCHANGED <<jobs, slot, submitted>>

\* update_job, then enqueue, of the reset object.
ReplayDeadJob(j) ==
    /\ j \in jobs /\ job[j].status = "dead"
    /\ Put(j, Reset(job[j]))
    /\ UNCHANGED <<slot, submitted>>

\* purge with the default statuses: `old` are the finished jobs past the cutoff.
Purge(old) ==
    /\ old \subseteq {j \in jobs : job[j].status \in TERMINAL_STATUSES}
    /\ jobs' = jobs \ old
    /\ ready' = [q \in Queue |-> ready[q] \ {j \in old : job[j].queue = q}]
    /\ UNCHANGED <<job, slot, submitted>>

RunAtPasses(j) ==
    /\ ~job[j].due
    /\ job' = [job EXCEPT ![j].due = TRUE]
    /\ UNCHANGED <<jobs, ready, slot, submitted>>

-----------------------------------------------------------------------------

Init ==
    /\ job = [j \in Job |-> Absent]
    /\ jobs = {}
    /\ ready = [q \in Queue |-> {}]
    /\ slot = [s \in Slot |-> Idle]
    /\ submitted = {}

Work(s, j) ==
    \/ RejectUnknown(s, j) \/ DropCancelled(s, j) \/ Start(s, j)
    \/ Succeed(s, j) \/ ScheduleRetry(s, j) \/ MoveToDLQ(s, j) \/ Fail(s, j)

Call ==
    \/ \E batch \in SUBSET Job : Enqueue(batch)
    \/ \E j \in Job : CancelJob(j) \/ RetryJob(j) \/ ReplayDeadJob(j)
    \/ \E old \in SUBSET Job : Purge(old)

Next ==
    \/ \E s \in Slot, j \in Job, q \in Queue : Claim(s, j, q)
    \/ \E s \in Slot, j \in Job : Work(s, j)
    \/ Call
    \/ \E j \in Job : RunAtPasses(j)

Spec == Init /\ [][Next]_vars

-----------------------------------------------------------------------------
(* Properties.                                                              *)

\* The dictionaries and the slots keep their types.
TypeOK ==
    /\ job \in [Job -> Record]
    /\ jobs \subseteq submitted /\ submitted \subseteq Job
    /\ ready \in [Queue -> SUBSET Job]
    /\ slot \in [Slot -> SlotState]

\* No two slots are ever given the same job at once, although a claimed job
\* keeps its status until its task runs and its object is shared with clients
\* that cancel, replay and purge it, and retry it once it has failed.
ExclusiveClaim ==
    \A s, t \in Slot : slot[s].pc # "idle" /\ slot[s].job = slot[t].job => s = t

\* While a task runs, nobody else changes the status of the object it shares.
ExecutingIsRunning ==
    \A s \in Slot : slot[s].pc = "invoke" =>
        slot[s].job \in jobs /\ job[slot[s].job].status = "running"

\* The lists hold exactly the jobs still to be claimed, each on the list of
\* its queue alone: no runnable job is forgotten, nothing finished or running
\* is delivered, and no list has an id without a job, on which every later
\* sort of that list would raise (_make_ready).
ReadyMatches ==
    \A j \in Job, q \in Queue : j \in ready[q] <=>
        /\ j \in jobs /\ job[j].queue = q /\ job[j].status \in RUNNABLE
        /\ \A s \in Slot : slot[s].job # j

\* No running job without a task: whatever ends an attempt records it.
NoOrphan ==
    \A j \in jobs : job[j].status = "running" =>
        \E s \in Slot : slot[s] = [pc |-> "invoke", job |-> j]

\* No job waits although all its dependencies have completed: the completion,
\* the promotions and the check on enqueue are one step of the event loop.
NoStaleWait == \A j \in jobs : job[j].status = "waiting" => ~AllDepsCompleted(j)

\* "Statuses a job never leaves on its own": a worker never changes a finished
\* job that is still stored, cancelled after its claim included, unless the
\* application does not know its task.
TerminalStable ==
    [][\A s \in Slot : slot'[s] # slot[s] =>
         \A j \in jobs \ Unknown : job[j].status \in TERMINAL_STATUSES => job'[j] = job[j]]_vars

-----------------------------------------------------------------------------
(* The refinement.                                                          *)

\* The life of job j.  A claimed job keeps its status until its task starts, and
\* one that is cancelled and purged in between runs all the same: get_job does
\* not find it.
Life(j) == INSTANCE JobLifecycle WITH
    MaxRetries <- MaxRetries[j], DeadLetter <- j \in DeadLettered, Known <- j \notin Unknown,
    Startable <- RUNNABLE \cup {"absent"}, MayLose <- FALSE,
    status <- IF j \in jobs THEN job[j].status ELSE "absent", retries <- job[j].retries,
    executors <- {s \in Slot : slot[s] = [pc |-> "invoke", job |-> j]}

\* Every job lives as JobLifecycle promises although workers and clients change
\* one shared object: one attempt at a time, whose outcome nobody else records
\* and which never ends without one, one more on the counter for each that
\* fails, given up when they are used up and not before.
\* (It is \A j \in Job : Life(j)!Spec, in the form TLC evaluates.)
ImplementsLifecycle ==
    /\ \A j \in Job : Life(j)!Init
    /\ [][\A j \in Job : [Life(j)!Next]_(Life(j)!vars)]_vars
===============================================================================
