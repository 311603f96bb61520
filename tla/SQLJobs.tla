------------------------------- MODULE SQLJobs -------------------------------
(***************************************************************************)
(* The job life cycle of aioq over a SQL broker (PostgreSQL or MySQL):      *)
(* the worker's job handling (worker.py), the broker operations of sql.py,  *)
(* postgres.py and mysql.py, and the operations BaseBroker builds from      *)
(* them.  A step is one SQL statement or transaction, the grain at which    *)
(* the database interleaves processes; what a process computes between two  *)
(* statements is part of the first of them.                                 *)
(*                                                                          *)
(* A process is a concurrency slot of some worker (Slot) or a caller of the *)
(* client API: a producer, the CLI, the dashboard (Client).                 *)
(***************************************************************************)
EXTENDS AioqModels, FiniteSets

CONSTANTS
    Job,            \* the job ids of one run
    Slot,           \* the slots of all workers: one in-flight _process each
    Client,         \* concurrent callers of multi-statement client operations
    DependsOn,      \* Job.depends_on
    MaxRetries,     \* Job.max_retries
    DeadLettered,   \* the jobs with a dead_letter_queue
    Unknown,        \* the jobs whose task no worker has registered
    Rank,           \* position in ORDER BY priority DESC, enqueued_at
    Queues,         \* the queues each slot's worker consumes
    Ops,            \* the client operations this instance performs
    AtomicBatch,    \* TRUE: enqueue_many is one transaction (PostgreSQL);
                    \* FALSE: each upsert autocommits (MySQL)
    MaxBatch,       \* bound: jobs in one enqueue_many
    MaxCrashes      \* bound: processes lost in the middle of an operation

Operation == {"enqueue", "cancel", "retry", "replay", "purge"}

ASSUME DependsOnAssumption == DependsOn \in [Job -> SUBSET Job]
ASSUME MaxRetriesAssumption == MaxRetries \in [Job -> Nat]
ASSUME RankAssumption == Rank \in [Job -> Nat]
ASSUME QueuesAssumption == Queues \in [Slot -> SUBSET Queue]
ASSUME SetsAssumption == /\ DeadLettered \subseteq Job
                         /\ Unknown \subseteq Job
                         /\ Ops \subseteq Operation
ASSUME BoundsAssumption == /\ AtomicBatch \in BOOLEAN
                           /\ MaxBatch \in Nat
                           /\ MaxCrashes \in Nat
ASSUME ProcAssumption == Slot \cap Client = {}

VARIABLES
    row,        \* table aioq_jobs: what it holds of each job
    proc,       \* what each process is doing, with its local variables
    submitted,  \* ids already given to enqueue: a uuid4 is never drawn twice
    crashes     \* processes lost so far

vars == <<row, proc, submitted, crashes>>

Proc == Slot \cup Client

PC == {"idle", "claimed", "start", "invoke", "finish", "resolve",
       "check", "upsert", "promote", "replay"}

\* held: the Job objects in the process's local variables; todo and ready:
\* the jobs a loop has still to visit, and the one whose test has succeeded.
ProcState == [pc : PC, held : [Job -> Record], todo : SUBSET Job, ready : SUBSET Job]

NoJobs == [j \in Job |-> Absent]
Idle == [pc |-> "idle", held |-> NoJobs, todo |-> {}, ready |-> {}]

Holds(p, j) == proc[p].held[j].status # "absent"

Become(p, pc, held, todo, ready) ==
    proc' = [proc EXCEPT ![p] = [pc |-> pc, held |-> held, todo |-> todo, ready |-> ready]]

\* Process p holds the Job object `job` for j and is about to do `pc`.
With(p, j, job) == [proc[p].held EXCEPT ![j] = job]
Goto(p, pc, j, job) == Become(p, pc, With(p, j, job), {}, {})
Return(p) == proc' = [proc EXCEPT ![p] = Idle]

-----------------------------------------------------------------------------
(* Statements on the jobs table.                                            *)

\* update_job's UPDATE ... WHERE id: unconditional, no effect without a row.
Update(j, job) == row' = IF row[j].status = "absent" THEN row ELSE [row EXCEPT ![j] = job]

\* Mutation: any finished dependency counts, not only a completed one.
MutAllDepsCompleted(j) == \A d \in DependsOn[j] : row[d].status \in TERMINAL_STATUSES

AllDepsCompleted(j) == \A d \in DependsOn[j] : row[d].status = "completed"

\* Mutation: a job is looked up by its last listed dependency only.
MutWaitingDependents(j) == {k \in Job : row[k].status = "waiting" /\ DependsOn[k] = {j}}

WaitingDependents(j) == {k \in Job : row[k].status = "waiting" /\ j \in DependsOn[k]}

Claimable(s, j) == row[j].status \in RUNNABLE /\ row[j].queue \in Queues[s] /\ row[j].due

\* Leave a promotion loop, or go on with what it has still to visit.
Settle(p, rest) ==
    IF rest = {} THEN Return(p) ELSE Become(p, "promote", NoJobs, rest, {})

-----------------------------------------------------------------------------
(* A worker: dequeue, then _process up to the task's outcome.               *)

\* dequeue: the first due job in order, locked and marked running.
Claim(s, j) ==
    /\ proc[s].pc = "idle"
    /\ Claimable(s, j)
    /\ \A k \in Job : Claimable(s, k) => Rank[j] <= Rank[k]
    /\ row' = [row EXCEPT ![j].status = "running"]
    /\ Goto(s, "claimed", j, [row[j] EXCEPT !.status = "running"])
    /\ UNCHANGED <<submitted, crashes>>

RejectUnknown(s, j) ==
    /\ proc[s].pc = "claimed" /\ Holds(s, j)
    /\ j \in Unknown
    /\ Goto(s, "finish", j, [proc[s].held[j] EXCEPT !.status = "failed"])
    /\ UNCHANGED <<row, submitted, crashes>>

\* get_job: a job cancelled after the claim is dropped.
CheckCancelled(s, j) ==
    /\ proc[s].pc = "claimed" /\ Holds(s, j)
    /\ j \notin Unknown
    /\ IF row[j].status = "cancelled" THEN Return(s)
       ELSE Goto(s, "start", j, proc[s].held[j])
    /\ UNCHANGED <<row, submitted, crashes>>

Start(s, j) ==
    /\ proc[s].pc = "start" /\ Holds(s, j)
    /\ Update(j, proc[s].held[j])
    /\ Goto(s, "invoke", j, proc[s].held[j])
    /\ UNCHANGED <<submitted, crashes>>

Succeed(s, j) ==
    /\ proc[s].pc = "invoke" /\ Holds(s, j)
    /\ Goto(s, "finish", j, [proc[s].held[j] EXCEPT !.status = "completed"])
    /\ UNCHANGED <<row, submitted, crashes>>

\* Mutation: the first attempt is counted as a retry.
MutCanRetry(j, job) == job.retries + 1 < MaxRetries[j]

CanRetry(j, job) == job.retries < MaxRetries[j]

\* The task raised or timed out with attempts left: enqueue the job again.
ScheduleRetry(s, j) ==
    /\ proc[s].pc = "invoke" /\ Holds(s, j)
    /\ CanRetry(j, proc[s].held[j])
    /\ \E due \in BOOLEAN :
          Become(s, "check", With(s, j, Retrying(proc[s].held[j], due)), {j}, {})
    /\ UNCHANGED <<row, submitted, crashes>>

MoveToDLQ(s, j) ==
    /\ proc[s].pc = "invoke" /\ Holds(s, j)
    /\ ~CanRetry(j, proc[s].held[j])
    /\ j \in DeadLettered
    /\ Goto(s, "finish", j, [proc[s].held[j] EXCEPT !.status = "dead", !.queue = "dlq"])
    /\ UNCHANGED <<row, submitted, crashes>>

\* Mutation: the last failure is logged but not recorded.
MutFail(s, j) ==
    /\ proc[s].pc = "invoke" /\ Holds(s, j)
    /\ ~CanRetry(j, proc[s].held[j])
    /\ Return(s)
    /\ UNCHANGED <<row, submitted, crashes>>

Fail(s, j) ==
    /\ proc[s].pc = "invoke" /\ Holds(s, j)
    /\ ~CanRetry(j, proc[s].held[j])
    /\ j \notin DeadLettered
    /\ Goto(s, "finish", j, [proc[s].held[j] EXCEPT !.status = "failed"])
    /\ UNCHANGED <<row, submitted, crashes>>

\* update_job with the outcome; a completed job goes on to its dependents.
Finish(s, j) ==
    /\ proc[s].pc = "finish" /\ Holds(s, j)
    /\ Update(j, proc[s].held[j])
    /\ IF proc[s].held[j].status = "completed" THEN Goto(s, "resolve", j, proc[s].held[j])
       ELSE Return(s)
    /\ UNCHANGED <<submitted, crashes>>

\* _resolve_dependents: fetch the jobs waiting for this one.
FetchDependents(s, j) ==
    /\ proc[s].pc = "resolve" /\ Holds(s, j)
    /\ Settle(s, WaitingDependents(j))
    /\ UNCHANGED <<row, submitted, crashes>>

-----------------------------------------------------------------------------
(* Promotion and enqueueing, called by workers and clients alike.           *)

\* _all_deps_completed for the next job of the loop: one count query.
CountDeps(p, j) ==
    /\ proc[p].pc = "promote" /\ j \in proc[p].todo /\ proc[p].ready = {}
    /\ IF AllDepsCompleted(j)
       THEN Become(p, "promote", NoJobs, proc[p].todo \ {j}, {j})
       ELSE Settle(p, proc[p].todo \ {j})
    /\ UNCHANGED <<row, submitted, crashes>>

\* Mutation: the UPDATE without its status = 'waiting' condition.
MutMarkPending(p, j) ==
    /\ proc[p].pc = "promote" /\ j \in proc[p].ready
    /\ row' = [row EXCEPT ![j].status = "pending"]
    /\ Settle(p, proc[p].todo)
    /\ UNCHANGED <<submitted, crashes>>

\* _mark_waiting_as_pending: UPDATE ... WHERE status = 'waiting'.
MarkPending(p, j) ==
    /\ proc[p].pc = "promote" /\ j \in proc[p].ready
    /\ row' = IF row[j].status = "waiting" THEN [row EXCEPT ![j].status = "pending"] ELSE row
    /\ Settle(p, proc[p].todo)
    /\ UNCHANGED <<submitted, crashes>>

\* _check_dependencies, one count query per job.
CheckDeps(p, j) ==
    LET rest == proc[p].todo \ {j}
        held == IF AllDepsCompleted(j) THEN proc[p].held
                ELSE With(p, j, [proc[p].held[j] EXCEPT !.status = "waiting"])
    IN  /\ proc[p].pc = "check" /\ j \in proc[p].todo
        /\ IF rest # {} THEN Become(p, "check", held, rest, {})
           ELSE Become(p, "upsert", held, {k \in Job : Holds(p, k)}, {})
        /\ UNCHANGED <<row, submitted, crashes>>

\* The jobs written by one transaction.
Chunks(todo) == IF AtomicBatch THEN {todo} ELSE {{j} : j \in todo}

\* Mutation: no second look at the dependencies after the insert.
MutUpsert(p, chunk) ==
    /\ proc[p].pc = "upsert"
    /\ row' = [j \in Job |-> IF j \in chunk THEN proc[p].held[j] ELSE row[j]]
    /\ LET rest == proc[p].todo \ chunk
       IN  IF rest # {} THEN Become(p, "upsert", proc[p].held, rest, {}) ELSE Return(p)
    /\ UNCHANGED <<submitted, crashes>>

\* INSERT ... ON CONFLICT DO UPDATE; then _promote_if_ready for the jobs
\* written as waiting.
Upsert(p, chunk) ==
    /\ proc[p].pc = "upsert"
    /\ row' = [j \in Job |-> IF j \in chunk THEN proc[p].held[j] ELSE row[j]]
    /\ LET rest == proc[p].todo \ chunk
       IN  IF rest # {} THEN Become(p, "upsert", proc[p].held, rest, {})
           ELSE Settle(p, {j \in Job : proc[p].held[j].status = "waiting"})
    /\ UNCHANGED <<submitted, crashes>>

-----------------------------------------------------------------------------
(* Client operations.                                                       *)

\* Task.enqueue and enqueue_many: new jobs that share one run_at, depending
\* on jobs whose ids the caller already has.
Enqueue(c, batch) ==
    /\ proc[c].pc = "idle"
    /\ \A j \in batch : DependsOn[j] \subseteq submitted
    /\ \E due \in BOOLEAN :
          Become(c, "check", [j \in Job |-> IF j \in batch THEN Fresh(due) ELSE Absent], batch, {})
    /\ submitted' = submitted \cup batch
    /\ UNCHANGED <<row, crashes>>

\* The two guarded UPDATEs; the call returns whether a row matched.
CancelJob(j) ==
    /\ row[j].status \in CANCELLABLE_STATUSES
    /\ row' = [row EXCEPT ![j].status = "cancelled"]
    /\ UNCHANGED <<proc, submitted, crashes>>

RetryJob(j) ==
    /\ row[j].status \in RETRIABLE_STATUSES
    /\ row' = [row EXCEPT ![j] = Reset(row[j])]
    /\ UNCHANGED <<proc, submitted, crashes>>

\* replay_dead_job: get_job, update_job, enqueue.
ReplayRead(c, j) ==
    /\ proc[c].pc = "idle"
    /\ row[j].status = "dead"
    /\ Goto(c, "replay", j, Reset(row[j]))
    /\ UNCHANGED <<row, submitted, crashes>>

ReplayUpdate(c, j) ==
    /\ proc[c].pc = "replay" /\ Holds(c, j)
    /\ Update(j, proc[c].held[j])
    /\ Become(c, "check", proc[c].held, {j}, {})
    /\ UNCHANGED <<submitted, crashes>>

\* purge with the default statuses: `old` are the finished rows past the cutoff.
Purge(old) ==
    /\ \A j \in old : row[j].status \in TERMINAL_STATUSES
    /\ row' = [j \in Job |-> IF j \in old THEN Absent ELSE row[j]]
    /\ UNCHANGED <<proc, submitted, crashes>>

-----------------------------------------------------------------------------
(* The environment.                                                         *)

RunAtPasses(j) ==
    /\ ~row[j].due
    /\ row' = [row EXCEPT ![j].due = TRUE]
    /\ UNCHANGED <<proc, submitted, crashes>>

\* The process is killed, or a statement raises and the exception ends the
\* operation: nothing later in it happens.
Crash(p) ==
    /\ proc[p].pc # "idle" /\ crashes < MaxCrashes
    /\ Return(p)
    /\ crashes' = crashes + 1
    /\ UNCHANGED <<row, submitted>>

-----------------------------------------------------------------------------

Init ==
    /\ row = [j \in Job |-> Absent]
    /\ proc = [p \in Proc |-> Idle]
    /\ submitted = {}
    /\ crashes = 0

\* What a worker does with the job it has claimed.
Work(s) == \E j \in Job :
    \/ RejectUnknown(s, j) \/ CheckCancelled(s, j) \/ Start(s, j)
    \/ Succeed(s, j) \/ ScheduleRetry(s, j) \/ MoveToDLQ(s, j) \/ Fail(s, j)
    \/ Finish(s, j) \/ FetchDependents(s, j)

\* The rest of an enqueue or of a promotion loop.
Broker(p) ==
    \/ \E j \in Job : CheckDeps(p, j) \/ CountDeps(p, j) \/ MarkPending(p, j)
    \/ \E chunk \in Chunks(proc[p].todo) : Upsert(p, chunk)

Batches == {batch \in SUBSET (Job \ submitted) :
               batch # {} /\ Cardinality(batch) <= MaxBatch}

Call ==
    \/ "enqueue" \in Ops /\ \E c \in Client : \E batch \in Batches : Enqueue(c, batch)
    \/ "cancel" \in Ops /\ \E j \in Job : CancelJob(j)
    \/ "retry" \in Ops /\ \E j \in Job : RetryJob(j)
    \/ "replay" \in Ops /\ \E c \in Client, j \in Job : ReplayRead(c, j)
    \/ "purge" \in Ops /\ \E old \in SUBSET Job : Purge(old)

Next ==
    \/ \E s \in Slot, j \in Job : Claim(s, j)
    \/ \E s \in Slot : Work(s)
    \/ \E p \in Proc : Broker(p)
    \/ \E c \in Client, j \in Job : ReplayUpdate(c, j)
    \/ Call
    \/ \E j \in Job : RunAtPasses(j)
    \/ \E p \in Proc : Crash(p)

Spec == Init /\ [][Next]_vars

\* Statements return, tasks end, clocks advance and a free slot polls.  No
\* client operation is ever forced to begin, and no process to crash.
Fairness ==
    /\ \A s \in Slot : WF_vars(Work(s)) /\ WF_vars(\E j \in Job : Claim(s, j))
    /\ \A p \in Proc : WF_vars(Broker(p))
    /\ \A c \in Client : WF_vars(\E j \in Job : ReplayUpdate(c, j))
    /\ \A j \in Job : WF_vars(RunAtPasses(j))

FairSpec == Spec /\ Fairness

-----------------------------------------------------------------------------
(* Properties.                                                              *)

\* The variables keep their types: rows are well formed and a process's loop
\* variables name jobs.
TypeOK ==
    /\ row \in [Job -> Record]
    /\ proc \in [Proc -> ProcState]
    /\ submitted \subseteq Job
    /\ crashes \in Nat

\* From the claim to the statement that records the outcome.
ClaimPC == {"claimed", "start", "invoke", "finish", "check", "upsert"}
Executing(s, j) == proc[s].pc \in ClaimPC /\ Holds(s, j)

\* dequeue returns a job to at most one worker: no two slots of the fleet
\* ever execute the same job at once, whatever cancels, retries, replays,
\* purges, re-enqueues and crashes happen around them.
ExclusiveClaim ==
    \A s, t \in Slot : \A j \in Job : Executing(s, j) /\ Executing(t, j) => s = t

\* While a slot executes a job its row says running, so that nothing else
\* cancels, retries, purges or claims it meanwhile.
ExecutingIsRunning ==
    \A s \in Slot : \A j \in Job : Executing(s, j) => row[j].status = "running"

\* The jobs left behind as running: no slot executes them any more.
Orphans == {j \in Job : row[j].status = "running" /\ ~\E s \in Slot : Executing(s, j)}

\* A lost process leaves one job behind at most, and nothing else does: neither
\* late writes, cancels, replays and purges, nor what other processes do after
\* the loss.
NoOrphan == Cardinality(Orphans) <= crashes

\* "Statuses a job never leaves on its own": whatever a worker slot writes
\* late, a finished job keeps its row; only a client's retry, replay or purge
\* touches it.
TerminalStable ==
    [][\A s \in Slot : proc'[s] # proc[s] =>
         \A j \in Job : row[j].status \in TERMINAL_STATUSES => row'[j] = row[j]]_vars

\* A task is invoked only when every job it depends on has completed.
DependencyOrder ==
    [][\A s \in Slot, j \in Job :
         proc[s].pc = "start" /\ Holds(s, j) /\ proc'[s].pc = "invoke" =>
            \A d \in DependsOn[j] : row[d].status = "completed"]_vars

\* Some process is on its way to promote j: it completed one of j's
\* dependencies and has still to look for dependents, it has j in its loop, or
\* it has written j as waiting and goes on with the rest of its batch.
WillPromote(p, j) ==
    \/ proc[p].pc = "upsert" /\ proc[p].held[j].status = "waiting"
    \/ proc[p].pc = "resolve" /\ \E d \in DependsOn[j] : Holds(p, d)
    \/ proc[p].pc = "promote" /\ j \in proc[p].todo \cup proc[p].ready

\* No lost wake-up: a job still waiting although its last dependency has
\* completed always has a process on its way to promote it, however the
\* enqueue's statements and those of the completing workers interleave, as
\* long as no process is lost on the way.
NoLostWakeup ==
    crashes = 0 =>
        \A j \in Job : row[j].status = "waiting" /\ AllDepsCompleted(j) =>
            \E p \in Proc : WillPromote(p, j)

\* A waiting job leaves "waiting" once each of its dependencies has completed
\* at some time ("waiting --> pending (when all dependencies complete)").
DependenciesRelease ==
    \A j \in Job :
        <>(row[j].status = "waiting") /\ (\A d \in DependsOn[j] : <>(row[d].status = "completed"))
            => <>[](row[j].status # "waiting")

\* Every job handed to enqueue is eventually settled: finished, purged, or
\* waiting for a job that finished without completing.
Settled(j) ==
    \/ row[j].status \in TERMINAL_STATUSES
    \/ row[j].status = "waiting" /\ \E d \in DependsOn[j] :
          row[d].status \in (TERMINAL_STATUSES \ {"completed"}) \cup {"waiting"}

EverySubmittedJobSettles == \A j \in Job : j \in submitted ~> Settled(j)

-----------------------------------------------------------------------------
(* The invariant behind ExclusiveClaim.  The unconditional writes, those of *)
(* update_job and of the upsert, are safe only because of who may be about  *)
(* to do one: a slot on the job it executes, a replay on a row no worker    *)
(* serves, a producer on an id nobody else knows.                           *)

\* Client c is going to write job j without looking at its row again.
WillWrite(c, j) ==
    \/ proc[c].pc \in {"replay", "check"} /\ Holds(c, j)
    \/ proc[c].pc = "upsert" /\ j \in proc[c].todo

ReplayWrite(c, j) ==
    /\ "replay" \in Ops
    /\ proc[c].held[j].queue = "dlq"
    /\ row[j].status # "running"
    /\ row[j].status = "absent" \/ row[j].queue = "dlq"

FreshWrite(c, j) ==
    /\ row[j].status = "absent"
    /\ \A other \in Client \ {c} : ~WillWrite(other, j)

ClientWrites ==
    \A c \in Client, j \in Job : WillWrite(c, j) =>
        /\ proc[c].held[j].status \in {"pending", "waiting"}
        /\ ReplayWrite(c, j) \/ FreshWrite(c, j)

\* The enqueue loops visit only jobs the process holds; a process that is idle
\* or promoting holds none.
LoopsHeld ==
    \A p \in Proc :
        /\ proc[p].pc \in {"check", "upsert"} => \A j \in proc[p].todo : Holds(p, j)
        /\ proc[p].pc \in {"idle", "promote"} => proc[p].held = NoJobs

\* A slot holds at most the job it claimed, as running until its outcome.
SlotHolds ==
    \A s \in Slot :
        /\ \A j, k \in Job : Holds(s, j) /\ Holds(s, k) => j = k
        /\ proc[s].pc \in {"claimed", "start", "invoke"} =>
              \A j \in Job : Holds(s, j) => proc[s].held[j].status = "running"

\* Dead jobs are in the dead letter queue.
DeadInDLQ ==
    /\ \A j \in Job : row[j].status = "dead" => row[j].queue = "dlq"
    /\ \A p \in Proc, j \in Job :
          proc[p].held[j].status = "dead" => proc[p].held[j].queue = "dlq"

\* Nobody knows an id that has not been drawn yet.
Unsubmitted ==
    \A j \in Job \ submitted :
        row[j].status = "absent" /\ \A p \in Proc : ~Holds(p, j)

\* The inductive strengthening of ExclusiveClaim and ExecutingIsRunning: holds
\* of every reachable state as long as no worker serves a queue that dead
\* jobs are replayed into.
ClaimInv ==
    /\ TypeOK
    /\ LoopsHeld
    /\ SlotHolds
    /\ DeadInDLQ
    /\ Unsubmitted
    /\ ClientWrites
    /\ ExecutingIsRunning
    /\ ExclusiveClaim

-----------------------------------------------------------------------------
(* The refinement.                                                          *)

\* The life of job j: its row, and the slots between its claim and its outcome.
Life(j) == INSTANCE JobLifecycle WITH
    MaxRetries <- MaxRetries[j], DeadLetter <- j \in DeadLettered, Known <- j \notin Unknown,
    Startable <- RUNNABLE, MayLose <- TRUE,
    status <- row[j].status, retries <- row[j].retries,
    executors <- {s \in Slot : Executing(s, j)}

\* Every job lives as JobLifecycle promises, whatever the statements of workers
\* and clients interleave to: one attempt at a time and alone in the row while
\* it lasts, one more on the counter for each that fails, given up when they are
\* used up and not before, and no change of a finished job but a client's.
\* (It is \A j \in Job : Life(j)!Spec, in the form TLC evaluates.)
ImplementsLifecycle ==
    /\ \A j \in Job : Life(j)!Init
    /\ [][\A j \in Job : [Life(j)!Next]_(Life(j)!vars)]_vars
===============================================================================
