------------------------------ MODULE WorkerLoop ------------------------------
(***************************************************************************)
(* One aioq worker as an asyncio program (worker.py): run(), its main loop, *)
(* the heartbeat and cron loops beside it, the tasks that execute jobs and  *)
(* crons, and shutdown.  Coroutines interleave at their awaits only: a step *)
(* is what one of them does between two awaits.  What a job's task does     *)
(* while it runs is in SQLJobs and RedisJobs, the schedule in CronFleet.    *)
(***************************************************************************)
EXTENDS Naturals, FiniteSets

CONSTANTS
    Job,            \* the jobs of one run
    CronTask,       \* the cron occurrences this worker wins
    Concurrency,    \* Worker.concurrency
    MaxErrors       \* bound: broker calls that raise

ASSUME JobAssumption == IsFiniteSet(Job)
ASSUME ConcurrencyAssumption == Concurrency \in Nat \ {0}
ASSUME ErrorsAssumption == MaxErrors \in Nat

VARIABLES
    main,       \* the await at which run() is suspended
    stop,       \* _stop_requested
    slots,      \* the value of the semaphore
    queue,      \* jobs a dequeue would return
    task,       \* the task of each job; in _jobs while "running" or "ended"
    cut,        \* jobs whose task a cancelled drain has cancelled
    abandoned,  \* run() was cancelled while it awaited a gather
    crons,      \* the task of each cron occurrence
    beat,       \* the await of _heartbeat_loop
    tick,       \* the await of _cron_loop
    registered, \* the worker's entry at the broker
    connected,  \* the broker's connection
    errors      \* broker calls that have raised

loops == <<beat, tick, crons>>
broker == <<registered, connected>>
cancel == <<cut, abandoned>>
vars == <<main, stop, slots, queue, task, cancel, loops, broker, errors>>

Starting == {"new", "connect", "register"}
Looping == {"acquire", "dequeue", "backoff", "yield"}
Finally == {"background", "drain", "crons", "deregister", "disconnect"}
Over == {"returned", "raised"}

InFlight == {j \in Job : task[j] \in {"running", "ended"}}
CronsLeft == {k \in CronTask : crons[k] = "running"}

\* Background tasks are cancelled on the way into the finally block.
Cancelled == main \in Finally \cup Over

Fails == errors < MaxErrors /\ errors' = errors + 1

-----------------------------------------------------------------------------
(* run() up to the main loop.                                               *)

\* The loop's condition and, with no await in between, the semaphore.  free is
\* its value.
Again(free) ==
    \/ stop /\ main' = "background" /\ slots' = free
    \/ ~stop /\ free > 0 /\ main' = "dequeue" /\ slots' = free - 1
    \/ ~stop /\ free = 0 /\ main' = "acquire" /\ slots' = free

Connect ==
    /\ main = "new"
    /\ main' = "connect"
    /\ UNCHANGED <<stop, slots, queue, task, cancel, loops, broker, errors>>

Register ==
    /\ main = "connect"
    /\ main' = "register" /\ connected' = TRUE
    /\ UNCHANGED <<stop, slots, queue, task, cancel, loops, registered, errors>>

\* Mutation: run() clears a stop that was requested before it.
MutStart ==
    /\ main = "register"
    /\ stop' = FALSE /\ main' = "dequeue" /\ slots' = slots - 1
    /\ registered' = TRUE
    /\ beat' = "sleep" /\ tick' = "sleep"
    /\ UNCHANGED <<queue, task, cancel, crons, connected, errors>>

Start ==
    /\ main = "register"
    /\ registered' = TRUE
    /\ beat' = "sleep" /\ tick' = "sleep"
    /\ Again(slots)
    /\ UNCHANGED <<stop, queue, task, cancel, crons, connected, errors>>

\* Before the try block: nothing is undone, not even a registration that was
\* carried out by the call that raises.
StartFails ==
    /\ main \in {"connect", "register"}
    /\ main' = "raised"
    /\ registered' \in {registered, registered \/ main = "register"}
    /\ Fails
    /\ UNCHANGED <<stop, slots, queue, task, cancel, loops, connected>>

-----------------------------------------------------------------------------
(* The main loop.                                                           *)

\* Mutation: the loop goes on when any job ends, without a slot.
MutAcquire ==
    /\ main = "acquire"
    /\ main' = "dequeue" /\ slots' = slots - 1
    /\ UNCHANGED <<stop, queue, task, cancel, loops, broker, errors>>

\* A slot is freed while the loop waits for one: the condition is not looked
\* at again.
Acquire ==
    /\ main = "acquire" /\ slots > 0
    /\ main' = "dequeue" /\ slots' = slots - 1
    /\ UNCHANGED <<stop, queue, task, cancel, loops, broker, errors>>

DequeueJob(j) ==
    /\ main = "dequeue" /\ j \in queue
    /\ queue' = queue \ {j}
    /\ task' = [task EXCEPT ![j] = "running"]
    /\ Again(slots)
    /\ UNCHANGED <<stop, cancel, loops, broker, errors>>

\* Mutation: the slot is not released after an empty poll.
MutDequeueNothing ==
    /\ main = "dequeue" /\ queue = {}
    /\ main' = "yield"
    /\ UNCHANGED <<stop, slots, queue, task, cancel, loops, broker, errors>>

DequeueNothing ==
    /\ main = "dequeue" /\ queue = {}
    /\ main' = "yield" /\ slots' = slots + 1
    /\ UNCHANGED <<stop, queue, task, cancel, loops, broker, errors>>

\* A dequeue that fails may have claimed a job that nobody will execute.
ClaimUnheard == \E lost \in SUBSET queue : Cardinality(lost) <= 1 /\ queue' = queue \ lost

\* Mutation: the slot is not released on a broker error.
MutDequeueFails ==
    /\ main = "dequeue"
    /\ main' = "backoff"
    /\ ClaimUnheard
    /\ Fails
    /\ UNCHANGED <<stop, slots, task, cancel, loops, broker>>

DequeueFails ==
    /\ main = "dequeue"
    /\ main' = "backoff" /\ slots' = slots + 1
    /\ ClaimUnheard
    /\ Fails
    /\ UNCHANGED <<stop, task, cancel, loops, broker>>

GoOn ==
    /\ main \in {"yield", "backoff"}
    /\ Again(slots)
    /\ UNCHANGED <<stop, queue, task, cancel, loops, broker, errors>>

\* run() is cancelled inside the main loop.  A dequeue gives its slot back.
CancelLoop ==
    /\ main \in Looping
    /\ main' = "background"
    /\ slots' = IF main = "dequeue" THEN slots + 1 ELSE slots
    /\ IF main = "dequeue" THEN ClaimUnheard ELSE queue' = queue
    /\ Fails
    /\ UNCHANGED <<stop, task, cancel, loops, broker>>

-----------------------------------------------------------------------------
(* The tasks beside it.                                                     *)

\* _process returns or raises: either way the task is done ...
JobEnds(j) ==
    /\ task[j] = "running"
    /\ task' = [task EXCEPT ![j] = "ended"]
    /\ UNCHANGED <<main, stop, slots, queue, cancel, loops, broker, errors>>

\* ... and the event loop calls _on_job_done.
OnJobDone(j) ==
    /\ task[j] = "ended"
    /\ task' = [task EXCEPT ![j] = "gone"]
    /\ slots' = slots + 1
    /\ UNCHANGED <<main, stop, queue, cancel, loops, broker, errors>>

\* heartbeat_worker over Redis: read the entry, and write it back if there is
\* one.  (The SQL brokers' one statement is the two steps in a row.)
BeatRead ==
    /\ beat = "sleep" /\ ~Cancelled
    /\ beat' = IF registered THEN "write" ELSE "sleep"
    /\ UNCHANGED <<main, stop, slots, queue, task, cancel, tick, crons, broker, errors>>

BeatWrite ==
    /\ beat = "write" /\ ~Cancelled
    /\ beat' = "sleep" /\ registered' = TRUE
    /\ UNCHANGED <<main, stop, slots, queue, task, cancel, tick, crons, connected, errors>>

BeatFails ==
    /\ beat = "write" /\ ~Cancelled
    /\ beat' = "sleep"
    /\ Fails
    /\ UNCHANGED <<main, stop, slots, queue, task, cancel, tick, crons, broker>>

\* The cancellation reaches the loop; a write under way may have been done.
BeatEnds ==
    /\ Cancelled /\ beat \in {"sleep", "write"}
    /\ beat' = "ended"
    /\ registered' \in {registered, registered \/ beat = "write"}
    /\ UNCHANGED <<main, stop, slots, queue, task, cancel, tick, crons, connected, errors>>

\* A cron is due: its lock is asked for, and won or not.
TickLock ==
    /\ tick = "sleep" /\ ~Cancelled
    /\ tick' = "lock"
    /\ UNCHANGED <<main, stop, slots, queue, task, cancel, beat, crons, broker, errors>>

TickFires(k) ==
    /\ tick = "lock" /\ ~Cancelled
    /\ crons[k] = "none"
    /\ crons' = [crons EXCEPT ![k] = "running"]
    /\ tick' = "sleep"
    /\ UNCHANGED <<main, stop, slots, queue, task, cancel, beat, broker, errors>>

TickSkips ==
    /\ tick = "lock" /\ ~Cancelled
    /\ tick' = "sleep"
    /\ UNCHANGED <<main, stop, slots, queue, task, cancel, beat, crons, broker, errors>>

TickEnds ==
    /\ Cancelled /\ tick \in {"sleep", "lock"}
    /\ tick' = "ended"
    /\ UNCHANGED <<main, stop, slots, queue, task, cancel, beat, crons, broker, errors>>

\* A cron's task returns, raises, or is cancelled by the drain.
CronEnds(k) ==
    /\ crons[k] = "running"
    /\ crons' = [crons EXCEPT ![k] = "gone"]
    /\ UNCHANGED <<main, stop, slots, queue, task, cancel, beat, tick, broker, errors>>

-----------------------------------------------------------------------------
(* The finally block.                                                       *)

\* gather returns, or hands on the cancellation once all it awaited is done.
Leave(next) == main' = IF abandoned THEN "raised" ELSE next

\* Mutation: the background tasks are cancelled but not awaited.
MutBackground ==
    /\ main = "background"
    /\ Leave("drain")
    /\ UNCHANGED <<stop, slots, queue, task, cancel, loops, broker, errors>>

Background ==
    /\ main = "background"
    /\ beat = "ended" /\ tick = "ended"
    /\ Leave("drain")
    /\ UNCHANGED <<stop, slots, queue, task, cancel, loops, broker, errors>>

\* Mutation: the drain waits for the first job to finish, not for all.
MutDrainJobs ==
    /\ main = "drain"
    /\ InFlight = {} \/ slots > 0
    /\ Leave("crons")
    /\ UNCHANGED <<stop, slots, queue, task, cancel, loops, broker, errors>>

\* Every in-flight job is awaited.
DrainJobs ==
    /\ main = "drain"
    /\ InFlight = {}
    /\ Leave("crons")
    /\ UNCHANGED <<stop, slots, queue, task, cancel, loops, broker, errors>>

\* Cron tasks still running have been cancelled, and are awaited.
DrainCrons ==
    /\ main = "crons"
    /\ CronsLeft = {}
    /\ Leave("deregister")
    /\ UNCHANGED <<stop, slots, queue, task, cancel, loops, broker, errors>>

Deregister ==
    /\ main = "deregister"
    /\ main' = "disconnect" /\ registered' = FALSE
    /\ UNCHANGED <<stop, slots, queue, task, cancel, loops, connected, errors>>

\* The exception is suppressed, whatever the call has done.
DeregisterFails ==
    /\ main = "deregister"
    /\ main' = "disconnect" /\ registered' \in {registered, FALSE}
    /\ Fails
    /\ UNCHANGED <<stop, slots, queue, task, cancel, loops, connected>>

Disconnect ==
    /\ main = "disconnect"
    /\ main' = "returned" /\ connected' = FALSE
    /\ UNCHANGED <<stop, slots, queue, task, cancel, loops, registered, errors>>

\* run() is cancelled again inside the finally block, whose rest is skipped.
\* A gather hands the cancellation on to what it waits for.
CancelGather ==
    /\ main \in {"background", "drain", "crons"} /\ ~abandoned
    /\ abandoned' = TRUE
    /\ cut' = IF main = "drain" THEN {j \in Job : task[j] = "running"} ELSE cut
    /\ Fails
    /\ UNCHANGED <<main, stop, slots, queue, task, loops, broker>>

\* The call under way may have been carried out.
CancelLeave ==
    /\ main \in {"deregister", "disconnect"}
    /\ main' = "raised"
    /\ registered' \in {registered, registered /\ main # "deregister"}
    /\ connected' \in {connected, connected /\ main # "disconnect"}
    /\ Fails
    /\ UNCHANGED <<stop, slots, queue, task, cancel, loops>>

-----------------------------------------------------------------------------
(* The environment.                                                         *)

\* A signal, or stop(): at any time, also before run() is scheduled.
RequestStop ==
    /\ ~stop
    /\ stop' = TRUE
    /\ UNCHANGED <<main, slots, queue, task, cancel, loops, broker, errors>>

Arrive(j) ==
    /\ task[j] = "none" /\ j \notin queue
    /\ queue' = queue \cup {j}
    /\ task' = [task EXCEPT ![j] = "queued"]
    /\ UNCHANGED <<main, stop, slots, cancel, loops, broker, errors>>

Init ==
    /\ main = "new" /\ stop = FALSE /\ slots = Concurrency
    /\ queue = {} /\ task = [j \in Job |-> "none"] /\ cut = {} /\ abandoned = FALSE
    /\ crons = [k \in CronTask |-> "none"]
    /\ beat = "none" /\ tick = "none"
    /\ registered = FALSE /\ connected = FALSE
    /\ errors = 0

Run ==
    \/ Connect \/ Register \/ Start
    \/ Acquire \/ (\E j \in Job : DequeueJob(j)) \/ DequeueNothing \/ GoOn
    \/ Background \/ DrainJobs \/ DrainCrons \/ Deregister \/ Disconnect

Failure == StartFails \/ DequeueFails \/ BeatFails \/ DeregisterFails
              \/ CancelLoop \/ CancelGather \/ CancelLeave

Beat == BeatRead \/ BeatWrite
Tick == TickLock \/ TickSkips \/ \E k \in CronTask : TickFires(k)

Next ==
    \/ Run \/ Failure \/ Beat \/ Tick \/ BeatEnds \/ TickEnds
    \/ \E j \in Job : JobEnds(j) \/ OnJobDone(j) \/ Arrive(j)
    \/ \E k \in CronTask : CronEnds(k)
    \/ RequestStop

Spec == Init /\ [][Next]_vars

\* The event loop runs every ready coroutine and callback, broker calls return,
\* and tasks end, on their own or when cancelled.  Nobody has to stop the
\* worker, and nothing has to fail.
Fairness ==
    /\ WF_vars(Run) /\ WF_vars(BeatEnds) /\ WF_vars(TickEnds)
    /\ \A j \in Job : WF_vars(JobEnds(j)) /\ WF_vars(OnJobDone(j))
    /\ \A k \in CronTask : WF_vars(CronEnds(k))

FairSpec == Spec /\ Fairness

-----------------------------------------------------------------------------
(* Properties.                                                              *)

\* The variables keep their types.
TypeOK ==
    /\ main \in Starting \cup Looping \cup Finally \cup Over
    /\ stop \in BOOLEAN /\ slots \in Nat /\ errors \in Nat
    /\ queue \subseteq Job /\ cut \subseteq Job /\ abandoned \in BOOLEAN
    /\ task \in [Job -> {"none", "queued", "running", "ended", "gone"}]
    /\ crons \in [CronTask -> {"none", "running", "gone"}]
    /\ beat \in {"none", "sleep", "write", "ended"}
    /\ tick \in {"none", "sleep", "lock", "ended"}
    /\ registered \in BOOLEAN /\ connected \in BOOLEAN

\* The concurrency slots are conserved: each is free, held by a task until its
\* callback has run, or held by the dequeue under way.  No error, empty poll or
\* cancellation leaks one or releases one twice, so that never more than
\* Concurrency jobs run.
SlotsConserved ==
    slots + Cardinality(InFlight) + (IF main = "dequeue" THEN 1 ELSE 0) = Concurrency

\* Graceful shutdown: when the worker deregisters, every job it claimed has
\* been executed to its end, even if run() itself was cancelled.
DrainedBeforeLeaving ==
    main \in {"crons", "deregister", "disconnect", "returned"} => InFlight = {} /\ cut = {}

\* A worker that has deregistered does not come back: no heartbeat that was
\* under way writes its entry again.
NeverResurrected == [][registered' /\ ~registered => main = "register"]_vars

\* A worker asked to stop, before run() or at any point of it, leaves run().
StopIsHonoured == stop ~> main \in Over

\* Broker errors and full slots do not wedge the loop: a job in the queue is
\* taken unless the worker stops.
QueueIsServed ==
    \A j \in Job : j \in queue ~> j \notin queue \/ main \in Finally \cup Over
===============================================================================
