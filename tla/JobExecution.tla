----------------------------- MODULE JobExecution -----------------------------
(***************************************************************************)
(* What a worker tells the outside of the jobs it executes: _process        *)
(* (worker.py) with the application's hooks (hooks.py, app.py), the         *)
(* execution metrics (metrics.py) and the retry policy.  A step goes from   *)
(* one suspension of the coroutine to the next: the broker's calls, the     *)
(* hooks and the task function.                                             *)
(*                                                                          *)
(* The broker is as JobLifecycle promises, with calls that may fail before  *)
(* or after they take effect; dequeue leaves the status to the worker, as   *)
(* over Redis.  Hooks that raise are logged and go unnoticed.               *)
(***************************************************************************)
EXTENDS AioqModels, RetryPolicy, FiniteSets

CONSTANTS
    Job,            \* the jobs, all enqueued at the start
    Slot,           \* the worker's concurrency slots
    None,           \* a slot without a job
    MaxRetries,     \* Job.max_retries
    DeadLettered,   \* the jobs with a dead_letter_queue
    Unknown,        \* the jobs whose task is not in the application's _tasks
    Dependent,      \* the jobs with depends_on
    RetryDelay,     \* Job.retry_delay
    Backoff,        \* the jobs with retry_backoff
    BackoffMax,     \* Job.retry_backoff_max
    MaxFaults       \* bound: broker calls that raise, and tasks that are cancelled

ASSUME NumbersAssumption == /\ MaxRetries \in [Job -> Nat] /\ RetryDelay \in [Job -> Nat]
                            /\ BackoffMax \in [Job -> Nat] /\ MaxFaults \in Nat
ASSUME SetsAssumption == /\ DeadLettered \subseteq Job /\ Unknown \subseteq Job
                         /\ Dependent \subseteq Job /\ Backoff \subseteq Job
                         /\ None \notin Job /\ IsFiniteSet(Slot)

VARIABLES
    stored,     \* what the broker holds of each job, and whether it is queued
    slot,       \* what each slot is doing, with its own Job object
    told,       \* how often the hooks of each event were called for each job
    started,    \* aioq_job_starts_total
    finished,   \* aioq_job_finishes_total, by status
    retried,    \* aioq_job_retries_total
    aborted     \* attempts that ended in an exception nobody handles

metrics == <<started, finished, retried>>
vars == <<stored, slot, told, metrics, aborted>>

Event == {"on_start", "on_success", "on_retry", "on_failure", "on_dead"}

\* The most a retry can wait.
Longest(j) == IF j \in Backoff THEN BackoffMax[j] ELSE RetryDelay[j]

\* delay: how long until run_at.
Stored(j) == [status : JobStatus, retries : 0 .. MaxRetries[j], delay : 0 .. Longest(j),
              queued : BOOLEAN]

\* on_start and tell: hooks are being called; store: update_job or enqueue is.
SlotState == [pc : {"idle", "claimed", "start", "on_start", "invoke", "store", "tell"},
              job : Job \cup {None}, status : JobStatus, retries : Nat, delay : Nat]
Idle == [pc |-> "idle", job |-> None, status |-> "pending", retries |-> 0, delay |-> 0]

Become(s, state) == slot' = [slot EXCEPT ![s] = state]

Retries(status) == status \in {"retrying", "waiting"}

-----------------------------------------------------------------------------
(* The broker.                                                              *)

\* update_job, and enqueue for a job that is retried.
Write(j, object) ==
    stored' = [stored EXCEPT ![j] = [status |-> object.status, retries |-> object.retries,
                                     delay |-> object.delay,
                                     queued |-> object.status = "retrying"]]

Claim(s, j) ==
    /\ slot[s].pc = "idle"
    /\ stored[j].queued /\ stored[j].delay = 0
    /\ stored' = [stored EXCEPT ![j].queued = FALSE]
    /\ Become(s, [Idle EXCEPT !.pc = "claimed", !.job = j, !.status = stored[j].status,
                              !.retries = stored[j].retries])
    /\ UNCHANGED <<told, metrics, aborted>>

Cancel(j) ==
    /\ stored[j].status \in CANCELLABLE_STATUSES
    /\ stored' = [stored EXCEPT ![j].status = "cancelled"]
    /\ UNCHANGED <<slot, told, metrics, aborted>>

\* run_at passes, or the dependency that a retry waits for has completed.
BecomesDue(j) ==
    /\ stored[j].delay > 0 \/ stored[j].status = "waiting"
    /\ stored' = [stored EXCEPT ![j] =
          IF stored[j].status = "waiting"
          THEN [stored[j] EXCEPT !.status = "pending", !.delay = 0, !.queued = TRUE]
          ELSE [stored[j] EXCEPT !.delay = 0]]
    /\ UNCHANGED <<slot, told, metrics, aborted>>

-----------------------------------------------------------------------------
(* _process.                                                                *)

\* Mutation: the job is logged and dropped.
MutRejectUnknown(s) ==
    /\ slot[s].pc = "claimed" /\ slot[s].job \in Unknown
    /\ Become(s, Idle)
    /\ UNCHANGED <<stored, told, metrics, aborted>>

\* A task the application does not know is never started nor measured.
RejectUnknown(s) ==
    /\ slot[s].pc = "claimed" /\ slot[s].job \in Unknown
    /\ Become(s, [slot[s] EXCEPT !.pc = "store", !.status = "failed"])
    /\ UNCHANGED <<stored, told, metrics, aborted>>

\* get_job: a job cancelled after the claim is dropped.
CheckCancelled(s) ==
    /\ slot[s].pc = "claimed" /\ slot[s].job \notin Unknown
    /\ Become(s, IF stored[slot[s].job].status = "cancelled" THEN Idle
                 ELSE [slot[s] EXCEPT !.pc = "start", !.status = "running"])
    /\ UNCHANGED <<stored, told, metrics, aborted>>

StoreRunning(s) ==
    /\ slot[s].pc = "start"
    /\ Write(slot[s].job, slot[s])
    /\ Become(s, [slot[s] EXCEPT !.pc = "on_start"])
    /\ UNCHANGED <<told, metrics, aborted>>

\* emit: every hook registered for the event has returned or raised.
Emit(j, event) == told' = [told EXCEPT ![j] = [told[j] EXCEPT ![event] = @ + 1]]

\* record_start follows the hooks; then the task function is called.
TellStart(s) ==
    /\ slot[s].pc = "on_start"
    /\ Emit(slot[s].job, "on_start")
    /\ started' = started + 1
    /\ Become(s, [slot[s] EXCEPT !.pc = "invoke"])
    /\ UNCHANGED <<stored, finished, retried, aborted>>

Succeed(s) ==
    /\ slot[s].pc = "invoke"
    /\ Become(s, [slot[s] EXCEPT !.pc = "store", !.status = "completed"])
    /\ UNCHANGED <<stored, told, metrics, aborted>>

CanRetry(s) == slot[s].retries < MaxRetries[slot[s].job]

\* The task raised or timed out.  enqueue may find that a dependency is no longer
\* stored as completed, and makes the job wait.
ScheduleRetry(s) ==
    LET j == slot[s].job
        attempt == slot[s].retries + 1
    IN  /\ slot[s].pc = "invoke" /\ CanRetry(s)
        /\ ~Overflows(RetryDelay[j], attempt, j \in Backoff)
        /\ \E delay \in RetryDelays(RetryDelay[j], attempt, j \in Backoff, BackoffMax[j]) :
              \E status \in IF j \in Dependent THEN {"retrying", "waiting"} ELSE {"retrying"} :
                 Become(s, [slot[s] EXCEPT !.pc = "store", !.status = status,
                                           !.retries = attempt, !.delay = delay])
        /\ UNCHANGED <<stored, told, metrics, aborted>>

\* The last attempt.
GiveUp(s) ==
    /\ slot[s].pc = "invoke" /\ ~CanRetry(s)
    /\ Become(s, [slot[s] EXCEPT !.pc = "store",
                     !.status = IF slot[s].job \in DeadLettered THEN "dead" ELSE "failed"])
    /\ UNCHANGED <<stored, told, metrics, aborted>>

\* The outcome is stored; record_retry follows at once.
StoreOutcome(s) ==
    /\ slot[s].pc = "store"
    /\ Write(slot[s].job, slot[s])
    /\ retried' = IF Retries(slot[s].status) THEN retried + 1 ELSE retried
    /\ Become(s, [slot[s] EXCEPT !.pc = "tell"])
    /\ UNCHANGED <<told, started, finished, aborted>>

\* Whether the attempt of the slot is between record_start and record_finish.
Measured(s) == slot[s].pc \in {"invoke", "store", "tell"} /\ slot[s].job \notin Unknown

\* Mutation: record_finish follows the outcome, outside of a finally clause.
MutFinish(s) ==
    finished' = IF Measured(s) /\ slot[s].pc = "tell"
                THEN [finished EXCEPT ![slot[s].status] = @ + 1] ELSE finished

\* The finally clause: record_finish with the status the object then has.
Finish(s) ==
    finished' = IF Measured(s) THEN [finished EXCEPT ![slot[s].status] = @ + 1] ELSE finished

\* Mutation: a dead-lettered job is told as a failed one.
MutOutcomeEvent(status) ==
    CASE status = "completed"         -> "on_success"
      [] status \in {"failed", "dead"} -> "on_failure"
      [] OTHER                        -> "on_retry"

OutcomeEvent(status) ==
    CASE status = "completed" -> "on_success"
      [] status = "failed"    -> "on_failure"
      [] status = "dead"      -> "on_dead"
      [] OTHER                -> "on_retry"

TellOutcome(s) ==
    /\ slot[s].pc = "tell"
    /\ Emit(slot[s].job, OutcomeEvent(slot[s].status))
    /\ Finish(s)
    /\ Become(s, Idle)
    /\ UNCHANGED <<stored, started, retried, aborted>>

\* An exception leaves _process, and the job as it is stored.
Abort(s) == Finish(s) /\ Become(s, Idle) /\ aborted' = aborted + 1

\* compute_retry_delay raises: the object already says retrying.
RetryOverflows(s) ==
    LET j == slot[s].job
    IN  /\ slot[s].pc = "invoke" /\ CanRetry(s)
        /\ Overflows(RetryDelay[j], slot[s].retries + 1, j \in Backoff)
        /\ finished' = [finished EXCEPT !["retrying"] = @ + 1]
        /\ Become(s, Idle) /\ aborted' = aborted + 1
        /\ UNCHANGED <<stored, told, started, retried>>

\* A call of the broker raises, or the coroutine is cancelled (by a shutdown that
\* is itself cancelled, or by its task function): no except clause takes a
\* CancelledError.  The write under way may have taken effect.
Fault(s) ==
    /\ slot[s].pc # "idle" /\ aborted < MaxFaults
    /\ \/ slot[s].pc \in {"start", "store"} /\ Write(slot[s].job, slot[s])
       \/ UNCHANGED stored
    /\ Abort(s)
    /\ UNCHANGED <<told, started, retried>>

-----------------------------------------------------------------------------

Init ==
    /\ stored = [j \in Job |-> [status |-> "pending", retries |-> 0, delay |-> 0, queued |-> TRUE]]
    /\ slot = [s \in Slot |-> Idle]
    /\ told = [j \in Job |-> [e \in Event |-> 0]]
    /\ started = 0 /\ retried = 0 /\ aborted = 0
    /\ finished = [status \in JobStatus |-> 0]

Process(s) ==
    \/ RejectUnknown(s) \/ CheckCancelled(s) \/ StoreRunning(s) \/ TellStart(s)
    \/ Succeed(s) \/ ScheduleRetry(s) \/ RetryOverflows(s) \/ GiveUp(s)
    \/ StoreOutcome(s) \/ TellOutcome(s)

Next ==
    \/ \E s \in Slot : (\E j \in Job : Claim(s, j)) \/ Process(s) \/ Fault(s)
    \/ \E j \in Job : Cancel(j) \/ BecomesDue(j)

Spec == Init /\ [][Next]_vars

\* Calls, hooks and tasks return, clocks advance and a free slot polls.
Fairness ==
    /\ \A s \in Slot : WF_vars(\E j \in Job : Claim(s, j)) /\ WF_vars(Process(s))
    /\ \A j \in Job : WF_vars(BecomesDue(j))

FairSpec == Spec /\ Fairness

-----------------------------------------------------------------------------
(* Properties.                                                              *)

\* The types; a retry never waits longer than its policy allows.
TypeOK ==
    /\ \A j \in Job : stored[j] \in Stored(j)
    /\ slot \in [Slot -> SlotState]
    /\ told \in [Job -> [Event -> Nat]]
    /\ started \in Nat /\ retried \in Nat /\ aborted \in Nat
    /\ finished \in [JobStatus -> Nat]

\* A counter with the label status, over all its labels.
Total(counter) ==
    counter["pending"] + counter["waiting"] + counter["running"] + counter["completed"]
        + counter["failed"] + counter["retrying"] + counter["cancelled"] + counter["dead"]

\* The counters add up however the attempts of all slots interleave, fail and are
\* cancelled: what was started and not finished is being executed, and the retries
\* are the finishes that were followed by another attempt, but for those whose
\* enqueue failed.
MetricsAddUp ==
    /\ started = Total(finished) + Cardinality({s \in Slot : Measured(s)})
    /\ LET again == finished["retrying"] + finished["waiting"]
               + Cardinality({s \in Slot : slot[s].pc = "tell" /\ Retries(slot[s].status)})
       IN  retried <= again /\ (aborted = 0 => retried = again)

\* How often a final outcome of the job was told.
Ended(j) == told[j]["on_success"] + told[j]["on_failure"] + told[j]["on_dead"]
Final == {"on_success", "on_failure", "on_dead"}
Outcome == [on_success |-> "completed", on_failure |-> "failed", on_dead |-> "dead"]

\* The hooks tell the truth: at most one final outcome of a job, the one the broker
\* holds and the one its dead_letter_queue calls for ("on_failure and on_dead are
\* mutually exclusive"), only for a job that was started or is unknown; no more
\* retries than it had, and an outcome for every attempt that was started, although
\* the next attempt may start while the hooks of a retry are still running.
HooksTellTheTruth ==
    \A j \in Job :
        /\ Ended(j) <= 1
        /\ \A e \in Final : told[j][e] = 1 => stored[j].status = Outcome[e]
        /\ told[j]["on_dead"] = 1 => j \in DeadLettered
        /\ told[j]["on_failure"] = 1 => j \in Unknown \/ j \notin DeadLettered
        /\ told[j]["on_retry"] <= stored[j].retries
        /\ LET under == Cardinality({s \in Slot : slot[s].job = j /\ Measured(s)})
               ends == told[j]["on_retry"] + Ended(j) + under
           IN  j \notin Unknown => /\ ends <= told[j]["on_start"]
                                   /\ told[j]["on_start"] <= ends + aborted

\* Every job's end is eventually told, unless it is cancelled or an attempt of some
\* job ended in an exception that _process does not handle.
EveryEndIsTold ==
    \A j \in Job : <>(Ended(j) = 1 \/ stored[j].status = "cancelled" \/ aborted > 0)
===============================================================================
