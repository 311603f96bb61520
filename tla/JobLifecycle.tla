---------------------------- MODULE JobLifecycle ----------------------------
(***************************************************************************)
(* What aioq promises about the life of one job, whatever stores it: the    *)
(* statuses of models.py, who may move a job from one to the next, and how  *)
(* often its task is attempted.  The job models of the brokers implement    *)
(* this module once per job, with the workers' slots as its executors.      *)
(*                                                                          *)
(* An attempt is alive from the moment the job is stored as running until   *)
(* its outcome is stored.                                                   *)
(***************************************************************************)
EXTENDS AioqModels

CONSTANTS
    Slot,           \* who may execute the job
    MaxRetries,     \* Job.max_retries
    DeadLetter,     \* whether the job has a dead_letter_queue
    Known,          \* whether the workers know the job's task
    Startable,      \* the statuses an attempt may begin in
    MayLose         \* whether an attempt may end without an outcome

VARIABLES
    status,         \* Job.status, or "absent" while the job is not stored
    retries,        \* Job.retries
    executors       \* the slots with an attempt that is alive

vars == <<status, retries, executors>>

\* enqueue: a job waits for its dependencies if it has any.
Submit ==
    /\ status = "absent" /\ status' \in {"pending", "waiting"}
    /\ retries' = 0
    /\ UNCHANGED executors

\* "waiting --> pending (when all dependencies complete)".
Release ==
    /\ status = "waiting" /\ status' = "pending"
    /\ UNCHANGED <<retries, executors>>

\* dequeue, and the start of the attempt: by one slot, while there is no other.
Take(s) ==
    /\ status \in Startable /\ status' = "running"
    /\ executors = {} /\ executors' = {s}
    /\ UNCHANGED retries

Complete ==
    /\ executors # {} /\ executors' = {}
    /\ status = "running" /\ status' = "completed"
    /\ UNCHANGED retries

\* A failed attempt with others left; the job may have to wait again for a
\* dependency that is no longer stored as completed.
Retry ==
    /\ executors # {} /\ executors' = {}
    /\ status = "running" /\ status' \in {"retrying", "waiting"}
    /\ retries < MaxRetries /\ retries' = retries + 1

\* The last failed attempt.
GiveUp ==
    /\ executors # {} /\ executors' = {}
    /\ status = "running" /\ status' = IF DeadLetter THEN "dead" ELSE "failed"
    /\ retries = MaxRetries /\ UNCHANGED retries

\* A job whose task the workers do not know is never attempted.
Reject ==
    /\ ~Known /\ status' = "failed" /\ executors' = {}
    /\ UNCHANGED retries

Cancel ==
    /\ status \in CANCELLABLE_STATUSES /\ status' = "cancelled"
    /\ UNCHANGED <<retries, executors>>

\* retry_job and replay_dead_job.  A replay reads the job and writes it twice,
\* so that the second write may find it pending, waiting or cancelled.
Requeue ==
    /\ executors = {}
    /\ status \in {"failed", "cancelled", "dead", "pending", "waiting"}
    /\ status' \in {"pending", "waiting"}
    /\ retries' = 0
    /\ UNCHANGED executors

\* purge, and the expiry of a result.
Purge ==
    /\ status \in TERMINAL_STATUSES /\ status' = "absent"
    /\ retries' \in {0, retries}
    /\ UNCHANGED executors

\* The worker is lost, or the outcome cannot be stored: the job stays running
\* and nobody executes it.
Lose ==
    /\ MayLose /\ executors # {} /\ executors' = {}
    /\ UNCHANGED <<status, retries>>

Init == status = "absent" /\ retries = 0 /\ executors = {}

Next ==
    \/ Submit \/ Release \/ (\E s \in Slot : Take(s))
    \/ Complete \/ Retry \/ GiveUp \/ Reject
    \/ Cancel \/ Requeue \/ Purge \/ Lose

Spec == Init /\ [][Next]_vars
===============================================================================
