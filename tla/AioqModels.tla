------------------------------ MODULE AioqModels ------------------------------
(***************************************************************************)
(* The job model of aioq (src/aioq/models.py): the statuses, the sets of    *)
(* statuses its brokers test, and the fields of a Job that control its life,*)
(* with the values its operations give them.                                *)
(***************************************************************************)
EXTENDS Naturals

JobStatus == {"pending", "waiting", "running", "completed", "failed",
              "retrying", "cancelled", "dead"}

\* "Statuses a job never leaves on its own."
TERMINAL_STATUSES == {"completed", "failed", "cancelled", "dead"}

\* Statuses from which cancel_job will cancel a job.
CANCELLABLE_STATUSES == {"pending", "retrying", "waiting"}

\* Mutation: a job stuck as running can be retried too.
MutRetriable == {"failed", "cancelled", "running"}

\* Statuses from which retry_job will re-enqueue a job.
RETRIABLE_STATUSES == {"failed", "cancelled"}

\* Mutations: running rows are claimed again; retries are never claimed.
MutRunnableRunning == {"pending", "retrying", "running"}
MutRunnablePending == {"pending"}

\* Statuses the SQL brokers' dequeue will claim.
RUNNABLE == {"pending", "retrying"}

Queue == {"home", "dlq"}    \* a job's own queue and its dead letter queue

\* A job as a broker stores it.  due: run_at is None or in the past.  An id
\* without a stored job is "absent".
Record == [status : JobStatus \cup {"absent"}, queue : Queue, retries : Nat, due : BOOLEAN]
Absent == [status |-> "absent", queue |-> "home", retries |-> 0, due |-> TRUE]

\* A new job; due: it has neither a delay nor an eta in the future.
Fresh(due) == [status |-> "pending", queue |-> "home", retries |-> 0, due |-> due]

\* reset_for_replay, and the status its callers set.
Reset(job) == [status |-> "pending", queue |-> job.queue, retries |-> 0, due |-> TRUE]

\* Mutation: the attempts are counted down instead of up.
MutRetrying(job, due) ==
    [status |-> "retrying", queue |-> job.queue, retries |-> job.retries - 1, due |-> due]

\* The next attempt of a failed job; due: retry_delay is zero.
Retrying(job, due) ==
    [status |-> "retrying", queue |-> job.queue, retries |-> job.retries + 1, due |-> due]
===============================================================================
