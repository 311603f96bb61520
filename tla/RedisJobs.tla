------------------------------ MODULE RedisJobs ------------------------------
(***************************************************************************)
(* The job life cycle of aioq over the Redis broker (redis.py) and the      *)
(* worker's job handling (worker.py).  Redis runs a command, a MULTI/EXEC   *)
(* pipeline or a Lua script atomically and nothing more: a step is one      *)
(* round trip, with what the process computes before its next one.          *)
(*                                                                          *)
(* Unlike the SQL brokers a job is claimed by popping its id off a list,    *)
(* and its record is read and written back whole.                           *)
(***************************************************************************)
EXTENDS AioqModels, Integers, Sequences, FiniteSets

CONSTANTS
    Job,            \* the job ids of one run
    Slot,           \* the slots of all workers: one in-flight _process each
    Client,         \* concurrent callers of client operations
    None,           \* no job
    DependsOn,      \* Job.depends_on
    MaxRetries,     \* Job.max_retries
    DeadLettered,   \* the jobs with a dead_letter_queue
    Unknown,        \* the jobs whose task no worker has registered
    Priority,       \* Job.priority
    Queues,         \* the queues each slot's worker consumes, in order
    Kept,           \* the jobs with save_result and a result_ttl
    Ops,            \* the client operations this instance performs
    Cancels,        \* the jobs that clients cancel
    MaxCalls,       \* bound: client operations other than enqueue
    MaxCrashes      \* bound: processes lost in the middle of an operation

Operation == {"enqueue", "delay", "retry", "replay", "purge", "stats", "expire"}

ASSUME JobAssumption == IsFiniteSet(Job) /\ None \notin Job
ASSUME DependsOnAssumption == DependsOn \in [Job -> SUBSET Job]
ASSUME NumbersAssumption == MaxRetries \in [Job -> Nat] /\ Priority \in [Job -> Int]
ASSUME QueuesAssumption == Queues \in [Slot -> Seq(Queue)]
ASSUME SetsAssumption == /\ DeadLettered \subseteq Job
                         /\ Unknown \subseteq Job
                         /\ Kept \subseteq Job /\ Cancels \subseteq Job
                         /\ Ops \subseteq Operation
                         /\ Slot \cap Client = {}
ASSUME BoundsAssumption == MaxCalls \in Nat /\ MaxCrashes \in Nat

VARIABLES
    record,     \* aioq:job:{id}
    pending,    \* aioq:queue:{queue}:p{tier}:pending, the head first
    deferred,   \* ...:deferred, and whether the score of an entry has passed
    dependents, \* aioq:job:{id}:dependents
    listed,     \* the status sets aioq:jobs:status:{status} each id is in
    filed,      \* the queue sets aioq:jobs:queue:{queue} each id is in
    expiring,   \* aioq:jobs:expiring: the ids, each with its queue
    proc,       \* what each process is doing, with its local variables
    submitted,  \* ids already given to enqueue: a uuid4 is never drawn twice
    calls,      \* client operations other than enqueue so far
    crashes     \* processes lost so far

index == <<listed, filed, expiring>>
store == <<record, pending, deferred, dependents, index>>
vars == <<store, proc, submitted, calls, crashes>>

Proc == Slot \cup Client

\* _PRIORITY_TIERS and _clamp_priority.
Tier == {0, 5, 10}
TierOf(j) == IF Priority[j] <= 0 THEN 0 ELSE IF Priority[j] <= 5 THEN 5 ELSE 10

PC == {"idle", "popped", "gone", "claimed", "invoke", "resolve", "register", "check",
       "get", "write", "promote", "deps", "wake", "reap", "list", "fetch", "forget"}
After == {"invoke", "resolve", "return", "enqueue", "look", "list"}

\* job and held: the Job object at hand; old: what _write_job read of it;
\* push and next: _write_job's argument, and what follows the write or the reap;
\* todo and deps: the jobs and the dependencies a loop has still to visit; due and
\* left: the expired entries a reap has found, and those it has still to forget.
ProcState == [pc : PC, job : Job \cup {None}, held : Record, old : Record, push : BOOLEAN,
              next : After, todo : SUBSET Job, deps : SUBSET Job,
              due : SUBSET (Job \X Queue), left : SUBSET (Job \X Queue)]
Idle == [pc |-> "idle", job |-> None, held |-> Absent, old |-> Absent, push |-> FALSE,
         next |-> "return", todo |-> {}, deps |-> {}, due |-> {}, left |-> {}]

Exists(j) == record[j].status # "absent"
Completed(d) == record[d].status = "completed"

Become(p, state) == proc' = [proc EXCEPT ![p] = state]
Return(p) == Become(p, Idle)

\* The process enters _write_job.
Writing(j, job, push, next) ==
    [Idle EXCEPT !.pc = "get", !.job = j, !.held = job, !.push = push, !.next = next]

\* The process enters enqueue: a job without dependencies has none to register
\* or to check.
Enqueuing(j, job) ==
    IF DependsOn[j] = {} THEN Writing(j, job, TRUE, "look")
    ELSE [Idle EXCEPT !.pc = "register", !.job = j, !.held = job]

\* The process goes on with the jobs it may have to promote.
Promoting(todo) == IF todo = {} THEN Idle ELSE [Idle EXCEPT !.pc = "promote", !.todo = todo]

LPush(j, queue) ==
    pending' = [pending EXCEPT ![queue] =
                  [pending[queue] EXCEPT ![TierOf(j)] = <<j>> \o pending[queue][TierOf(j)]]]

-----------------------------------------------------------------------------
(* dequeue.                                                                 *)

\* Mutation: an entry is moved whatever its score.
MutRipe(queue, tier) == {j \in Job : TierOf(j) = tier /\ deferred[queue][j] # "none"}

\* The entries of a deferred set whose score has passed.
Ripe(queue, tier) == {j \in Job : TierOf(j) = tier /\ deferred[queue][j] = "due"}

\* The orders in which the script may push a set of ids.
Orders(S) == {f \in [1 .. Cardinality(S) -> S] : \A i, k \in DOMAIN f : f[i] = f[k] => i = k}

\* The pairs of a deferred set and its list, of a queue slot s's worker consumes,
\* with entries to move.
RipeCells(s) == {c \in {Queues[s][i] : i \in DOMAIN Queues[s]} \X Tier : Ripe(c[1], c[2]) # {}}

\* The ids pushed to the lists of some cells, in some order each.
PushRipe(cells) ==
    \E pushed \in [cells -> UNION {Orders(Ripe(c[1], c[2])) : c \in cells}] :
        /\ \A c \in cells : pushed[c] \in Orders(Ripe(c[1], c[2]))
        /\ pending' = [q \in Queue |-> [t \in Tier |->
              IF <<q, t>> \in cells THEN pushed[<<q, t>>] \o pending[q][t] ELSE pending[q][t]]]

\* Mutation: the entries are pushed but not removed from the deferred set.
MutPromoteDeferred(s) ==
    /\ proc[s].pc = "idle"
    /\ \E c \in RipeCells(s) : Len(pending[c[1]][c[2]]) < 3
    /\ PushRipe(RipeCells(s))
    /\ UNCHANGED <<record, deferred, dependents, index, proc, submitted, calls, crashes>>

\* _promote_deferred, at the start of every poll: one script for all queues.
PromoteDeferred(s) ==
    /\ proc[s].pc = "idle"
    /\ RipeCells(s) # {}
    /\ PushRipe(RipeCells(s))
    /\ deferred' = [q \in Queue |-> [j \in Job |->
          IF <<q, TierOf(j)>> \in RipeCells(s) /\ deferred[q][j] = "due" THEN "none"
          ELSE deferred[q][j]]]
    /\ UNCHANGED <<record, dependents, index, proc, submitted, calls, crashes>>

\* The keys BRPOP looks at before queue i of tier t.
Before(s, i, t) == {e \in (DOMAIN Queues[s]) \X Tier : e[2] > t \/ (e[2] = t /\ e[1] < i)}

Popped(list) == SubSeq(list, 1, Len(list) - 1)

\* BRPOP: the tail of the first list, priority-major, that is not empty.
Pop(s, i, t) ==
    LET q == Queues[s][i]
        list == pending[q][t]
    IN  /\ proc[s].pc = "idle"
        /\ list # <<>>
        /\ \A e \in Before(s, i, t) : pending[Queues[s][e[1]]][e[2]] = <<>>
        /\ pending' = [pending EXCEPT ![q] = [pending[q] EXCEPT ![t] = Popped(list)]]
        /\ Become(s, [Idle EXCEPT !.pc = "popped", !.job = list[Len(list)]])
        /\ UNCHANGED <<record, deferred, dependents, index, submitted, calls, crashes>>

\* The GET that completes the claim.
Load(s) ==
    LET j == proc[s].job
    IN  /\ proc[s].pc = "popped"
        /\ Become(s, IF Exists(j) THEN [proc[s] EXCEPT !.pc = "claimed", !.held = record[j]]
                     ELSE [proc[s] EXCEPT !.pc = "gone"])
        /\ UNCHANGED <<store, submitted, calls, crashes>>

\* _forget: the job and its index entries under the queues and statuses that the
\* caller knows of.
Forget(j, queues, statuses) ==
    /\ record' = [record EXCEPT ![j] = Absent]
    /\ dependents' = [dependents EXCEPT ![j] = {}]
    /\ listed' = [listed EXCEPT ![j] = listed[j] \ statuses]
    /\ filed' = [filed EXCEPT ![j] = filed[j] \ queues]
    /\ UNCHANGED <<pending, deferred, expiring>>

\* A popped id whose data is gone is dropped: without a status all are cleared,
\* without a queue none is.
Drop(s) ==
    /\ proc[s].pc = "gone"
    /\ Forget(proc[s].job, {}, JobStatus)
    /\ Return(s)
    /\ UNCHANGED <<submitted, calls, crashes>>

-----------------------------------------------------------------------------
(* The worker's _process.                                                   *)

\* The outcome of the attempt, written by update_job.
Conclude(s, job, next) ==
    /\ Become(s, Writing(proc[s].job, job, FALSE, next))
    /\ UNCHANGED <<store, submitted, calls, crashes>>

RejectUnknown(s) ==
    /\ proc[s].pc = "claimed" /\ proc[s].job \in Unknown
    /\ Conclude(s, [proc[s].held EXCEPT !.status = "failed"], "return")

\* get_job: a job cancelled after the claim is dropped, any other is started.
CheckCancelled(s) ==
    LET j == proc[s].job
    IN  /\ proc[s].pc = "claimed" /\ j \notin Unknown
        /\ Become(s, IF record[j].status = "cancelled" THEN Idle
                     ELSE Writing(j, [proc[s].held EXCEPT !.status = "running"], FALSE, "invoke"))
        /\ UNCHANGED <<store, submitted, calls, crashes>>

Succeed(s) ==
    /\ proc[s].pc = "invoke"
    /\ Conclude(s, [proc[s].held EXCEPT !.status = "completed"], "resolve")

\* Mutation: the first attempt is counted as a retry.
MutCanRetry(s) == proc[s].held.retries + 1 < MaxRetries[proc[s].job]

CanRetry(s) == proc[s].held.retries < MaxRetries[proc[s].job]

\* The task raised or timed out with attempts left: enqueue the job again.
ScheduleRetry(s, due) ==
    /\ proc[s].pc = "invoke" /\ CanRetry(s)
    /\ Become(s, Enqueuing(proc[s].job, Retrying(proc[s].held, due)))
    /\ UNCHANGED <<store, submitted, calls, crashes>>

MoveToDLQ(s) ==
    /\ proc[s].pc = "invoke" /\ ~CanRetry(s) /\ proc[s].job \in DeadLettered
    /\ Conclude(s, [proc[s].held EXCEPT !.status = "dead", !.queue = "dlq"], "return")

Fail(s) ==
    /\ proc[s].pc = "invoke" /\ ~CanRetry(s) /\ proc[s].job \notin DeadLettered
    /\ Conclude(s, [proc[s].held EXCEPT !.status = "failed"], "return")

-----------------------------------------------------------------------------
(* _write_job, enqueue and promotion, for workers and clients alike.        *)

GetOld(p) ==
    /\ proc[p].pc = "get"
    /\ Become(p, [proc[p] EXCEPT !.pc = "write", !.old = record[proc[p].job]])
    /\ UNCHANGED <<store, submitted, calls, crashes>>

\* Mutation: no second look at the dependencies after the write.
MutLookAgain(j, job) == {}

\* enqueue looks again at the dependencies of a job it wrote as waiting.
LookAgain(j, job) == IF job.status = "waiting" THEN {j} ELSE {}

\* What follows the write in its caller.
Continue(p) ==
    LET j == proc[p].job
        job == proc[p].held
        go(pc) == Become(p, [Idle EXCEPT !.pc = pc, !.job = j, !.held = job])
    IN  CASE proc[p].next = "invoke"  -> go("invoke")
          [] proc[p].next = "resolve" -> go("resolve")
          [] proc[p].next = "enqueue" -> Become(p, Enqueuing(j, job))
          [] proc[p].next = "look"    -> Become(p, Promoting(LookAgain(j, job)))
          [] OTHER                    -> Return(p)

\* SREM from the set of the status that was read, if it differs, and SADD.
Relist(j, old, job) == (listed[j] \ ({old.status} \ {job.status})) \cup {job.status}

\* The same for the sets of the queues, if there was a record to read.
Refile(j, old, job) ==
    (filed[j] \ {q \in {old.queue} : old.status # "absent" /\ q # job.queue}) \cup {job.queue}

\* A saved result is not kept forever: the record expires.
Expires(j, job) == j \in Kept /\ job.status = "completed"

\* The transaction: the record, its index entries, and its list if asked to.
Write(p) ==
    LET j == proc[p].job
        job == proc[p].held
    IN  /\ proc[p].pc = "write"
        /\ record' = [record EXCEPT ![j] = job]
        /\ listed' = [listed EXCEPT ![j] = Relist(j, proc[p].old, job)]
        /\ filed' = [filed EXCEPT ![j] = Refile(j, proc[p].old, job)]
        /\ expiring' = IF Expires(j, job) THEN expiring \cup {<<j, job.queue>>} ELSE expiring
        /\ IF ~proc[p].push \/ job.status = "waiting" THEN UNCHANGED <<pending, deferred>>
           ELSE IF job.due THEN LPush(j, job.queue) /\ UNCHANGED deferred
           ELSE /\ deferred' = [deferred EXCEPT ![job.queue] =
                                  [deferred[job.queue] EXCEPT ![j] = "later"]]
                /\ UNCHANGED pending
        /\ Continue(p)
        /\ UNCHANGED <<dependents, submitted, calls, crashes>>

\* enqueue: every dependency learns of the job before any is looked at.
Register(p) ==
    LET j == proc[p].job
    IN  /\ proc[p].pc = "register"
        /\ dependents' = [d \in Job |-> IF d \in DependsOn[j] THEN dependents[d] \cup {j}
                                        ELSE dependents[d]]
        /\ Become(p, [proc[p] EXCEPT !.pc = "check", !.deps = DependsOn[j]])
        /\ UNCHANGED <<record, pending, deferred, index, submitted, calls, crashes>>

\* _check_dependencies: one GET per dependency, until one is not completed.
CheckDep(p, d) ==
    LET j == proc[p].job
        job == proc[p].held
        rest == proc[p].deps \ {d}
    IN  /\ proc[p].pc = "check" /\ d \in proc[p].deps
        /\ Become(p, IF ~Completed(d) THEN Writing(j, [job EXCEPT !.status = "waiting"], TRUE, "look")
                     ELSE IF rest = {} THEN Writing(j, job, TRUE, "look")
                     ELSE [proc[p] EXCEPT !.deps = rest])
        /\ UNCHANGED <<store, submitted, calls, crashes>>

\* update_job on a completed job: SMEMBERS of its dependents.
Resolve(p) ==
    /\ proc[p].pc = "resolve"
    /\ Become(p, Promoting(dependents[proc[p].job]))
    /\ UNCHANGED <<store, submitted, calls, crashes>>

\* _promote_if_ready: the GET of the candidate ...
PromoteGet(p, j) ==
    /\ proc[p].pc = "promote" /\ j \in proc[p].todo
    /\ Become(p, IF record[j].status = "waiting"
                 THEN [proc[p] EXCEPT !.pc = "deps", !.job = j, !.held = record[j],
                                      !.todo = proc[p].todo \ {j}, !.deps = DependsOn[j]]
                 ELSE Promoting(proc[p].todo \ {j}))
    /\ UNCHANGED <<store, submitted, calls, crashes>>

\* ... one GET per dependency ...
PromoteDep(p, d) ==
    LET rest == proc[p].deps \ {d}
    IN  /\ proc[p].pc = "deps" /\ d \in proc[p].deps
        /\ Become(p, IF ~Completed(d) THEN Promoting(proc[p].todo)
                     ELSE [proc[p] EXCEPT !.pc = IF rest = {} THEN "wake" ELSE "deps",
                                          !.deps = rest])
        /\ UNCHANGED <<store, submitted, calls, crashes>>

\* ... and the transaction that makes it pending.
Wake(p) ==
    LET j == proc[p].job
    IN  /\ proc[p].pc = "wake"
        /\ record' = [record EXCEPT ![j] = [proc[p].held EXCEPT !.status = "pending"]]
        /\ listed' = [listed EXCEPT ![j] = (listed[j] \ {"waiting"}) \cup {"pending"}]
        /\ LPush(j, proc[p].held.queue)
        /\ Become(p, Promoting(proc[p].todo))
        /\ UNCHANGED <<deferred, dependents, filed, expiring, submitted, calls, crashes>>

-----------------------------------------------------------------------------
(* Client operations.                                                       *)

\* Task.enqueue, with a delay or an eta that has not passed unless `due`, on
\* jobs whose ids the caller already has.  enqueue_many is a loop over it.
Enqueue(c, j, due) ==
    /\ proc[c].pc = "idle" /\ j \notin submitted
    /\ DependsOn[j] \subseteq submitted
    /\ Become(c, Enqueuing(j, Fresh(due)))
    /\ submitted' = submitted \cup {j}
    /\ UNCHANGED <<store, calls, crashes>>

\* A client operation begins with a read; how often they do is bounded.
Called == /\ calls < MaxCalls /\ calls' = calls + 1
          /\ UNCHANGED <<store, submitted, crashes>>

\* Mutation: a job that is retried is rewritten but not queued.
MutRetryJob(c, j) ==
    /\ proc[c].pc = "idle" /\ record[j].status \in RETRIABLE_STATUSES
    /\ Become(c, Writing(j, Reset(record[j]), FALSE, "return"))
    /\ Called

\* The three operations that read a job and, if its status allows it, write it.
RetryJob(c, j) ==
    /\ proc[c].pc = "idle" /\ record[j].status \in RETRIABLE_STATUSES
    /\ Become(c, Writing(j, Reset(record[j]), TRUE, "return"))
    /\ Called

CancelJob(c, j) ==
    /\ proc[c].pc = "idle" /\ record[j].status \in CANCELLABLE_STATUSES
    /\ Become(c, Writing(j, [record[j] EXCEPT !.status = "cancelled"], FALSE, "return"))
    /\ Called

\* replay_dead_job: get_job, update_job, enqueue.
ReplayDeadJob(c, j) ==
    /\ proc[c].pc = "idle" /\ record[j].status = "dead"
    /\ Become(c, Writing(j, Reset(record[j]), FALSE, "enqueue"))
    /\ Called

\* What follows a reap: nothing but reading, or the rest of purge.
AfterReap(next) == IF next = "list" THEN [Idle EXCEPT !.pc = "list"] ELSE Idle

Reaping(due, next) ==
    IF due = {} THEN AfterReap(next)
    ELSE [Idle EXCEPT !.pc = "reap", !.due = due, !.left = due, !.next = next]

\* Mutation: the entries are removed from the set first.
MutReap(c, due, next) ==
    /\ proc[c].pc = "idle" /\ due \subseteq expiring
    /\ Become(c, Reaping(due, next))
    /\ calls < MaxCalls /\ calls' = calls + 1
    /\ expiring' = expiring \ due
    /\ UNCHANGED <<record, pending, deferred, dependents, listed, filed, submitted, crashes>>

\* _reap_expired, with which list_jobs, queue_stats and purge begin: list the
\* entries whose score has passed.  The score is from the clock of the worker
\* that completed the job, the look from the client's, and the record expires by
\* the clock of Redis: any entry may be found, before or after its record expires.
Reap(c, due, next) ==
    /\ proc[c].pc = "idle" /\ due \subseteq expiring
    /\ Become(c, Reaping(due, next))
    /\ Called

\* ... forget them one by one, as completed jobs of the queue they name ...
ReapForget(c, m) ==
    /\ proc[c].pc = "reap" /\ m \in proc[c].left
    /\ Forget(m[1], {m[2]}, {"completed"})
    /\ Become(c, [proc[c] EXCEPT !.left = proc[c].left \ {m}])
    /\ UNCHANGED <<submitted, calls, crashes>>

\* ... and remove them all from the set.
ReapRemove(c) ==
    /\ proc[c].pc = "reap" /\ proc[c].left = {}
    /\ expiring' = expiring \ proc[c].due
    /\ Become(c, AfterReap(proc[c].next))
    /\ UNCHANGED <<record, pending, deferred, dependents, listed, filed, submitted, calls, crashes>>

\* purge with the default statuses, seen by one job at most: the members of a
\* terminal status set are listed, fetched, and the old ones forgotten, one by
\* one.
PurgeList(c) ==
    /\ proc[c].pc = "list"
    /\ \/ \E j \in Job : /\ listed[j] \cap TERMINAL_STATUSES # {}
                        /\ Become(c, [Idle EXCEPT !.pc = "fetch", !.job = j])
       \/ Return(c)
    /\ UNCHANGED <<store, submitted, calls, crashes>>

\* Whether the job is past the cutoff depends on its time of completion, or of
\* enqueueing when it has none.
PurgeFetch(c, old) ==
    LET j == proc[c].job
    IN  /\ proc[c].pc = "fetch"
        /\ Become(c, IF Exists(j) /\ old THEN [proc[c] EXCEPT !.pc = "forget", !.held = record[j]]
                     ELSE Idle)
        /\ UNCHANGED <<store, submitted, calls, crashes>>

PurgeForget(c) ==
    /\ proc[c].pc = "forget"
    /\ Forget(proc[c].job, {proc[c].held.queue}, {proc[c].held.status})
    /\ Return(c)
    /\ UNCHANGED <<submitted, calls, crashes>>

-----------------------------------------------------------------------------
(* The environment.                                                         *)

\* run_at passes: for the record, for every copy of it and for the score.
RunAtPasses(j) ==
    /\ \/ ~record[j].due
       \/ \E q \in Queue : deferred[q][j] = "later"
       \/ \E p \in Proc : proc[p].job = j /\ ~proc[p].held.due
    /\ record' = [record EXCEPT ![j] = [record[j] EXCEPT !.due = TRUE]]
    /\ deferred' = [q \in Queue |-> IF deferred[q][j] = "later"
                                    THEN [deferred[q] EXCEPT ![j] = "due"] ELSE deferred[q]]
    /\ proc' = [p \in Proc |-> IF proc[p].job = j
                               THEN [proc[p] EXCEPT !.held = [proc[p].held EXCEPT !.due = TRUE]]
                               ELSE proc[p]]
    /\ UNCHANGED <<pending, dependents, index, submitted, calls, crashes>>

\* The record of a completed job with a saved result expires.
ResultExpires(j) ==
    /\ Expires(j, record[j])
    /\ record' = [record EXCEPT ![j] = Absent]
    /\ UNCHANGED <<pending, deferred, dependents, index, proc, submitted, calls, crashes>>

\* The process is killed, or a call raises and ends the operation.
Crash(p) ==
    /\ proc[p].pc # "idle" /\ crashes < MaxCrashes
    /\ Return(p)
    /\ crashes' = crashes + 1
    /\ UNCHANGED <<store, submitted, calls>>

-----------------------------------------------------------------------------

Init ==
    /\ record = [j \in Job |-> Absent]
    /\ pending = [q \in Queue |-> [t \in Tier |-> <<>>]]
    /\ deferred = [q \in Queue |-> [j \in Job |-> "none"]]
    /\ dependents = [j \in Job |-> {}]
    /\ listed = [j \in Job |-> {}]
    /\ filed = [j \in Job |-> {}]
    /\ expiring = {}
    /\ proc = [p \in Proc |-> Idle]
    /\ submitted = {}
    /\ calls = 0
    /\ crashes = 0

Dequeue(s) == PromoteDeferred(s) \/ \E i \in DOMAIN Queues[s], t \in Tier : Pop(s, i, t)

Work(s) ==
    \/ Load(s) \/ Drop(s) \/ RejectUnknown(s) \/ CheckCancelled(s)
    \/ Succeed(s) \/ (\E due \in BOOLEAN : ScheduleRetry(s, due)) \/ MoveToDLQ(s) \/ Fail(s)

Broker(p) ==
    \/ GetOld(p) \/ Write(p) \/ Register(p) \/ Resolve(p) \/ Wake(p)
    \/ \E j \in Job : CheckDep(p, j) \/ PromoteGet(p, j) \/ PromoteDep(p, j)

\* The rest of a reap and of a purge.
Maintain(c) ==
    \/ (\E m \in proc[c].left : ReapForget(c, m)) \/ ReapRemove(c)
    \/ PurgeList(c) \/ (\E old \in BOOLEAN : PurgeFetch(c, old)) \/ PurgeForget(c)

Call(c, j) ==
    \/ "enqueue" \in Ops /\ Enqueue(c, j, TRUE)
    \/ "delay" \in Ops /\ Enqueue(c, j, FALSE)
    \/ j \in Cancels /\ CancelJob(c, j)
    \/ "retry" \in Ops /\ RetryJob(c, j)
    \/ "replay" \in Ops /\ ReplayDeadJob(c, j)

\* Calls that begin with a reap.  One that only reads is left out unless it finds
\* something to reap.
Query(c) == \E due \in SUBSET expiring :
    \/ "stats" \in Ops /\ due # {} /\ Reap(c, due, "return")
    \/ "purge" \in Ops /\ Reap(c, due, "list")

Next ==
    \/ \E s \in Slot : Dequeue(s) \/ Work(s)
    \/ \E p \in Proc : Broker(p) \/ Crash(p)
    \/ \E c \in Client : Maintain(c) \/ Query(c) \/ \E j \in Job : Call(c, j)
    \/ \E j \in Job : RunAtPasses(j) \/ ("expire" \in Ops /\ ResultExpires(j))

Spec == Init /\ [][Next]_vars

\* Calls return, tasks end, clocks advance and a free slot polls.
Fairness ==
    /\ \A s \in Slot : WF_vars(Dequeue(s)) /\ WF_vars(Work(s))
    /\ \A p \in Proc : WF_vars(Broker(p))
    /\ \A c \in Client : WF_vars(Maintain(c))
    /\ \A j \in Job : WF_vars(RunAtPasses(j))

FairSpec == Spec /\ Fairness

-----------------------------------------------------------------------------
(* Properties.                                                              *)

\* The types: what redis.py keeps under each kind of key, and the processes.
TypeOK ==
    /\ record \in [Job -> Record]
    /\ pending \in [Queue -> [Tier -> Seq(Job)]]
    /\ deferred \in [Queue -> [Job -> {"none", "later", "due"}]]
    /\ dependents \in [Job -> SUBSET Job]
    /\ listed \in [Job -> SUBSET JobStatus] /\ filed \in [Job -> SUBSET Queue]
    /\ expiring \subseteq Job \X Queue
    /\ proc \in [Proc -> ProcState]
    /\ submitted \subseteq Job
    /\ calls \in Nat /\ crashes \in Nat

\* Slot s has been delivered j and has not recorded an outcome yet.
Delivered(s, j) ==
    /\ proc[s].job = j
    /\ proc[s].pc \in {"popped", "claimed", "invoke", "register", "check", "get", "write"}

Entries(q, t, j) == {i \in DOMAIN pending[q][t] : pending[q][t][i] = j}
Listings(j) == UNION {{c} \X Entries(c[1], c[2], j) : c \in Queue \X Tier}
\* The places a delivery of j can come from.
Sources(j) == ({"slot"} \X {s \in Slot : Delivered(s, j)}) \cup ({"list"} \X Listings(j))
                  \cup ({"deferred"} \X {q \in Queue : deferred[q][j] # "none"})

\* "Each job ID is only delivered to one worker": a job is in one list or one
\* deferred set once, or with one slot, so no two slots ever run it.
SingleDelivery == \A j \in Job : Cardinality(Sources(j)) <= 1

\* The same at its mildest: two slots do not run a job's task at once.
NeverRunTwiceAtOnce ==
    \A s, t \in Slot : proc[s].pc = "invoke" /\ proc[t].pc = "invoke"
                       /\ proc[s].job = proc[t].job => s = t

\* A client is about to write j and then push it.
WillPush(c, j) ==
    /\ proc[c].job = j
    /\ \/ proc[c].pc \in {"register", "check"}
       \/ proc[c].pc \in {"get", "write"} /\ (proc[c].push \/ proc[c].next = "enqueue")

\* The jobs that their records say can run, or are running, and that nobody will
\* finish: they are not queued, no slot was delivered them and no client is about
\* to push them.
Stranded ==
    {j \in Job : /\ record[j].status \in RUNNABLE \cup {"running"}
                 /\ Sources(j) = {} /\ ~\E c \in Client : WillPush(c, j)}

\* A lost process strands one job at most, the one it was delivered or was about to
\* push, and nothing else strands any.
NotStranded == Cardinality(Stranded) <= crashes

WillPromote(p, j) ==
    \/ proc[p].pc = "resolve" /\ j \in dependents[proc[p].job]
    \/ proc[p].pc \in {"promote", "deps", "wake"} /\ j \in proc[p].todo
    \/ proc[p].pc \in {"deps", "wake"} /\ proc[p].job = j

\* No lost wake-up: a job waiting although its last dependency has completed
\* always has a process on its way to promote it, however enqueue's round trips
\* and those of the completing workers interleave.
NoLostWakeup ==
    \A j \in Job : record[j].status = "waiting" /\ (\A d \in DependsOn[j] : Completed(d)) =>
        \E p \in Proc : WillPromote(p, j)

\* queue_stats: the ids in both sets.
Counted(queue, status) == {j \in Job : queue \in filed[j] /\ status \in listed[j]}

\* queue_stats counts each stored job once, under its own queue and status and
\* never "under two statuses at once" (_write_job).  All it counts beyond them are
\* results that have expired and that a later call still reaps: whatever the
\* writers, the expiries and the calls that crash in the middle of a reap do, no
\* index entry is left behind for good.
StatsExact ==
    \A queue \in Queue, status \in JobStatus :
        LET stored == {j \in Job : record[j].queue = queue /\ record[j].status = status}
        IN  /\ stored \subseteq Counted(queue, status)
            /\ \A j \in Counted(queue, status) \ stored :
                  ~Exists(j) /\ status = "completed" /\ <<j, queue>> \in expiring

\* A job is not delivered before its run_at.
NotBeforeRunAt == \A s \in Slot : proc[s].pc = "claimed" => proc[s].held.due

\* "A purge can never remove queued work": what it deletes is finished.
PurgeSparesQueued ==
    [][\A c \in Client, j \in Job :
         proc[c].pc = "forget" /\ proc'[c].pc = "idle" /\ Exists(j) /\ ~Exists(j)'
             => record[j].status \in TERMINAL_STATUSES]_vars

\* Once the clients stop calling (MaxCalls), every job handed to enqueue is
\* settled for good: finished, purged, or waiting for a job that finished without
\* completing or is no longer stored.
Settled(j) ==
    \/ record[j].status \in TERMINAL_STATUSES \cup {"absent"}
    \/ record[j].status = "waiting" /\ \E d \in DependsOn[j] :
          record[d].status \in (TERMINAL_STATUSES \ {"completed"}) \cup {"waiting", "absent"}

EverySubmittedJobSettles == \A j \in Job : (j \in submitted) ~> []Settled(j)

-----------------------------------------------------------------------------
(* The refinement.                                                          *)

\* The life of job j.  An attempt is alive from the write that stores the job as
\* running to the one that stores its outcome.
Life(j) == INSTANCE JobLifecycle WITH
    MaxRetries <- MaxRetries[j], DeadLetter <- j \in DeadLettered, Known <- j \notin Unknown,
    Startable <- RUNNABLE, MayLose <- TRUE,
    status <- record[j].status, retries <- record[j].retries,
    executors <- {s \in Slot : Delivered(s, j) /\ record[j].status = "running"}

\* Every job lives as JobLifecycle promises, although nothing but the list its
\* id is popped from keeps two processes from writing its record: one attempt at
\* a time, one more on the counter for each that fails, given up when they are
\* used up and not before.
\* (It is \A j \in Job : Life(j)!Spec, in the form TLC evaluates.)
ImplementsLifecycle ==
    /\ \A j \in Job : Life(j)!Init
    /\ [][\A j \in Job : [Life(j)!Next]_(Life(j)!vars)]_vars
===============================================================================
