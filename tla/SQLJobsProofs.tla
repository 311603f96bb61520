---------------------------- MODULE SQLJobsProofs ----------------------------
(* Proofs about SQLJobs, for every fleet, job set and dependency graph.     *)
EXTENDS SQLJobs, FiniteSetTheorems, TLAPS

(***************************************************************************)
(* What the helpers do to the state of one process.                         *)
(***************************************************************************)

\* The idle state is a process state.
LEMMA IdleType == Idle \in ProcState
  BY DEF Idle, NoJobs, ProcState, PC, Record, Absent, JobStatus, Queue

\* Become sets the state of one process and leaves the others alone.
LEMMA BecomeProc ==
  ASSUME proc \in [Proc -> ProcState], NEW p \in Proc, NEW pc \in PC,
         NEW held \in [Job -> Record], NEW todo \in SUBSET Job, NEW ready \in SUBSET Job,
         Become(p, pc, held, todo, ready)
  PROVE  /\ proc' \in [Proc -> ProcState]
         /\ proc'[p].pc = pc
         /\ proc'[p].held = held
         /\ proc'[p].todo = todo
         /\ proc'[p].ready = ready
         /\ \A q \in Proc \ {p} : proc'[q] = proc[q]
  BY DEF Become, ProcState

\* Goto changes the pc and one held Job object of one process only.
LEMMA GotoProc ==
  ASSUME proc \in [Proc -> ProcState],
         NEW p \in Proc, NEW pc \in PC, NEW j \in Job, NEW job \in Record,
         Goto(p, pc, j, job)
  PROVE  /\ proc' \in [Proc -> ProcState]
         /\ proc'[p].pc = pc
         /\ proc'[p].held[j] = job
         /\ \A k \in Job \ {j} : proc'[p].held[k] = proc[p].held[k]
         /\ proc'[p].todo = {}
         /\ \A q \in Proc \ {p} : proc'[q] = proc[q]
<1>1. proc[p].held \in [Job -> Record] /\ With(p, j, job) \in [Job -> Record]
  BY DEF With, ProcState
<1>2. Become(p, pc, With(p, j, job), {}, {})
  BY DEF Goto
<1> QED
  BY <1>1, <1>2, BecomeProc DEF With

\* Return and Settle leave the process without a Job object.
LEMMA ReturnProc ==
  ASSUME proc \in [Proc -> ProcState], NEW p \in Proc, Return(p)
  PROVE  /\ proc' \in [Proc -> ProcState]
         /\ proc'[p] = Idle
         /\ \A q \in Proc \ {p} : proc'[q] = proc[q]
  BY IdleType DEF Return

LEMMA SettleProc ==
  ASSUME proc \in [Proc -> ProcState], NEW p \in Proc, NEW rest \in SUBSET Job,
         Settle(p, rest)
  PROVE  /\ proc' \in [Proc -> ProcState]
         /\ proc'[p].pc = IF rest = {} THEN "idle" ELSE "promote"
         /\ proc'[p].held = NoJobs
         /\ proc'[p].todo = rest
         /\ proc'[p].ready = {}
         /\ \A q \in Proc \ {p} : proc'[q] = proc[q]
<1>1. NoJobs \in [Job -> Record] /\ "promote" \in PC
  BY IdleType DEF Idle, ProcState, PC
<1>2. CASE rest = {}
  BY <1>2, ReturnProc DEF Settle, Idle
<1>3. CASE rest # {}
  BY <1>1, <1>3, BecomeProc DEF Settle
<1> QED
  BY <1>2, <1>3

\* An update_job, and the Job objects the actions build, are well typed.
LEMMA UpdateType ==
  ASSUME row \in [Job -> Record], NEW j \in Job, NEW job \in Record, Update(j, job)
  PROVE  /\ row' \in [Job -> Record]
         /\ \A k \in Job \ {j} : row'[k] = row[k]
         /\ row'[j] = IF row[j].status = "absent" THEN row[j] ELSE job
  BY DEF Update

LEMMA JobType ==
  ASSUME NEW job \in Record
  PROVE  /\ \A st \in JobStatus : /\ [job EXCEPT !.status = st] \in Record
                                  /\ [job EXCEPT !.status = st].status = st
                                  /\ [job EXCEPT !.status = st].queue = job.queue
         /\ [job EXCEPT !.status = "dead", !.queue = "dlq"] \in Record
         /\ [job EXCEPT !.status = "dead", !.queue = "dlq"].status = "dead"
         /\ [job EXCEPT !.status = "dead", !.queue = "dlq"].queue = "dlq"
         /\ Reset(job) \in Record
         /\ \A due \in BOOLEAN : Retrying(job, due) \in Record
<1>1. \A st \in JobStatus : /\ [job EXCEPT !.status = st] \in Record
                            /\ [job EXCEPT !.status = st].status = st
                            /\ [job EXCEPT !.status = st].queue = job.queue
  BY DEF Record
<1>2. /\ [job EXCEPT !.status = "dead", !.queue = "dlq"] \in Record
      /\ [job EXCEPT !.status = "dead", !.queue = "dlq"].status = "dead"
      /\ [job EXCEPT !.status = "dead", !.queue = "dlq"].queue = "dlq"
  BY DEF Record, JobStatus, Queue
<1>3. Reset(job) \in Record
  BY DEF Record, JobStatus, Reset
<1>4. ASSUME NEW due \in BOOLEAN PROVE Retrying(job, due) \in Record
  BY DEF Record, JobStatus, Retrying
<1> QED
  BY <1>1, <1>2, <1>3, <1>4

LEMMA NewJobType == Absent \in Record /\ \A due \in BOOLEAN : Fresh(due) \in Record
  BY DEF Record, JobStatus, Queue, Absent, Fresh

(***************************************************************************)
(* Type correctness.                                                        *)
(***************************************************************************)

LEMMA TypeInit == Init => TypeOK
  BY IdleType, NewJobType DEF Init, TypeOK

LEMMA TypeStep == TypeOK /\ [Next]_vars => TypeOK'
<1> SUFFICES ASSUME TypeOK, [Next]_vars PROVE TypeOK'
  OBVIOUS
<1> USE DEF TypeOK
<1>s. Slot \subseteq Proc /\ Client \subseteq Proc
  BY DEF Proc
<1>h. \A p \in Proc : /\ proc[p].held \in [Job -> Record]
                     /\ proc[p].todo \subseteq Job
                     /\ \A j \in Job : /\ proc[p].held[j] \in Record
                                       /\ \A job \in Record : With(p, j, job) \in [Job -> Record]
  BY DEF ProcState, With
<1>pc. {"idle", "claimed", "start", "invoke", "finish", "resolve", "check", "upsert",
        "promote", "replay"} \subseteq PC
  BY DEF PC
<1>st. {"pending", "running", "completed", "failed", "retrying", "cancelled", "dead", "waiting"}
          \subseteq JobStatus
  BY DEF JobStatus
<1>e. {} \in SUBSET Job /\ \A j \in Job : {j} \in SUBSET Job
  OBVIOUS
<1>1. CASE UNCHANGED vars
  BY <1>1 DEF vars
<1>2. ASSUME NEW s \in Slot, NEW j \in Job, Claim(s, j) PROVE TypeOK'
  BY <1>2, <1>s, <1>pc, <1>st, JobType, GotoProc DEF Claim, Record
<1>3. ASSUME NEW s \in Slot, Work(s) PROVE TypeOK'
  <2> PICK j \in Job : \/ RejectUnknown(s, j) \/ CheckCancelled(s, j) \/ Start(s, j)
                       \/ Succeed(s, j) \/ ScheduleRetry(s, j) \/ MoveToDLQ(s, j)
                       \/ Fail(s, j) \/ Finish(s, j) \/ FetchDependents(s, j)
    BY <1>3 DEF Work
  <2>1. CASE RejectUnknown(s, j)
    BY <2>1, <1>s, <1>h, <1>pc, <1>st, JobType, GotoProc DEF RejectUnknown
  <2>2. CASE CheckCancelled(s, j)
    BY <2>2, <1>s, <1>h, <1>pc, GotoProc, ReturnProc DEF CheckCancelled
  <2>3. CASE Start(s, j)
    BY <2>3, <1>s, <1>h, <1>pc, GotoProc, UpdateType DEF Start
  <2>4. CASE Succeed(s, j)
    BY <2>4, <1>s, <1>h, <1>pc, <1>st, JobType, GotoProc DEF Succeed
  <2>5. CASE ScheduleRetry(s, j)
    <3> PICK due \in BOOLEAN :
             Become(s, "check", With(s, j, Retrying(proc[s].held[j], due)), {j}, {})
      BY <2>5 DEF ScheduleRetry
    <3> QED
      BY <2>5, <1>s, <1>h, <1>pc, <1>e, JobType, BecomeProc DEF ScheduleRetry
  <2>6. CASE MoveToDLQ(s, j)
    BY <2>6, <1>s, <1>h, <1>pc, JobType, GotoProc DEF MoveToDLQ
  <2>7. CASE Fail(s, j)
    BY <2>7, <1>s, <1>h, <1>pc, <1>st, JobType, GotoProc DEF Fail
  <2>8. CASE Finish(s, j)
    BY <2>8, <1>s, <1>h, <1>pc, GotoProc, ReturnProc, UpdateType DEF Finish
  <2>9. CASE FetchDependents(s, j)
    BY <2>9, <1>s, SettleProc DEF FetchDependents, WaitingDependents
  <2> QED
    BY <2>1, <2>2, <2>3, <2>4, <2>5, <2>6, <2>7, <2>8, <2>9
<1>4. ASSUME NEW p \in Proc, Broker(p) PROVE TypeOK'
  <2>1. ASSUME NEW j \in Job, CheckDeps(p, j) PROVE TypeOK'
    <3> DEFINE rest == proc[p].todo \ {j}
               held == IF AllDepsCompleted(j) THEN proc[p].held
                       ELSE With(p, j, [proc[p].held[j] EXCEPT !.status = "waiting"])
    <3>1. held \in [Job -> Record] /\ rest \in SUBSET Job /\ {k \in Job : Holds(p, k)} \in SUBSET Job
      BY <1>h, <1>st, JobType
    <3>2. IF rest # {} THEN Become(p, "check", held, rest, {})
          ELSE Become(p, "upsert", held, {k \in Job : Holds(p, k)}, {})
      BY <2>1 DEF CheckDeps
    <3> HIDE DEF rest, held
    <3> QED
      BY <2>1, <3>1, <3>2, <1>pc, <1>e, BecomeProc DEF CheckDeps
  <2>2. ASSUME NEW j \in Job, CountDeps(p, j) PROVE TypeOK'
    <3>1. proc[p].todo \ {j} \in SUBSET Job
      BY DEF ProcState
    <3> QED
      BY <2>2, <3>1, <1>pc, <1>e, IdleType, SettleProc, BecomeProc DEF CountDeps, Idle, ProcState
  <2>3. ASSUME NEW j \in Job, MarkPending(p, j) PROVE TypeOK'
    <3>1. proc[p].todo \in SUBSET Job
      BY DEF ProcState
    <3>2. row' \in [Job -> Record]
      BY <2>3 DEF MarkPending, Record, JobStatus
    <3> QED
      BY <2>3, <3>1, <3>2, SettleProc DEF MarkPending
  <2>4. ASSUME NEW chunk \in Chunks(proc[p].todo), Upsert(p, chunk) PROVE TypeOK'
    <3>1. row' \in [Job -> Record]
      BY <2>4, <1>h DEF Upsert
    <3>2. proc' \in [Proc -> ProcState]
      <4> DEFINE rest == proc[p].todo \ chunk
      <4>0. rest \in SUBSET Job
        BY <1>h
      <4>1. CASE rest # {}
        BY <4>0, <2>4, <4>1, <1>h, <1>pc, <1>e, BecomeProc DEF Upsert
      <4>2. CASE rest = {}
        BY <2>4, <4>2, SettleProc DEF Upsert
      <4> QED
        BY <4>1, <4>2
    <3> QED
      BY <2>4, <3>1, <3>2 DEF Upsert
  <2> QED
    BY <1>4, <2>1, <2>2, <2>3, <2>4 DEF Broker
<1>5. ASSUME NEW c \in Client, NEW j \in Job, ReplayUpdate(c, j) PROVE TypeOK'
  <2>1. PICK held \in [Job -> Record] : held = proc[c].held /\ held[j] \in Record
    BY <1>s, <1>h
  <2>2. Update(j, held[j]) /\ UNCHANGED <<submitted, crashes>>
    BY <1>5, <2>1 DEF ReplayUpdate
  <2>3. PICK todo \in SUBSET Job : todo = {j}
    OBVIOUS
  <2>4. Become(c, "check", held, todo, {})
    BY <1>5, <2>1, <2>3 DEF ReplayUpdate
  <2>5. proc' \in [Proc -> ProcState]
    BY <1>s, <1>pc, <1>e, <2>4, BecomeProc
  <2>6. row' \in [Job -> Record]
    BY <1>s, <2>1, <2>2, UpdateType
  <2> QED
    BY <2>2, <2>5, <2>6
<1>6. CASE Call
  <2>1. ASSUME NEW c \in Client, NEW batch \in Batches, Enqueue(c, batch) PROVE TypeOK'
    <3> DEFINE new(due) == [j \in Job |-> IF j \in batch THEN Fresh(due) ELSE Absent]
    <3>1. PICK due \in BOOLEAN : Become(c, "check", new(due), batch, {})
      BY <2>1 DEF Enqueue
    <3>2. new(due) \in [Job -> Record] /\ batch \in SUBSET Job
      BY NewJobType DEF Batches
    <3> HIDE DEF new
    <3> QED
      BY <2>1, <3>1, <3>2, <1>s, <1>pc, <1>e, BecomeProc DEF Enqueue
  <2>2. ASSUME NEW j \in Job, CancelJob(j) \/ RetryJob(j) PROVE TypeOK'
    <3>1. CASE CancelJob(j)
      BY <3>1, <1>st DEF CancelJob, Record
    <3>2. CASE RetryJob(j)
      BY <3>2, JobType DEF RetryJob
    <3> QED
      BY <2>2, <3>1, <3>2
  <2>3. ASSUME NEW c \in Client, NEW j \in Job, ReplayRead(c, j) PROVE TypeOK'
    BY <2>3, <1>s, <1>pc, JobType, GotoProc DEF ReplayRead
  <2>4. ASSUME NEW old \in SUBSET Job, Purge(old) PROVE TypeOK'
    BY <2>4, NewJobType DEF Purge
  <2> QED
    BY <1>6, <2>1, <2>2, <2>3, <2>4 DEF Call
<1>7. ASSUME NEW j \in Job, RunAtPasses(j) PROVE TypeOK'
  BY <1>7 DEF RunAtPasses, Record
<1>8. ASSUME NEW p \in Proc, Crash(p) PROVE TypeOK'
  BY <1>8, ReturnProc DEF Crash
<1> QED
  BY <1>1, <1>2, <1>3, <1>4, <1>5, <1>6, <1>7, <1>8 DEF Next

\* Rows stay well formed and the processes' variables keep naming jobs, for
\* every fleet and every mix of client operations.
THEOREM Typing == Spec => []TypeOK
  BY TypeInit, TypeStep, PTL DEF Spec

(***************************************************************************)
(* Exclusive claims.                                                        *)
(*                                                                          *)
(* Most steps only take something away: a slot stops executing, a client    *)
(* has one write less to do, and the rows they change are their own.  The   *)
(* lemma Keeps says that such a step preserves ClaimInv; the four steps     *)
(* that give a process a job (Claim, Enqueue, ReplayRead) or that write for *)
(* a client (ReplayUpdate, Upsert) are proved one by one.                   *)
(***************************************************************************)

\* The hypothesis on the deployment: dead jobs are replayed into queues no
\* worker serves, or never replayed.
NoServedReplay == "replay" \in Ops => \A s \in Slot : "dlq" \notin Queues[s]

\* A step that moves a row between statuses nobody else's write depends on.
Quiet(j) ==
    /\ row'[j].queue = row[j].queue
    /\ row'[j].status = "absent" <=> row[j].status = "absent"
    /\ row'[j].status = "running" <=> row[j].status = "running"
    /\ row'[j].status = "dead" => row[j].status = "dead"

Purged(j) == row[j].status # "running" /\ row'[j] = Absent

OwnWrite(j) ==
    /\ \E s \in Slot : Executing(s, j)
    /\ row'[j].status = "dead" => row'[j].queue = "dlq"

\* What ClaimInv says of one process on its own.
Local(p) ==
    /\ proc[p].pc \in {"check", "upsert"} => \A j \in proc[p].todo : Holds(p, j)
    /\ \A j \in Job : proc[p].held[j].status = "dead" => proc[p].held[j].queue = "dlq"
    /\ proc[p].pc \in {"idle", "promote"} => proc[p].held = NoJobs
    /\ p \in Slot =>
         /\ \A j, k \in Job : Holds(p, j) /\ Holds(p, k) => j = k
         /\ proc[p].pc \in {"claimed", "start", "invoke"} =>
               \A j \in Job : Holds(p, j) => proc[p].held[j].status = "running"

LEMMA LocalInv == ClaimInv => \A p \in Proc : Local(p)
  BY DEF ClaimInv, LoopsHeld, SlotHolds, DeadInDLQ, Local

LEMMA IdleLocal ==
  ASSUME NEW p, proc'[p] = Idle PROVE Local(p)'
  BY DEF Local, Idle, NoJobs, Absent, Holds

LEMMA Keeps ==
  ASSUME ClaimInv, TypeOK', submitted' = submitted,
         \A p \in Proc : Local(p)' /\ \A j \in Job : Holds(p, j)' => Holds(p, j),
         \A s \in Slot, j \in Job : Executing(s, j)' =>
            Executing(s, j) /\ row'[j].status = "running",
         \A c \in Client, j \in Job : WillWrite(c, j)' =>
            /\ WillWrite(c, j)
            /\ proc'[c].held[j].status \in {"pending", "waiting"}
            /\ proc'[c].held[j].queue = proc[c].held[j].queue,
         \A j \in Job : Quiet(j) \/ Purged(j) \/ OwnWrite(j)
  PROVE  ClaimInv'
<1> USE DEF ClaimInv
<1>1. LoopsHeld'
  BY DEF LoopsHeld, Local
<1>2. SlotHolds'
  BY DEF SlotHolds, Local, Proc
<1>3. DeadInDLQ'
  BY DEF DeadInDLQ, Local, Quiet, Purged, OwnWrite, Absent
<1>4. Unsubmitted'
  BY DEF Unsubmitted, Quiet, Purged, OwnWrite, ExecutingIsRunning, Absent
<1>5. ExecutingIsRunning' /\ ExclusiveClaim'
  BY DEF ExecutingIsRunning, ExclusiveClaim
<1>6. ClientWrites'
  <2> SUFFICES ASSUME NEW c \in Client, NEW j \in Job, WillWrite(c, j)'
               PROVE  ReplayWrite(c, j)' \/ FreshWrite(c, j)'
    BY DEF ClientWrites
  <2>1. WillWrite(c, j) /\ (ReplayWrite(c, j) \/ FreshWrite(c, j))
    BY DEF ClientWrites
  <2>2. ~OwnWrite(j)
    BY <2>1 DEF OwnWrite, ExecutingIsRunning, ReplayWrite, FreshWrite
  <2>3. CASE ReplayWrite(c, j)
    BY <2>2, <2>3 DEF ReplayWrite, Quiet, Purged, Absent
  <2>4. CASE FreshWrite(c, j)
    BY <2>2, <2>4 DEF FreshWrite, Quiet, Purged, Absent
  <2> QED
    BY <2>1, <2>3, <2>4
<1> QED
  BY <1>1, <1>2, <1>3, <1>4, <1>5, <1>6

\* A step of slot s on the job it executes, described by what it makes of s.
LEMMA SlotKeeps ==
  ASSUME ClaimInv, TypeOK', submitted' = submitted,
         NEW s \in Slot, Local(s)',
         \A p \in Proc \ {s} : proc'[p] = proc[p],
         \A j \in Job : Holds(s, j)' => Holds(s, j),
         \A j \in Job : Executing(s, j)' => Executing(s, j) /\ row'[j].status = "running",
         \A j \in Job : Quiet(j) \/ (Executing(s, j) /\ OwnWrite(j))
  PROVE  ClaimInv'
<1> USE DEF ClaimInv
<1>1. \A p \in Proc : Local(p)' /\ \A j \in Job : Holds(p, j)' => Holds(p, j)
  <2> TAKE p \in Proc
  <2>1. CASE p = s
    BY <2>1
  <2>2. CASE p # s
    <3>1. Local(p) /\ proc'[p] = proc[p]
      BY <2>2, LocalInv
    <3> QED
      BY <3>1 DEF Local, Holds
  <2> QED
    BY <2>1, <2>2
<1>2. ASSUME NEW t \in Slot, NEW j \in Job, Executing(t, j)'
      PROVE  Executing(t, j) /\ row'[j].status = "running"
  <2>1. CASE t = s
    BY <1>2, <2>1
  <2>2. CASE t # s
    <3>1. Executing(t, j)
      BY <1>2, <2>2 DEF Executing, Holds, Proc
    <3>2. ~Executing(s, j) /\ row[j].status = "running"
      BY <2>2, <3>1 DEF ExclusiveClaim, ExecutingIsRunning
    <3> QED
      BY <3>1, <3>2 DEF Quiet
  <2> QED
    BY <2>1, <2>2
<1>3. ASSUME NEW c \in Client, NEW j \in Job, WillWrite(c, j)'
      PROVE  /\ WillWrite(c, j)
             /\ proc'[c].held[j].status \in {"pending", "waiting"}
             /\ proc'[c].held[j].queue = proc[c].held[j].queue
  <2>1. proc'[c] = proc[c]
    BY ProcAssumption DEF Proc
  <2> QED
    BY <1>3, <2>1 DEF WillWrite, Holds, ClientWrites
<1> QED
  BY <1>1, <1>2, <1>3, Keeps

\* The work of a slot on its job, from the check to the outcome, keeps the
\* invariant: each step only changes the row of the job the slot executes.
LEMMA WorkKeeps ==
  ASSUME ClaimInv, TypeOK', NEW s \in Slot, Work(s)
  PROVE  ClaimInv'
<1> USE DEF ClaimInv
<1> PICK j \in Job : \/ RejectUnknown(s, j) \/ CheckCancelled(s, j) \/ Start(s, j)
                    \/ Succeed(s, j) \/ ScheduleRetry(s, j) \/ MoveToDLQ(s, j)
                    \/ Fail(s, j) \/ Finish(s, j) \/ FetchDependents(s, j)
  BY DEF Work
<1>p. s \in Proc /\ proc \in [Proc -> ProcState] /\ row \in [Job -> Record]
  BY DEF Proc, TypeOK
<1>h. proc[s].held[j] \in Record
  BY <1>p DEF ProcState
<1>l. Local(s)
  BY <1>p, LocalInv
<1>o. \A k \in Job : Holds(s, j) /\ Holds(s, k) => k = j
  BY <1>l DEF Local
<1>st. {"failed", "completed"} \subseteq JobStatus
  BY DEF JobStatus
<1>f. \A st \in {"failed", "completed"} :
         /\ [proc[s].held[j] EXCEPT !.status = st] \in Record
         /\ [proc[s].held[j] EXCEPT !.status = st].status = st
  BY <1>h, <1>st, JobType
<1>pc. {"start", "invoke", "finish", "resolve", "check"} \subseteq PC
  BY DEF PC
<1>q. row' = row => \A k \in Job : Quiet(k)
  BY DEF Quiet
\* The steps that only replace the Job object, and those that also write it.
<1>1. ASSUME NEW pc \in {"start", "invoke", "finish", "resolve"}, NEW job \in Record,
             Goto(s, pc, j, job), Holds(s, j), submitted' = submitted,
             proc[s].pc \in ClaimPC, pc = "resolve" \/ row'[j].status = "running",
             pc \in {"start", "invoke"} => job.status = "running",
             job.status # "absent",
             job.status = "dead" => job.queue = "dlq",
             row' = row \/ Update(j, job)
      PROVE  ClaimInv'
  <2>1. /\ proc'[s].pc = pc /\ proc'[s].held[j] = job /\ proc'[s].todo = {}
        /\ \A k \in Job \ {j} : proc'[s].held[k] = proc[s].held[k]
        /\ \A p \in Proc \ {s} : proc'[p] = proc[p]
    BY <1>1, <1>p, <1>pc, GotoProc
  <2>2. Executing(s, j)
    BY <1>1 DEF Executing
  <2>3. \A k \in Job : Holds(s, k)' <=> k = j
    BY <1>1, <1>o, <2>1 DEF Holds
  <2>4. Local(s)'
    BY <1>1, <1>l, <2>1, <2>3 DEF Local
  <2>5. \A k \in Job : Quiet(k) \/ (Executing(s, k) /\ OwnWrite(k))
    <3>1. CASE row' = row
      BY <3>1, <1>q
    <3>2. CASE Update(j, job)
      <4>1. row'[j] = job /\ \A k \in Job \ {j} : row'[k] = row[k]
        BY <3>2, <2>2, <1>p, UpdateType DEF ExecutingIsRunning
      <4> QED
        BY <4>1, <2>2, <1>1 DEF OwnWrite, Quiet
    <3> QED
      BY <1>1, <3>1, <3>2
  <2>6. \A k \in Job : Executing(s, k)' => Executing(s, k) /\ row'[k].status = "running"
    BY <1>1, <2>1, <2>2, <2>3 DEF Executing, ClaimPC
  <2> QED
    BY <1>1, <2>1, <2>3, <2>4, <2>5, <2>6, SlotKeeps
\* The steps that end the slot's work on the job, or leave the promotions.
<1>2. ASSUME Return(s) \/ Settle(s, WaitingDependents(j)), Holds(s, j), submitted' = submitted,
             \/ row' = row
             \/ Update(j, proc[s].held[j]) /\ proc[s].pc \in ClaimPC
      PROVE  ClaimInv'
  <2>1. /\ proc'[s].held = NoJobs /\ proc'[s].pc \in {"idle", "promote"}
        /\ \A p \in Proc \ {s} : proc'[p] = proc[p]
    BY <1>2, <1>p, ReturnProc, SettleProc DEF Idle, WaitingDependents
  <2>3. \A k \in Job : ~Holds(s, k)' /\ proc'[s].held[k].status # "dead"
    BY <2>1 DEF Holds, NoJobs, Absent
  <2>4. Local(s)'
    BY <2>1, <2>3 DEF Local
  <2>5. \A k \in Job : Quiet(k) \/ (Executing(s, k) /\ OwnWrite(k))
    <3>1. CASE row' = row
      BY <3>1, <1>q
    <3>2. CASE Update(j, proc[s].held[j]) /\ proc[s].pc \in ClaimPC
      <4>1. Executing(s, j)
        BY <1>2, <3>2 DEF Executing
      <4>2. row'[j] = proc[s].held[j] /\ \A k \in Job \ {j} : row'[k] = row[k]
        BY <3>2, <4>1, <1>p, <1>h, UpdateType DEF ExecutingIsRunning
      <4> QED
        BY <4>1, <4>2, <1>l DEF OwnWrite, Quiet, Local
    <3> QED
      BY <1>2, <3>1, <3>2
  <2> QED
    BY <1>2, <2>1, <2>3, <2>4, <2>5, SlotKeeps DEF Executing, Holds
<1>r. Holds(s, j) /\ proc[s].pc \in ClaimPC => row[j].status = "running"
  BY DEF ExecutingIsRunning, Executing
<1>3. CASE RejectUnknown(s, j)
  <2> DEFINE job == [proc[s].held[j] EXCEPT !.status = "failed"]
  <2>1. job \in Record /\ job.status = "failed"
    BY <1>f
  <2>2. Goto(s, "finish", j, job)
    BY <1>3 DEF RejectUnknown
  <2> HIDE DEF job
  <2> QED
    BY <1>3, <2>1, <2>2, <1>1, <1>r DEF RejectUnknown, ClaimPC
<1>4. CASE CheckCancelled(s, j)
  BY <1>4, <1>1, <1>2, <1>r, <1>h, <1>l DEF CheckCancelled, ClaimPC, Local
<1>5. CASE Start(s, j)
  <2>1. proc[s].held[j].status = "running" /\ row'[j] = proc[s].held[j]
    BY <1>5, <1>l, <1>r, <1>p, <1>h, UpdateType DEF Start, Local, ClaimPC
  <2> QED
    BY <1>5, <2>1, <1>1, <1>h DEF Start, ClaimPC
<1>6. CASE Succeed(s, j)
  <2> DEFINE job == [proc[s].held[j] EXCEPT !.status = "completed"]
  <2>1. job \in Record /\ job.status = "completed"
    BY <1>f
  <2>2. Goto(s, "finish", j, job)
    BY <1>6 DEF Succeed
  <2> HIDE DEF job
  <2> QED
    BY <1>6, <2>1, <2>2, <1>1, <1>r DEF Succeed, ClaimPC
<1>7. CASE MoveToDLQ(s, j)
  BY <1>7, <1>1, <1>r, <1>h, JobType DEF MoveToDLQ, ClaimPC
<1>8. CASE Fail(s, j)
  <2> DEFINE job == [proc[s].held[j] EXCEPT !.status = "failed"]
  <2>1. job \in Record /\ job.status = "failed"
    BY <1>f
  <2>2. Goto(s, "finish", j, job)
    BY <1>8 DEF Fail
  <2> HIDE DEF job
  <2> QED
    BY <1>8, <2>1, <2>2, <1>1, <1>r DEF Fail, ClaimPC
<1>9. CASE Finish(s, j)
  BY <1>9, <1>1, <1>2, <1>h DEF Finish, ClaimPC
<1>10. CASE FetchDependents(s, j)
  BY <1>10, <1>2 DEF FetchDependents
<1>11. CASE ScheduleRetry(s, j)
  <2> PICK due \in BOOLEAN :
         Become(s, "check", With(s, j, Retrying(proc[s].held[j], due)), {j}, {})
    BY <1>11 DEF ScheduleRetry
  <2>1. Retrying(proc[s].held[j], due) \in Record /\ {j} \in SUBSET Job /\ {} \in SUBSET Job
    BY <1>h, JobType
  <2>2. With(s, j, Retrying(proc[s].held[j], due)) \in [Job -> Record]
    BY <2>1, <1>p DEF With, ProcState
  <2>3. /\ proc'[s].pc = "check" /\ proc'[s].todo = {j}
        /\ proc'[s].held = With(s, j, Retrying(proc[s].held[j], due))
        /\ \A p \in Proc \ {s} : proc'[p] = proc[p]
    <3>1. PICK held \in [Job -> Record] : held = With(s, j, Retrying(proc[s].held[j], due))
      BY <2>2
    <3>2. PICK todo \in SUBSET Job : todo = {j}
      BY <2>1
    <3>3. Become(s, "check", held, todo, {})
      BY <3>1, <3>2
    <3>4. "check" \in PC
      BY DEF PC
    <3>5. /\ proc'[s].pc = "check" /\ proc'[s].todo = todo /\ proc'[s].held = held
          /\ \A p \in Proc \ {s} : proc'[p] = proc[p]
      BY <2>1, <3>3, <3>4, <1>p, BecomeProc
    <3> QED
      BY <3>1, <3>2, <3>5
  <2>4. /\ proc'[s].held[j].status = "retrying"
        /\ \A k \in Job \ {j} : proc'[s].held[k] = proc[s].held[k]
    BY <2>3, <1>p DEF With, Retrying, ProcState
  <2>5. \A k \in Job : Holds(s, k)' <=> k = j
    BY <1>11, <1>o, <2>4 DEF Holds, ScheduleRetry
  <2>6. Local(s)'
    BY <2>3, <2>4, <2>5, <1>l DEF Local
  <2> QED
    BY <1>11, <1>q, <1>r, <2>3, <2>5, <2>6, SlotKeeps DEF ScheduleRetry, Executing, ClaimPC
<1> QED
  BY <1>3, <1>4, <1>5, <1>6, <1>7, <1>8, <1>9, <1>10, <1>11

\* A step of any process that gives it no job, no claim and no new write.
LEMMA ProcKeeps ==
  ASSUME ClaimInv, TypeOK', submitted' = submitted,
         NEW p \in Proc, Local(p)',
         \A q \in Proc \ {p} : proc'[q] = proc[q],
         \A j \in Job : Holds(p, j)' => Holds(p, j),
         \A j \in Job : Executing(p, j)' => Executing(p, j),
         \A j \in Job : WillWrite(p, j)' =>
            /\ WillWrite(p, j)
            /\ proc'[p].held[j].status \in {"pending", "waiting", proc[p].held[j].status}
            /\ proc'[p].held[j].queue = proc[p].held[j].queue,
         \A j \in Job : Quiet(j)
  PROVE  ClaimInv'
<1> USE DEF ClaimInv
<1>1. \A q \in Proc : Local(q)' /\ \A j \in Job : Holds(q, j)' => Holds(q, j)
  <2> TAKE q \in Proc
  <2>1. q # p => Local(q) /\ proc'[q] = proc[q]
    BY LocalInv
  <2> QED
    BY <2>1 DEF Local, Holds
<1>2. ASSUME NEW t \in Slot, NEW j \in Job, Executing(t, j)'
      PROVE  Executing(t, j) /\ row'[j].status = "running"
  <2>1. Executing(t, j)
    BY <1>2 DEF Executing, Holds, Proc
  <2> QED
    BY <2>1 DEF ExecutingIsRunning, Quiet
<1>3. ASSUME NEW c \in Client, NEW j \in Job, WillWrite(c, j)'
      PROVE  /\ WillWrite(c, j)
             /\ proc'[c].held[j].status \in {"pending", "waiting"}
             /\ proc'[c].held[j].queue = proc[c].held[j].queue
  <2>1. WillWrite(c, j)
    BY <1>3 DEF WillWrite, Holds, Proc
  <2> QED
    BY <1>3, <2>1 DEF ClientWrites, Proc
<1> QED
  BY <1>1, <1>2, <1>3, Keeps

\* A process that lets go of its Job objects: a crash, or a promotion loop.
LEMMA LetGo ==
  ASSUME ClaimInv, TypeOK', submitted' = submitted,
         NEW p \in Proc, proc'[p].held = NoJobs, proc'[p].pc \in {"idle", "promote"},
         \A q \in Proc \ {p} : proc'[q] = proc[q],
         \A j \in Job : Quiet(j)
  PROVE  ClaimInv'
<1>1. \A j \in Job : ~Holds(p, j)' /\ proc'[p].held[j].status # "dead"
  BY DEF Holds, NoJobs, Absent
<1> QED
  BY <1>1, ProcKeeps DEF Local, Executing, WillWrite, Holds

\* Steps that touch no process.
LEMMA RowKeeps ==
  ASSUME ClaimInv, TypeOK', submitted' = submitted, proc' = proc,
         \A j \in Job : Quiet(j) \/ Purged(j)
  PROVE  ClaimInv'
<1> USE DEF ClaimInv
<1>1. \A p \in Proc : Local(p)' /\ \A j \in Job : Holds(p, j)' => Holds(p, j)
  BY LocalInv DEF Local, Holds
<1>2. \A s \in Slot, j \in Job : Executing(s, j)' =>
            Executing(s, j) /\ row'[j].status = "running"
  BY DEF Executing, Holds, ExecutingIsRunning, Quiet, Purged
<1>3. \A c \in Client, j \in Job : WillWrite(c, j)' =>
            /\ WillWrite(c, j)
            /\ proc'[c].held[j].status \in {"pending", "waiting"}
            /\ proc'[c].held[j].queue = proc[c].held[j].queue
  BY DEF WillWrite, Holds, ClientWrites
<1> QED
  BY <1>1, <1>2, <1>3, Keeps

\* The dependency check keeps the invariant: it only turns the status of a
\* held Job object into waiting.
LEMMA CheckDepsKeeps ==
  ASSUME ClaimInv, TypeOK', NEW p \in Proc, NEW j \in Job, CheckDeps(p, j)
  PROVE  ClaimInv'
<1> USE DEF ClaimInv
<1> DEFINE rest == proc[p].todo \ {j}
           waits == [proc[p].held[j] EXCEPT !.status = "waiting"]
           held == IF AllDepsCompleted(j) THEN proc[p].held ELSE With(p, j, waits)
<1>p. /\ proc \in [Proc -> ProcState] /\ proc[p].held \in [Job -> Record]
      /\ proc[p].held[j] \in Record /\ rest \in SUBSET Job
      /\ {"check", "upsert"} \subseteq PC /\ {} \in SUBSET Job
  BY DEF TypeOK, ProcState, PC
<1>w. waits \in Record /\ waits.status = "waiting" /\ waits.queue = proc[p].held[j].queue
  BY <1>p, JobType DEF JobStatus
<1> HIDE DEF rest, waits
<1>1. /\ held \in [Job -> Record]
      /\ held[j] = proc[p].held[j] \/ held[j] = waits
      /\ \A k \in Job \ {j} : held[k] = proc[p].held[k]
  BY <1>p, <1>w DEF With
<1>2. IF rest # {} THEN Become(p, "check", held, rest, {})
      ELSE Become(p, "upsert", held, {k \in Job : Holds(p, k)}, {})
  BY DEF CheckDeps, rest, waits
<1>3. row' = row /\ submitted' = submitted /\ proc[p].pc = "check" /\ j \in proc[p].todo
  BY DEF CheckDeps
<1> HIDE DEF held
<1>4. /\ proc'[p].held = held
      /\ \/ proc'[p].pc = "check" /\ proc'[p].todo = rest
         \/ proc'[p].pc = "upsert" /\ proc'[p].todo = {k \in Job : Holds(p, k)}
      /\ \A q \in Proc \ {p} : proc'[q] = proc[q]
  <2>1. CASE rest # {}
    <3>1. "check" \in PC /\ Become(p, "check", held, rest, {})
      BY <1>2, <1>p, <2>1
    <3>2. /\ proc'[p].held = held /\ proc'[p].pc = "check" /\ proc'[p].todo = rest
          /\ \A q \in Proc \ {p} : proc'[q] = proc[q]
      BY <1>p, <3>1 DEF Become
    <3> QED
      BY <3>2
  <2>2. CASE rest = {}
    <3> DEFINE batch == {k \in Job : Holds(p, k)}
    <3>1. batch \in SUBSET Job /\ Become(p, "upsert", held, batch, {})
      BY <1>2, <2>2
    <3> HIDE DEF batch
    <3>2. /\ proc'[p].held = held /\ proc'[p].pc = "upsert" /\ proc'[p].todo = batch
          /\ \A q \in Proc \ {p} : proc'[q] = proc[q]
      BY <1>p, <3>1 DEF Become
    <3> QED
      BY <3>2 DEF batch
  <2> QED
    BY <2>1, <2>2
<1>5. Holds(p, j) /\ \A k \in proc[p].todo : Holds(p, k)
  BY <1>3 DEF LoopsHeld
<1>6. \A k \in Job : Holds(p, k)' <=> Holds(p, k)
  BY <1>1, <1>4, <1>5, <1>w DEF Holds
<1>l. Local(p)
  BY LocalInv
<1>7. Local(p)'
  <2>1. \A k \in proc'[p].todo : k \in Job /\ Holds(p, k)'
    BY <1>4, <1>5, <1>6, <1>p DEF rest
  <2>2. \A k \in Job : proc'[p].held[k].status = "dead" => proc'[p].held[k].queue = "dlq"
    BY <1>1, <1>4, <1>w, <1>l DEF Local
  <2> QED
    BY <2>1, <2>2, <1>3, <1>4, <1>6, <1>l DEF Local
<1>8. \A k \in Job : WillWrite(p, k)' =>
            /\ WillWrite(p, k)
            /\ proc'[p].held[k].status \in {"pending", "waiting", proc[p].held[k].status}
            /\ proc'[p].held[k].queue = proc[p].held[k].queue
  BY <1>1, <1>3, <1>4, <1>6, <1>w DEF WillWrite
<1>9. \A k \in Job : Executing(p, k)' => Executing(p, k)
  BY <1>3, <1>4, <1>6 DEF Executing, ClaimPC
<1> QED
  BY <1>3, <1>4, <1>6, <1>7, <1>8, <1>9, ProcKeeps DEF Quiet

\* The promotion loop keeps the invariant: it holds no Job object, and turns
\* waiting rows into pending ones only.
LEMMA PromoteKeeps ==
  ASSUME ClaimInv, TypeOK', NEW p \in Proc, NEW j \in Job,
         CountDeps(p, j) \/ MarkPending(p, j)
  PROVE  ClaimInv'
<1> USE DEF ClaimInv
<1>p. /\ proc \in [Proc -> ProcState] /\ row \in [Job -> Record]
      /\ proc[p].todo \in SUBSET Job /\ proc[p].todo \ {j} \in SUBSET Job
      /\ NoJobs \in [Job -> Record] /\ "promote" \in PC /\ {j} \in SUBSET Job
  BY IdleType DEF TypeOK, ProcState, Idle, PC
<1>1. /\ proc'[p].held = NoJobs /\ proc'[p].pc \in {"idle", "promote"}
      /\ \A q \in Proc \ {p} : proc'[q] = proc[q]
  <2>1. CASE Settle(p, proc[p].todo \ {j}) \/ Settle(p, proc[p].todo)
    BY <2>1, <1>p, SettleProc
  <2>2. CASE Become(p, "promote", NoJobs, proc[p].todo \ {j}, {j})
    BY <2>2, <1>p, BecomeProc
  <2> QED
    BY <2>1, <2>2 DEF CountDeps, MarkPending
<1>2. \A k \in Job : Quiet(k)
  <2>1. CASE row' = row
    BY <2>1 DEF Quiet
  <2>2. CASE row[j].status = "waiting" /\ row' = [row EXCEPT ![j].status = "pending"]
    BY <2>2, <1>p DEF Quiet, Record
  <2> QED
    BY <2>1, <2>2 DEF CountDeps, MarkPending
<1>3. submitted' = submitted
  BY DEF CountDeps, MarkPending
<1> QED
  BY <1>1, <1>2, <1>3, LetGo

\* The upsert keeps the invariant.  A slot writes the job it executes and
\* lets go of it; a client writes a job that its invariant ClientWrites says
\* no slot executes.
LEMMA UpsertKeeps ==
  ASSUME ClaimInv, TypeOK', NEW p \in Proc,
         NEW chunk \in Chunks(proc[p].todo), Upsert(p, chunk)
  PROVE  ClaimInv'
<1> USE DEF ClaimInv
<1> DEFINE rest == proc[p].todo \ chunk
           waiting == {k \in Job : proc[p].held[k].status = "waiting"}
<1>p. /\ proc \in [Proc -> ProcState] /\ proc[p].held \in [Job -> Record]
      /\ proc[p].todo \in SUBSET Job /\ rest \in SUBSET Job /\ waiting \in SUBSET Job
      /\ chunk \subseteq proc[p].todo /\ "upsert" \in PC /\ {} \in SUBSET Job
  BY DEF TypeOK, ProcState, PC, Chunks
<1>1. /\ proc[p].pc = "upsert" /\ submitted' = submitted
      /\ row' = [k \in Job |-> IF k \in chunk THEN proc[p].held[k] ELSE row[k]]
      /\ IF rest # {} THEN Become(p, "upsert", proc[p].held, rest, {}) ELSE Settle(p, waiting)
  BY DEF Upsert
<1> HIDE DEF rest, waiting
<1>2. /\ \A q \in Proc \ {p} : proc'[q] = proc[q]
      /\ \/ rest # {} /\ proc'[p].pc = "upsert" /\ proc'[p].todo = rest
            /\ proc'[p].held = proc[p].held
         \/ rest = {} /\ proc'[p].pc \in {"idle", "promote"} /\ proc'[p].held = NoJobs
  <2>1. CASE rest # {}
    <3>1. Become(p, "upsert", proc[p].held, rest, {})
      BY <1>1, <2>1
    <3>2. /\ proc'[p].held = proc[p].held /\ proc'[p].pc = "upsert" /\ proc'[p].todo = rest
          /\ \A q \in Proc \ {p} : proc'[q] = proc[q]
      BY <3>1, <1>p, BecomeProc
    <3> QED
      BY <3>2, <2>1
  <2>2. CASE rest = {}
    BY <1>1, <1>p, <2>2, SettleProc
  <2> QED
    BY <2>1, <2>2
<1>3. \A k \in proc[p].todo : k \in Job /\ Holds(p, k)
  BY <1>1, <1>p DEF LoopsHeld
<1>l. \A q \in Proc : Local(q)
  BY LocalInv
<1>4. Local(p)'
  <2>1. CASE proc'[p].held = NoJobs /\ proc'[p].pc \in {"idle", "promote"}
    BY <2>1 DEF Local, NoJobs, Absent, Holds
  <2>2. CASE rest # {} /\ proc'[p].pc = "upsert" /\ proc'[p].todo = rest
              /\ proc'[p].held = proc[p].held
    BY <1>1, <1>3, <1>l, <2>2 DEF Local, Holds, rest
  <2> QED
    BY <1>2, <2>1, <2>2
<1>5. \A k \in Job : Holds(p, k)' => Holds(p, k)
  BY <1>2 DEF Holds, NoJobs, Absent
<1>6. CASE p \in Slot
  <2>1. \A k, m \in proc[p].todo : k = m
    BY <1>3, <1>6, <1>l DEF Local
  <2>2. chunk = proc[p].todo
    BY <2>1 DEF Chunks
  <2>3. proc'[p].pc \in {"idle", "promote"}
    BY <1>2, <2>2 DEF rest
  <2>4. \A k \in Job : Quiet(k) \/ (Executing(p, k) /\ OwnWrite(k))
    <3> TAKE k \in Job
    <3>1. CASE k \in chunk
      BY <1>1, <1>3, <1>6, <1>l, <1>p, <3>1 DEF Executing, OwnWrite, ClaimPC, Local
    <3>2. CASE k \notin chunk
      BY <1>1, <3>2 DEF Quiet
    <3> QED
      BY <3>1, <3>2
  <2> QED
    BY <1>1, <1>2, <1>4, <1>5, <1>6, <2>3, <2>4, SlotKeeps DEF Executing, ClaimPC
<1>7. CASE p \in Client
  \* The rows written are not executed by anybody, and become unclaimed ones.
  <2>1. \A k \in chunk : k \in Job /\ WillWrite(p, k) /\ Holds(p, k)
    BY <1>1, <1>3, <1>p DEF WillWrite
  <2>2. \A k \in chunk : /\ row[k].status # "running"
                         /\ row'[k] = proc[p].held[k]
                         /\ row'[k].status \in {"pending", "waiting"}
    BY <1>1, <1>7, <2>1 DEF ClientWrites, ReplayWrite, FreshWrite
  <2>3. \A k \in Job \ chunk : row'[k] = row[k]
    BY <1>1
  <2>4. LoopsHeld' /\ SlotHolds' /\ DeadInDLQ'
    <3>1. \A q \in Proc : Local(q)'
      BY <1>2, <1>4, <1>l DEF Local, Holds
    <3> QED
      BY <3>1, <2>2, <2>3 DEF LoopsHeld, SlotHolds, DeadInDLQ, Local, Proc
  <2>5. Unsubmitted'
    BY <1>1, <1>2, <1>5, <2>1, <2>3 DEF Unsubmitted, Holds
  <2>6. \A s \in Slot : proc'[s] = proc[s]
    BY <1>2, <1>7, ProcAssumption DEF Proc
  <2>7. ExecutingIsRunning' /\ ExclusiveClaim'
    BY <2>2, <2>3, <2>6 DEF ExecutingIsRunning, ExclusiveClaim, Executing, Holds
  <2>8. ClientWrites'
    <3> SUFFICES ASSUME NEW c \in Client, NEW k \in Job, WillWrite(c, k)'
                 PROVE  /\ proc'[c].held[k].status \in {"pending", "waiting"}
                        /\ ReplayWrite(c, k)' \/ FreshWrite(c, k)'
      BY DEF ClientWrites
    <3>1. \A d \in Client : WillWrite(d, k)' =>
             WillWrite(d, k) /\ proc'[d].held = proc[d].held /\ ~(d = p /\ k \in chunk)
      <4> TAKE d \in Client
      <4>1. CASE d = p
        BY <1>1, <1>2, <4>1 DEF WillWrite, rest, Holds
      <4>2. CASE d # p
        BY <1>2, <4>2 DEF WillWrite, Holds, Proc
      <4> QED
        BY <4>1, <4>2
    <3>2. WillWrite(c, k) /\ (ReplayWrite(c, k) \/ FreshWrite(c, k))
          /\ proc[c].held[k].status \in {"pending", "waiting"}
      BY <3>1 DEF ClientWrites
    <3>3. CASE k \notin chunk
      BY <3>1, <3>2, <3>3, <2>3 DEF ReplayWrite, FreshWrite
    <3>4. CASE k \in chunk
      <4>1. c # p /\ ReplayWrite(c, k) /\ ReplayWrite(p, k)
        BY <1>7, <3>1, <3>2, <3>4, <2>1 DEF FreshWrite, ClientWrites
      <4> QED
        BY <3>1, <3>2, <3>4, <2>2, <4>1 DEF ReplayWrite
    <3> QED
      BY <3>1, <3>2, <3>3, <3>4
  <2> QED
    BY <2>4, <2>5, <2>7, <2>8
<1> QED
  BY <1>6, <1>7 DEF Proc

\* A claim keeps the invariant: the row was runnable, so nobody executed it,
\* and no client is about to write it.
LEMMA ClaimKeeps ==
  ASSUME NoServedReplay, ClaimInv, TypeOK', NEW s \in Slot, NEW j \in Job, Claim(s, j)
  PROVE  ClaimInv'
<1> USE DEF ClaimInv
<1> DEFINE job == [row[j] EXCEPT !.status = "running"]
<1>p. s \in Proc /\ proc \in [Proc -> ProcState] /\ row \in [Job -> Record] /\ "claimed" \in PC
  BY DEF TypeOK, Proc, PC
<1>j. job \in Record /\ job.status = "running" /\ job.queue = row[j].queue
  <2>1. PICK st \in JobStatus : st = "running"
    BY DEF JobStatus
  <2>2. row[j] \in Record
    BY <1>p
  <2> QED
    BY <2>1, <2>2, JobType
<1>1. /\ proc[s].pc = "idle" /\ submitted' = submitted
      /\ row[j].status \in {"pending", "retrying"} /\ row[j].queue \in Queues[s]
      /\ row' = [row EXCEPT ![j] = job] /\ Goto(s, "claimed", j, job)
  BY DEF Claim, Claimable, RUNNABLE
<1> HIDE DEF job
<1>2. row'[j] = job /\ \A k \in Job \ {j} : row'[k] = row[k]
  BY <1>1, <1>p
<1>3. /\ proc'[s].pc = "claimed" /\ proc'[s].held[j] = job /\ proc'[s].todo = {}
      /\ \A k \in Job \ {j} : proc'[s].held[k] = proc[s].held[k]
      /\ \A q \in Proc \ {s} : proc'[q] = proc[q]
  BY <1>1, <1>j, <1>p, GotoProc
<1>l. \A q \in Proc : Local(q)
  BY LocalInv
<1>4. \A k \in Job : Holds(s, k)' <=> k = j
  <2>1. proc[s].held = NoJobs
    BY <1>1, <1>p, <1>l DEF Local
  <2> QED
    BY <1>3, <1>j, <2>1 DEF Holds, NoJobs, Absent
<1>5. \A q \in Proc : Local(q)'
  <2>1. Local(s)'
    BY <1>3, <1>4, <1>j, <1>l, <1>p DEF Local
  <2> QED
    BY <1>3, <1>l, <2>1 DEF Local, Holds
<1>6. LoopsHeld' /\ SlotHolds' /\ DeadInDLQ'
  BY <1>5, <1>2, <1>j DEF LoopsHeld, SlotHolds, DeadInDLQ, Local, Proc
<1>7. Unsubmitted'
  BY <1>1, <1>2, <1>3, <1>4, <1>p DEF Unsubmitted, Holds
<1>8. \A t \in Slot : ~Executing(t, j)
  BY <1>1 DEF ExecutingIsRunning
<1>9. \A t \in Slot, k \in Job : Executing(t, k)' <=> Executing(t, k) \/ (t = s /\ k = j)
  BY <1>1, <1>3, <1>4 DEF Executing, ClaimPC, Holds, Proc
<1>10. ExecutingIsRunning' /\ ExclusiveClaim'
  BY <1>2, <1>8, <1>9, <1>j, <1>1 DEF ExecutingIsRunning, ExclusiveClaim, Executing, ClaimPC
<1>11. ClientWrites'
  <2>1. \A c \in Client : proc'[c] = proc[c]
    BY <1>3, ProcAssumption DEF Proc
  <2>2. \A c \in Client : ~WillWrite(c, j)
    <3> SUFFICES ASSUME NEW c \in Client, WillWrite(c, j) PROVE FALSE
      OBVIOUS
    <3>1. ReplayWrite(c, j)
      BY <1>1 DEF ClientWrites, FreshWrite
    <3> QED
      BY <1>1, <3>1 DEF ReplayWrite, NoServedReplay
  <2>3. \A c \in Client, k \in Job : WillWrite(c, k)' <=> WillWrite(c, k)
    BY <2>1 DEF WillWrite, Holds
  <2> QED
    BY <2>1, <2>2, <2>3, <1>2 DEF ClientWrites, ReplayWrite, FreshWrite
<1> QED
  BY <1>6, <1>7, <1>10, <1>11

\* The client operations keep the invariant.  A new id is known to nobody;
\* a replayed row is dead, hence in a queue no worker serves.
LEMMA EnqueueKeeps ==
  ASSUME ClaimInv, TypeOK', NEW c \in Client, NEW batch \in Batches, Enqueue(c, batch)
  PROVE  ClaimInv'
<1> USE DEF ClaimInv
<1> DEFINE new(due) == [j \in Job |-> IF j \in batch THEN Fresh(due) ELSE Absent]
<1>1. PICK due \in BOOLEAN : Become(c, "check", new(due), batch, {})
  BY DEF Enqueue
<1>p. /\ c \in Proc /\ proc \in [Proc -> ProcState] /\ "check" \in PC
      /\ batch \in SUBSET Job /\ {} \in SUBSET Job /\ batch \cap submitted = {}
  BY DEF TypeOK, Proc, PC, Batches
<1>2. new(due) \in [Job -> Record]
  BY NewJobType
<1>3. /\ \A j \in batch : new(due)[j].status = "pending"
      /\ \A j \in Job \ batch : new(due)[j].status = "absent"
  BY <1>p DEF Fresh, Absent
<1> HIDE DEF new
<1>4. /\ proc'[c].pc = "check" /\ proc'[c].held = new(due) /\ proc'[c].todo = batch
      /\ \A q \in Proc \ {c} : proc'[q] = proc[q]
  BY <1>1, <1>2, <1>p, BecomeProc
<1>5. row' = row /\ submitted' = submitted \cup batch
  BY DEF Enqueue
<1>6. c \notin Slot
  BY ProcAssumption
<1>7. \A q \in Proc : Local(q)'
  <2>1. Local(c)'
    BY <1>3, <1>4, <1>6, <1>p DEF Local, Holds
  <2>2. \A q \in Proc : Local(q)
    BY LocalInv
  <2> QED
    BY <1>4, <2>1, <2>2 DEF Local, Holds
<1>8. LoopsHeld' /\ SlotHolds' /\ DeadInDLQ'
  BY <1>5, <1>7 DEF LoopsHeld, SlotHolds, DeadInDLQ, Local, Proc
<1>9. Unsubmitted'
  <2> SUFFICES ASSUME NEW j \in Job, j \notin submitted, j \notin batch
               PROVE  row[j].status = "absent" /\ \A p \in Proc : ~Holds(p, j)'
    BY <1>5 DEF Unsubmitted
  <2> QED
    BY <1>3, <1>4, <1>p DEF Unsubmitted, Holds
<1>10. \A s \in Slot : proc'[s] = proc[s]
  BY <1>4, <1>6 DEF Proc
<1>11. ExecutingIsRunning' /\ ExclusiveClaim'
  BY <1>5, <1>10 DEF ExecutingIsRunning, ExclusiveClaim, Executing, Holds
<1>12. ClientWrites'
  <2>1. \A j \in batch : /\ j \in Job /\ row[j].status = "absent"
                         /\ \A d \in Client : ~WillWrite(d, j)
    BY <1>p DEF Unsubmitted, WillWrite, LoopsHeld, Proc
  <2>2. \A d \in Client, j \in Job : WillWrite(d, j)' =>
           \/ d = c /\ j \in batch
           \/ d # c /\ WillWrite(d, j) /\ proc'[d] = proc[d]
    BY <1>3, <1>4 DEF WillWrite, Holds, Proc
  <2> SUFFICES ASSUME NEW d \in Client, NEW j \in Job, WillWrite(d, j)'
               PROVE  /\ proc'[d].held[j].status \in {"pending", "waiting"}
                      /\ ReplayWrite(d, j)' \/ FreshWrite(d, j)'
    BY DEF ClientWrites
  <2>3. CASE d = c /\ j \in batch
    <3>1. FreshWrite(d, j)'
      BY <1>5, <2>1, <2>2, <2>3 DEF FreshWrite
    <3> QED
      BY <1>3, <1>4, <2>3, <3>1
  <2>4. CASE d # c /\ WillWrite(d, j) /\ proc'[d] = proc[d]
    <3>1. j \notin batch
      BY <2>1, <2>4
    <3>2. FreshWrite(d, j) => FreshWrite(d, j)'
      BY <1>5, <2>2, <3>1 DEF FreshWrite
    <3>3. ReplayWrite(d, j) => ReplayWrite(d, j)'
      BY <1>5, <2>4 DEF ReplayWrite
    <3> QED
      BY <2>4, <3>2, <3>3 DEF ClientWrites
  <2> QED
    BY <2>2, <2>3, <2>4
<1> QED
  BY <1>8, <1>9, <1>11, <1>12

LEMMA ReplayReadKeeps ==
  ASSUME ClaimInv, TypeOK', "replay" \in Ops, NEW c \in Client, NEW j \in Job, ReplayRead(c, j)
  PROVE  ClaimInv'
<1> USE DEF ClaimInv
<1>p. /\ c \in Proc /\ proc \in [Proc -> ProcState] /\ row \in [Job -> Record]
      /\ row[j] \in Record /\ "replay" \in PC /\ c \notin Slot
  BY ProcAssumption DEF TypeOK, Proc, PC
<1>1. /\ row' = row /\ submitted' = submitted /\ row[j].status = "dead"
      /\ proc[c].pc = "idle" /\ Goto(c, "replay", j, Reset(row[j]))
  BY DEF ReplayRead
<1>2. Reset(row[j]) \in Record /\ Reset(row[j]).status = "pending" /\ Reset(row[j]).queue = "dlq"
  BY <1>1, <1>p, JobType DEF Reset, DeadInDLQ
<1>3. /\ proc'[c].pc = "replay" /\ proc'[c].held[j] = Reset(row[j]) /\ proc'[c].todo = {}
      /\ \A k \in Job \ {j} : proc'[c].held[k] = proc[c].held[k]
      /\ \A q \in Proc \ {c} : proc'[q] = proc[q]
  BY <1>1, <1>2, <1>p, GotoProc
<1>l. \A q \in Proc : Local(q)
  BY LocalInv
<1>i. \A k \in Job \ {j} : ~Holds(c, k) /\ ~Holds(c, k)'
  BY <1>1, <1>3, <1>l, <1>p DEF Local, Holds, NoJobs, Absent
<1>4. \A q \in Proc : Local(q)'
  <2>1. Local(c)'
    BY <1>2, <1>3, <1>l, <1>p DEF Local
  <2> QED
    BY <1>3, <1>l, <2>1 DEF Local, Holds
<1>5. LoopsHeld' /\ SlotHolds' /\ DeadInDLQ'
  BY <1>1, <1>4 DEF LoopsHeld, SlotHolds, DeadInDLQ, Local, Proc
<1>6. Unsubmitted'
  BY <1>1, <1>3 DEF Unsubmitted, Holds
<1>7. \A s \in Slot : proc'[s] = proc[s]
  BY <1>3, <1>p DEF Proc
<1>8. ExecutingIsRunning' /\ ExclusiveClaim'
  BY <1>1, <1>7 DEF ExecutingIsRunning, ExclusiveClaim, Executing, Holds
\* An idle client holds nothing, so the replay is all it is about to write.
<1>9. \A d \in Client, k \in Job : WillWrite(d, k)' =>
         \/ d = c /\ k = j
         \/ d # c /\ WillWrite(d, k) /\ proc'[d] = proc[d]
  BY <1>3, <1>i DEF WillWrite, Holds, Proc
<1>10. ClientWrites'
  <2> SUFFICES ASSUME NEW d \in Client, NEW k \in Job, WillWrite(d, k)'
               PROVE  /\ proc'[d].held[k].status \in {"pending", "waiting"}
                      /\ ReplayWrite(d, k)' \/ FreshWrite(d, k)'
    BY DEF ClientWrites
  <2>1. CASE d = c /\ k = j
    BY <1>1, <1>2, <1>3, <2>1 DEF ReplayWrite, DeadInDLQ
  <2>2. CASE d # c
    <3>1. FreshWrite(d, k) => FreshWrite(d, k)'
      <4> SUFFICES ASSUME FreshWrite(d, k), NEW other \in Client \ {d}, WillWrite(other, k)'
                   PROVE  FALSE
        BY <1>1 DEF FreshWrite
      <4>1. other = c /\ k = j
        BY <1>9 DEF FreshWrite
      <4> QED
        BY <1>1, <4>1 DEF FreshWrite
    <3>2. ReplayWrite(d, k) => ReplayWrite(d, k)'
      BY <1>1, <1>9, <2>2 DEF ReplayWrite
    <3> QED
      BY <1>9, <2>2, <3>1, <3>2 DEF ClientWrites
  <2> QED
    BY <1>9, <2>1, <2>2
<1> QED
  BY <1>5, <1>6, <1>8, <1>10

LEMMA ReplayUpdateKeeps ==
  ASSUME ClaimInv, TypeOK', NEW c \in Client, NEW j \in Job, ReplayUpdate(c, j)
  PROVE  ClaimInv'
<1> USE DEF ClaimInv
<1>p. /\ c \in Proc /\ proc \in [Proc -> ProcState] /\ row \in [Job -> Record]
      /\ proc[c].held \in [Job -> Record] /\ proc[c].held[j] \in Record
      /\ "check" \in PC /\ c \notin Slot /\ {j} \in SUBSET Job /\ {} \in SUBSET Job
  BY ProcAssumption DEF TypeOK, Proc, PC, ProcState
<1>1. /\ submitted' = submitted /\ proc[c].pc = "replay" /\ Holds(c, j)
      /\ Update(j, proc[c].held[j]) /\ Become(c, "check", proc[c].held, {j}, {})
  BY DEF ReplayUpdate
<1>2. /\ proc'[c].pc = "check" /\ proc'[c].held = proc[c].held /\ proc'[c].todo = {j}
      /\ \A q \in Proc \ {c} : proc'[q] = proc[q]
  BY <1>1, <1>p DEF Become
<1>3. /\ \A k \in Job \ {j} : row'[k] = row[k]
      /\ row'[j] = IF row[j].status = "absent" THEN row[j] ELSE proc[c].held[j]
  BY <1>1, <1>p, UpdateType
<1>4. WillWrite(c, j) /\ proc[c].held[j].status \in {"pending", "waiting"}
      /\ (ReplayWrite(c, j) \/ FreshWrite(c, j))
  BY <1>1 DEF WillWrite, ClientWrites
<1>5. row[j].status # "running" /\ row'[j].status \in {"absent", "pending", "waiting"}
  BY <1>3, <1>4 DEF ReplayWrite, FreshWrite
<1>l. \A q \in Proc : Local(q)
  BY LocalInv
<1>6. \A q \in Proc : Local(q)'
  <2>1. Local(c)'
    BY <1>1, <1>2, <1>l, <1>p DEF Local, Holds
  <2> QED
    BY <1>2, <1>l, <2>1 DEF Local, Holds
<1>7. LoopsHeld' /\ SlotHolds' /\ DeadInDLQ'
  BY <1>3, <1>5, <1>6 DEF LoopsHeld, SlotHolds, DeadInDLQ, Local, Proc
<1>8. Unsubmitted'
  BY <1>1, <1>2, <1>3 DEF Unsubmitted, Holds
<1>9. \A s \in Slot : proc'[s] = proc[s]
  BY <1>2, <1>p DEF Proc
<1>10. ExecutingIsRunning' /\ ExclusiveClaim'
  BY <1>3, <1>5, <1>9 DEF ExecutingIsRunning, ExclusiveClaim, Executing, Holds
<1>11. \A d \in Client, k \in Job : WillWrite(d, k)' =>
          WillWrite(d, k) /\ proc'[d].held = proc[d].held
  BY <1>1, <1>2 DEF WillWrite, Holds, Proc
<1>12. ClientWrites'
  <2> SUFFICES ASSUME NEW d \in Client, NEW k \in Job, WillWrite(d, k)'
               PROVE  /\ proc'[d].held[k].status \in {"pending", "waiting"}
                      /\ ReplayWrite(d, k)' \/ FreshWrite(d, k)'
    BY DEF ClientWrites
  <2>1. /\ WillWrite(d, k) /\ proc'[d].held = proc[d].held
        /\ proc[d].held[k].status \in {"pending", "waiting"}
        /\ ReplayWrite(d, k) \/ FreshWrite(d, k)
    BY <1>11 DEF ClientWrites
  <2>2. CASE FreshWrite(d, k)
    BY <1>3, <1>11, <2>1, <2>2 DEF FreshWrite
  <2>3. CASE ReplayWrite(d, k)
    BY <1>3, <1>4, <1>5, <2>1, <2>3 DEF ReplayWrite, FreshWrite
  <2> QED
    BY <2>1, <2>2, <2>3
<1> QED
  BY <1>7, <1>8, <1>10, <1>12

LEMMA ClaimInvInit == Init => ClaimInv
<1> SUFFICES ASSUME Init PROVE ClaimInv
  OBVIOUS
<1>1. /\ \A p \in Proc : proc[p] = Idle
      /\ \A j \in Job : row[j] = Absent
      /\ submitted = {}
  BY DEF Init
<1>2. \A p \in Proc, j \in Job : ~Holds(p, j)
  BY <1>1 DEF Holds, Idle, NoJobs, Absent
<1>3. LoopsHeld /\ SlotHolds
  BY <1>1, <1>2 DEF LoopsHeld, SlotHolds, Idle, Proc
<1>4. DeadInDLQ /\ Unsubmitted
  BY <1>1, <1>2 DEF DeadInDLQ, Unsubmitted, Idle, NoJobs, Absent
<1>5. ClientWrites /\ ExecutingIsRunning /\ ExclusiveClaim
  BY <1>1, <1>2 DEF ClientWrites, WillWrite, Idle, ExecutingIsRunning, ExclusiveClaim, Executing, Proc
<1> QED
  BY <1>3, <1>4, <1>5, TypeInit DEF ClaimInv

LEMMA ClaimInvStep ==
  ASSUME NoServedReplay, ClaimInv, [Next]_vars
  PROVE  ClaimInv'
<1>t. TypeOK'
  BY TypeStep DEF ClaimInv
<1>1. CASE UNCHANGED vars
  BY <1>1, <1>t, RowKeeps DEF vars, Quiet
<1>2. ASSUME NEW s \in Slot, NEW j \in Job, Claim(s, j) PROVE ClaimInv'
  BY <1>2, <1>t, ClaimKeeps
<1>3. ASSUME NEW s \in Slot, Work(s) PROVE ClaimInv'
  BY <1>3, <1>t, WorkKeeps
<1>4. ASSUME NEW p \in Proc, Broker(p) PROVE ClaimInv'
  BY <1>4, <1>t, CheckDepsKeeps, PromoteKeeps, UpsertKeeps DEF Broker
<1>5. ASSUME NEW c \in Client, NEW j \in Job, ReplayUpdate(c, j) PROVE ClaimInv'
  BY <1>5, <1>t, ReplayUpdateKeeps
<1>6. CASE Call
  <2>1. ASSUME NEW c \in Client, NEW batch \in Batches, Enqueue(c, batch) PROVE ClaimInv'
    BY <2>1, <1>t, EnqueueKeeps
  <2>2. ASSUME NEW j \in Job, CancelJob(j) PROVE ClaimInv'
    <3>1. \A k \in Job : Quiet(k)
      BY <2>2 DEF CancelJob, CANCELLABLE_STATUSES, Quiet, ClaimInv, TypeOK, Record
    <3> QED
      BY <2>2, <3>1, <1>t, RowKeeps DEF CancelJob
  <2>3. ASSUME NEW j \in Job, RetryJob(j) PROVE ClaimInv'
    <3>1. \A k \in Job : Quiet(k)
      BY <2>3 DEF RetryJob, RETRIABLE_STATUSES, Quiet, Reset, ClaimInv, TypeOK, Record
    <3> QED
      BY <2>3, <3>1, <1>t, RowKeeps DEF RetryJob
  <2>4. ASSUME "replay" \in Ops, NEW c \in Client, NEW j \in Job, ReplayRead(c, j) PROVE ClaimInv'
    BY <2>4, <1>t, ReplayReadKeeps
  <2>5. ASSUME NEW old \in SUBSET Job, Purge(old) PROVE ClaimInv'
    <3>1. \A k \in Job : Quiet(k) \/ Purged(k)
      BY <2>5 DEF Purge, TERMINAL_STATUSES, Quiet, Purged
    <3> QED
      BY <2>5, <3>1, <1>t, RowKeeps DEF Purge
  <2> QED
    BY <1>6, <2>1, <2>2, <2>3, <2>4, <2>5 DEF Call
<1>7. ASSUME NEW j \in Job, RunAtPasses(j) PROVE ClaimInv'
  <2>1. \A k \in Job : Quiet(k)
    BY <1>7 DEF RunAtPasses, Quiet, ClaimInv, TypeOK, Record
  <2> QED
    BY <1>7, <2>1, <1>t, RowKeeps DEF RunAtPasses
<1>8. ASSUME NEW p \in Proc, Crash(p) PROVE ClaimInv'
  <2>1. /\ proc'[p].held = NoJobs /\ proc'[p].pc \in {"idle", "promote"}
        /\ \A q \in Proc \ {p} : proc'[q] = proc[q]
    BY <1>8, ReturnProc DEF Crash, ClaimInv, TypeOK, Idle
  <2> QED
    BY <1>8, <2>1, <1>t, LetGo DEF Crash, Quiet
<1> QED
  BY <1>1, <1>2, <1>3, <1>4, <1>5, <1>6, <1>7, <1>8 DEF Next

\* Whoever is about to write a row (update_job, the upsert) may do so: the slot
\* that executes the job, a client with a new id, or one that replays a dead job.
THEOREM ClaimsGuarded ==
  ASSUME NoServedReplay
  PROVE  Spec => []ClaimInv
<1>1. Init => ClaimInv
  BY ClaimInvInit
<1>2. ClaimInv /\ [Next]_vars => ClaimInv'
  BY ClaimInvStep
<1> QED
  BY <1>1, <1>2, PTL DEF Spec

\* Unless dead jobs are replayed into a queue that a worker serves, no two
\* slots of the fleet ever execute the same job, and the row of a job being
\* executed says running, whatever the clients do and whoever crashes.
THEOREM Exclusive ==
  ASSUME NoServedReplay
  PROVE  Spec => [](ExclusiveClaim /\ ExecutingIsRunning)
<1>1. ClaimInv => ExclusiveClaim /\ ExecutingIsRunning
  BY DEF ClaimInv
<1> QED
  BY <1>1, ClaimsGuarded, PTL

(***************************************************************************)
(* Finished jobs.                                                           *)
(***************************************************************************)

\* The only rows a step of a slot writes are runnable, waiting or its own.
LEMMA TerminalStep ==
  ASSUME ClaimInv, [Next]_vars,
         NEW s \in Slot, proc'[s] # proc[s],
         NEW k \in Job, row[k].status \in TERMINAL_STATUSES
  PROVE  row'[k] = row[k]
<1> USE DEF ClaimInv
<1>p. /\ proc \in [Proc -> ProcState] /\ row \in [Job -> Record] /\ s \in Proc /\ s \notin Client
      /\ \A p \in Proc : proc[p].held \in [Job -> Record] /\ proc[p].todo \in SUBSET Job
  BY ProcAssumption DEF TypeOK, Proc, ProcState
<1>n. row[k].status \notin {"pending", "retrying", "waiting", "running"}
  BY DEF TERMINAL_STATUSES
<1>x. \A t \in Slot : ~Executing(t, k)
  BY <1>n DEF ExecutingIsRunning
<1>1. CASE row' = row
  BY <1>1
<1>2. ASSUME NEW t \in Slot, NEW j \in Job, Claim(t, j) PROVE row'[k] = row[k]
  BY <1>2, <1>p, <1>n DEF Claim, Claimable, RUNNABLE
<1>3. ASSUME NEW t \in Slot, NEW j \in Job, Start(t, j) \/ Finish(t, j) PROVE row'[k] = row[k]
  <2>1. Executing(t, j) /\ proc[t].held[j] \in Record
    BY <1>3, <1>p DEF Start, Finish, Executing, ClaimPC, Proc
  <2>2. k # j /\ Update(j, proc[t].held[j])
    BY <1>3, <1>x, <2>1 DEF Start, Finish
  <2> QED
    BY <2>1, <2>2, <1>p, UpdateType
<1>4. ASSUME NEW p \in Proc, NEW j \in Job, MarkPending(p, j) PROVE row'[k] = row[k]
  BY <1>4, <1>p, <1>n DEF MarkPending
<1>5. ASSUME NEW p \in Proc, NEW chunk \in Chunks(proc[p].todo), Upsert(p, chunk)
      PROVE  row'[k] = row[k]
  <2>1. p = s
    <3> SUFFICES ASSUME p # s PROVE FALSE
      OBVIOUS
    <3> DEFINE rest == proc[p].todo \ chunk
               waiting == {j \in Job : proc[p].held[j].status = "waiting"}
    <3>1. Become(p, "upsert", proc[p].held, rest, {}) \/ Settle(p, waiting)
      BY <1>5 DEF Upsert
    <3> QED
      BY <3>1, <1>p DEF Become, Settle, Return
  <2>2. k \notin chunk
    <3>1. k \in proc[p].todo => Executing(s, k)
      BY <1>5, <1>p, <2>1 DEF Upsert, LoopsHeld, Executing, ClaimPC
    <3> QED
      BY <3>1, <1>x DEF Chunks
  <2> QED
    BY <1>5, <2>2 DEF Upsert
<1>6. ASSUME NEW c \in Client, NEW j \in Job, ReplayUpdate(c, j) PROVE FALSE
  BY <1>6, <1>p DEF ReplayUpdate, Become
<1>7. \/ row' = row
      \/ \E t \in Slot, j \in Job : Claim(t, j) \/ Start(t, j) \/ Finish(t, j)
      \/ \E p \in Proc, j \in Job : MarkPending(p, j)
      \/ \E p \in Proc : \E chunk \in Chunks(proc[p].todo) : Upsert(p, chunk)
  <2>1. CASE UNCHANGED vars
    BY <2>1 DEF vars
  <2>2. ASSUME NEW t \in Slot, Work(t)
        PROVE  row' = row \/ \E j \in Job : Start(t, j) \/ Finish(t, j)
    BY <2>2 DEF Work, RejectUnknown, CheckCancelled, Succeed, ScheduleRetry, MoveToDLQ, Fail,
                FetchDependents
  <2>3. ASSUME NEW p \in Proc, Broker(p)
        PROVE  row' = row \/ (\E j \in Job : MarkPending(p, j))
               \/ \E chunk \in Chunks(proc[p].todo) : Upsert(p, chunk)
    BY <2>3 DEF Broker, CheckDeps, CountDeps
  <2>4. CASE Call
    BY <2>4 DEF Call, Enqueue, ReplayRead, CancelJob, RetryJob, Purge
  <2>5. ASSUME NEW p \in Proc, Crash(p) PROVE row' = row
    BY <2>5 DEF Crash
  <2>6. ASSUME NEW j \in Job, RunAtPasses(j) PROVE FALSE
    BY <2>6 DEF RunAtPasses
  <2> QED
    BY <2>1, <2>2, <2>3, <2>4, <2>5, <2>6, <1>6 DEF Next
<1> QED
  BY <1>1, <1>2, <1>3, <1>4, <1>5, <1>7

\* Under the same hypothesis no slot ever touches the row of a finished job,
\* however late it writes: terminal statuses are left on a client's request
\* only.
THEOREM Terminal ==
  ASSUME NoServedReplay
  PROVE  Spec => TerminalStable
<1>1. Init => ClaimInv
  BY ClaimInvInit
<1>2. ClaimInv /\ [Next]_vars => ClaimInv'
  BY ClaimInvStep
<1>3. ClaimInv /\ [Next]_vars =>
        [\A s \in Slot : proc'[s] # proc[s] =>
           \A j \in Job : row[j].status \in TERMINAL_STATUSES => row'[j] = row[j]]_vars
  BY TerminalStep
<1> QED
  BY <1>1, <1>2, <1>3, PTL DEF Spec, TerminalStable

(***************************************************************************)
(* The refinement: every step is, to each job, a step of JobLifecycle.      *)
(***************************************************************************)

\* The slots that execute job j, as Life(j) has them.
Executors(j) == {s \in Slot : Executing(s, j)}

\* What a step is to job j.
LifeStep(j) == [Life(j)!Next]_(Life(j)!vars)

\* The outcomes that a slot may be about to store.
OutcomeOf(j, job) ==
    \/ job.status = "completed"
    \/ j \in Unknown /\ job.status = "failed"
    \/ job.retries = MaxRetries[j] /\ job.status = IF j \in DeadLettered THEN "dead" ELSE "failed"

\* A slot's Job object counts the attempts as the row does, or one more once
\* the attempt has failed; it names a replayable queue only as a dead job.
Attempt(s, j) == Executing(s, j) =>
    LET held == proc[s].held[j]
    IN  /\ proc[s].pc \in {"claimed", "start", "invoke", "finish"} => held.retries = row[j].retries
        /\ proc[s].pc = "finish" => OutcomeOf(j, held)
        /\ proc[s].pc \in {"check", "upsert"} =>
              /\ held.status \in {"retrying", "waiting"}
              /\ row[j].retries < MaxRetries[j] /\ held.retries = row[j].retries + 1
        /\ proc[s].pc = "upsert" => j \in proc[s].todo
        /\ "replay" \in Ops => held.queue = "home" \/ held.status = "dead"

\* What a client is about to write has not been attempted.
Untried(cl, j) == WillWrite(cl, j) => proc[cl].held[j].retries = 0

RowLife(j) ==
    /\ row[j].retries <= MaxRetries[j]
    /\ "replay" \in Ops /\ row[j].queue = "dlq" =>
          row[j].status \in {"dead", "pending", "waiting", "cancelled"}

LifeInv == /\ \A j \in Job : RowLife(j)
           /\ \A s \in Slot, j \in Job : Attempt(s, j)
           /\ \A cl \in Client, j \in Job : Untried(cl, j)

\* What is proved of each step: it keeps the invariant, it is to each job a step
\* of its life or none, and unless it is a crash it leaves no job behind.
Lives == /\ LifeInv'
         /\ \A j \in Job : LifeStep(j)
         /\ crashes' = crashes => Orphans' \subseteq Orphans

\* While a job's row does not say running nobody executes it, and otherwise
\* one slot at most.
Alone == \A j \in Job : /\ row[j].status # "running" => Executors(j) = {}
                        /\ \A s \in Slot : Executing(s, j) => Executors(j) = {s}

LEMMA OnlyOne == ClaimInv => Alone
BY DEF ClaimInv, ExclusiveClaim, ExecutingIsRunning, Executors, Alone

LEMMA OnlyOneNext == ClaimInv' => Alone'
BY OnlyOne, PTL

\* What a step may do to a job that nobody executes.
Moves(j) ==
    LET st == row[j].status  st2 == row'[j].status  r == row[j].retries  r2 == row'[j].retries
    IN  \/ st = "absent" /\ st2 \in {"pending", "waiting"} /\ r2 = 0
        \/ st = "waiting" /\ st2 = "pending" /\ r2 = r
        \/ st \in CANCELLABLE_STATUSES /\ st2 = "cancelled" /\ r2 = r
        \/ st \in {"failed", "cancelled", "dead", "pending", "waiting"} /\ st2 \in {"pending", "waiting"} /\ r2 = 0
        \/ st \in TERMINAL_STATUSES /\ st2 = "absent" /\ r2 \in {0, r}

\* How an attempt may end; without an outcome only by a crash.
Ends(j) ==
    LET st2 == row'[j].status  r == row[j].retries  r2 == row'[j].retries
    IN  \/ row'[j] = row[j] /\ crashes' # crashes
        \/ r2 = r /\ OutcomeOf(j, row'[j])
        \/ st2 \in {"retrying", "waiting"} /\ r < MaxRetries[j] /\ r2 = r + 1

\* Both are steps of the life of j.
LEMMA LifeMoves ==
  ASSUME NEW j \in Job, Moves(j), Executors(j) = {}, Executors(j)' = {}
  PROVE  LifeStep(j)
<1>1. Life(j)!Submit \/ Life(j)!Release \/ Life(j)!Cancel \/ Life(j)!Requeue \/ Life(j)!Purge
  BY DEF Life!Submit, Life!Release, Life!Cancel, Life!Requeue, Life!Purge, Executors, Moves,
     CANCELLABLE_STATUSES, TERMINAL_STATUSES, Life!CANCELLABLE_STATUSES, Life!TERMINAL_STATUSES
<1> QED BY <1>1 DEF Life!Next, LifeStep

LEMMA LifeEnds ==
  ASSUME NEW j \in Job, Ends(j), row[j].status = "running", Executors(j) # {}, Executors(j)' = {}
  PROVE  LifeStep(j)
<1>1. CASE row'[j] = row[j]
  BY <1>1 DEF Life!Lose, Life!Next, LifeStep, Executors
<1>2. CASE row'[j].retries = row[j].retries /\ OutcomeOf(j, row'[j])
  <2>1. Life(j)!Complete \/ Life(j)!Reject \/ Life(j)!GiveUp
    BY <1>2 DEF Life!Complete, Life!Reject, Life!GiveUp, OutcomeOf, Executors
  <2> QED BY <2>1 DEF Life!Next, LifeStep
<1>3. CASE /\ row'[j].status \in {"retrying", "waiting"} /\ row[j].retries < MaxRetries[j]
           /\ row'[j].retries = row[j].retries + 1
  <2>1. Life(j)!Retry
    BY <1>3 DEF Life!Retry, Executors
  <2> QED BY <2>1 DEF Life!Next, LifeStep
<1> QED BY <1>1, <1>2, <1>3 DEF Ends

LEMMA LifeStays ==
  ASSUME NEW j \in Job, Executors(j)' = Executors(j),
         row'[j].status = row[j].status, row'[j].retries = row[j].retries
  PROVE  LifeStep(j)
BY DEF Life!vars, LifeStep, Executors

\* A step that starts and ends no attempt: it leaves each row as it was, or
\* moves one that is not running.
LEMMA Around ==
  ASSUME ClaimInv, ClaimInv', LifeInv,
         \A s \in Slot : proc'[s] = proc[s] \/ \A k \in Job : ~Executing(s, k) /\ ~Executing(s, k)',
         \A k \in Job : \/ /\ row'[k].status = row[k].status /\ row'[k].retries = row[k].retries
                           /\ row'[k].queue = row[k].queue
                        \/ row[k].status # "running" /\ Moves(k) /\ RowLife(k)',
         \A cl \in Client, k \in Job : Untried(cl, k)'
  PROVE  Lives
<1>1. \A s \in Slot, k \in Job : Executing(s, k)' <=> Executing(s, k)
  BY DEF Executing, Holds
<1>2. \A k \in Job : Executors(k)' = Executors(k)
  BY <1>1 DEF Executors
<1>3. \A k \in Job : RowLife(k)'
  BY DEF LifeInv, RowLife
<1>4. ASSUME NEW s \in Slot, NEW k \in Job PROVE Attempt(s, k)'
  <2> SUFFICES ASSUME Executing(s, k)' PROVE Attempt(s, k)'
    BY DEF Attempt
  <2>1. Executing(s, k) /\ proc'[s] = proc[s]
    BY <1>1
  <2>2. row'[k].retries = row[k].retries
    BY <2>1 DEF ClaimInv, ExecutingIsRunning
  <2>3. Attempt(s, k)
    BY DEF LifeInv
  <2> QED BY <2>1, <2>2, <2>3 DEF Attempt, OutcomeOf
<1>5. ASSUME NEW k \in Job PROVE LifeStep(k)
  <2>1. CASE row'[k].status = row[k].status /\ row'[k].retries = row[k].retries
    BY <2>1, <1>2, LifeStays
  <2>2. CASE row[k].status # "running" /\ Moves(k)
    <3>1. Executors(k) = {} /\ Executors(k)' = {}
      BY <2>2, <1>2, OnlyOne DEF Alone
    <3> QED BY <2>2, <3>1, LifeMoves
  <2> QED BY <2>1, <2>2
<1>6. Orphans' \subseteq Orphans
  BY <1>1 DEF Orphans, Moves
<1> QED BY <1>3, <1>4, <1>5, <1>6 DEF LifeInv, Lives

\* A step of a slot on the job it executes.
LEMMA OnOwn ==
  ASSUME ClaimInv, ClaimInv', LifeInv, NEW s \in Slot, NEW j \in Job, Executing(s, j),
         \A p \in Proc \ {s} : proc'[p] = proc[p],
         \A k \in Job \ {j} : row'[k] = row[k] /\ ~Executing(s, k)',
         RowLife(j)',
         \/ /\ Executing(s, j)' /\ Attempt(s, j)'
            /\ row'[j].status = row[j].status /\ row'[j].retries = row[j].retries
         \/ ~Executing(s, j)' /\ Ends(j)
  PROVE  Lives
<1>1. \A k \in Job \ {j} : ~Executing(s, k)
  BY DEF ClaimInv, SlotHolds, Executing
<1>2. \A t \in Slot \ {s}, k \in Job : (Executing(t, k)' <=> Executing(t, k)) /\ proc'[t] = proc[t]
  BY DEF Executing, Holds, Proc
<1>3. \A t \in Slot \ {s} : ~Executing(t, j)
  BY DEF ClaimInv, ExclusiveClaim
<1>4. \A k \in Job : RowLife(k)'
  BY DEF LifeInv, RowLife
<1>5. ASSUME NEW t \in Slot, NEW k \in Job PROVE Attempt(t, k)'
  <2> SUFFICES ASSUME Executing(t, k)' PROVE Attempt(t, k)'
    BY DEF Attempt
  <2>1. CASE t = s
    BY <2>1
  <2>2. CASE t # s
    <3>1. Attempt(t, k) /\ Executing(t, k) /\ proc'[t] = proc[t] /\ row'[k] = row[k]
      BY <1>2, <1>3, <2>2 DEF LifeInv
    <3> QED BY <3>1 DEF Attempt, OutcomeOf
  <2> QED BY <2>1, <2>2
<1>6. \A cl \in Client, k \in Job : Untried(cl, k)'
  BY ProcAssumption DEF LifeInv, Untried, WillWrite, Holds, Proc
<1>7. ASSUME NEW k \in Job \ {j} PROVE LifeStep(k)
  <2>1. Executors(k)' = Executors(k)
    BY <1>1, <1>2 DEF Executors
  <2> QED BY <2>1, LifeStays
<1>8. LifeStep(j)
  <2>1. Executors(j) = {s} /\ row[j].status = "running"
    BY OnlyOne DEF Alone, ClaimInv, ExecutingIsRunning
  <2>2. CASE Executing(s, j)' /\ row'[j].status = row[j].status /\ row'[j].retries = row[j].retries
    <3>1. Executors(j)' = {s}
      BY <2>2, OnlyOneNext DEF Alone
    <3> QED BY <2>1, <2>2, <3>1, LifeStays
  <2>3. CASE ~Executing(s, j)' /\ Ends(j)
    <3>1. Executors(j)' = {}
      BY <1>2, <1>3, <2>3 DEF Executors
    <3> QED BY <2>1, <2>3, <3>1, LifeEnds
  <2> QED BY <2>2, <2>3
<1>9. CASE Executing(s, j)'
  <2>1. Orphans' \subseteq Orphans
    BY <1>2, <1>1, <1>9 DEF Orphans
  <2> QED BY <1>4, <1>5, <1>6, <1>7, <1>8, <2>1 DEF LifeInv, Lives
<1>10. CASE ~Executing(s, j)' /\ Ends(j)
  <2>1. crashes' = crashes => row'[j].status # "running"
    BY <1>10 DEF Ends, OutcomeOf
  <2>2. crashes' = crashes => Orphans' \subseteq Orphans
    BY <1>2, <1>1, <2>1 DEF Orphans
  <2> QED BY <1>4, <1>5, <1>6, <1>7, <1>8, <2>2 DEF LifeInv, Lives
<1> QED BY <1>9, <1>10

\* What a slot that executes j knows of it.
LEMMA OwnJob ==
  ASSUME ClaimInv, LifeInv, NEW s \in Slot, NEW j \in Job, Executing(s, j)
  PROVE  /\ s \in Proc /\ proc \in [Proc -> ProcState] /\ row \in [Job -> Record]
         /\ proc[s].held \in [Job -> Record] /\ proc[s].held[j] \in Record
         /\ row[j] \in Record /\ row[j].retries \in Nat /\ MaxRetries[j] \in Nat
         /\ proc[s].held[j].status # "absent"
         /\ row[j].status = "running" /\ RowLife(j) /\ Attempt(s, j)
         /\ \A k \in Job \ {j} : ~Holds(s, k)
<1>1. proc \in [Proc -> ProcState] /\ row \in [Job -> Record] /\ s \in Proc
  BY DEF ClaimInv, TypeOK, Proc
<1>2. proc[s].held \in [Job -> Record]
  BY <1>1 DEF ProcState
<1>3. row[j].status = "running" /\ RowLife(j) /\ Attempt(s, j)
  BY DEF ClaimInv, ExecutingIsRunning, LifeInv
<1>4. proc[s].held[j].status # "absent" /\ \A k \in Job \ {j} : ~Holds(s, k)
  BY DEF ClaimInv, SlotHolds, Executing, Holds
<1> QED BY <1>1, <1>2, <1>3, <1>4, MaxRetriesAssumption DEF Record

\* A slot goes on with its attempt: it replaces its Job object, and the row
\* keeps its status and its count.
Onward(s, j) ==
    LET pc == proc'[s].pc
        held == proc'[s].held[j]
    IN  /\ pc \in {"start", "invoke", "finish", "check", "upsert"}
        /\ \A p \in Proc \ {s} : proc'[p] = proc[p]
        /\ \A k \in Job \ {j} : row'[k] = row[k] /\ proc'[s].held[k] = proc[s].held[k]
        /\ row'[j].status = row[j].status /\ row'[j].retries = row[j].retries
        /\ row'[j].queue \in {row[j].queue, proc[s].held[j].queue}
        /\ row'[j] = row[j] \/ (proc[s].pc = "start" /\ row'[j] = proc[s].held[j])
        /\ held.status # "absent"
        /\ pc \in {"start", "invoke", "finish"} => held.retries = row[j].retries
        /\ pc = "finish" => OutcomeOf(j, held)
        /\ pc \in {"check", "upsert"} =>
              /\ held.status \in {"retrying", "waiting"}
              /\ row[j].retries < MaxRetries[j] /\ held.retries = row[j].retries + 1
        /\ pc = "upsert" => j \in proc'[s].todo
        /\ "replay" \in Ops => held.queue = "home" \/ held.status = "dead"

LEMMA GoesOn ==
  ASSUME ClaimInv, ClaimInv', LifeInv, NEW s \in Slot, NEW j \in Job, Executing(s, j),
         Onward(s, j)
  PROVE  Lives
<1>1. row[j].status = "running" /\ RowLife(j) /\ Attempt(s, j) /\ \A k \in Job \ {j} : ~Holds(s, k)
  BY OwnJob
<1>2. Executing(s, j)'
  BY DEF Executing, Holds, ClaimPC, Onward
<1>3. \A k \in Job \ {j} : row'[k] = row[k] /\ ~Executing(s, k)'
  BY <1>1 DEF Executing, Holds, Onward
<1>4. Attempt(s, j)'
  BY DEF Attempt, OutcomeOf, Onward
<1>5. RowLife(j)'
  BY <1>1 DEF RowLife, Attempt, Onward
<1>6. row'[j].status = row[j].status /\ row'[j].retries = row[j].retries
      /\ \A p \in Proc \ {s} : proc'[p] = proc[p]
  BY DEF Onward
<1> QED BY <1>2, <1>3, <1>4, <1>5, <1>6, OnOwn

\* A slot's attempt ends: it lets go of its Job object, or keeps it only to
\* find the dependents.
LEMMA LetsGo ==
  ASSUME ClaimInv, ClaimInv', LifeInv, NEW s \in Slot, NEW j \in Job, Executing(s, j),
         \A p \in Proc \ {s} : proc'[p] = proc[p],
         proc'[s].pc \notin ClaimPC,
         \A k \in Job \ {j} : row'[k] = row[k],
         \/ row'[j] = row[j] /\ crashes' # crashes
         \/ row'[j] = proc[s].held[j] /\ proc[s].pc \in {"finish", "upsert"}
  PROVE  Lives
<1>1. /\ row[j].status = "running" /\ RowLife(j) /\ Attempt(s, j)
      /\ row[j].retries \in Nat /\ MaxRetries[j] \in Nat
  BY OwnJob
<1>2. \A k \in Job : ~Executing(s, k)'
  BY DEF Executing
<1>3. CASE row'[j] = row[j] /\ crashes' # crashes
  BY <1>1, <1>2, <1>3, OnOwn DEF Ends, RowLife
<1>4. CASE row'[j] = proc[s].held[j] /\ proc[s].pc = "finish"
  <2>1. Ends(j) /\ row'[j].retries = row[j].retries
    BY <1>1, <1>4 DEF Ends, Attempt
  <2>2. RowLife(j)'
    BY <1>1, <1>4, <2>1 DEF RowLife, Attempt
  <2> QED BY <1>2, <2>1, <2>2, OnOwn
<1>5. CASE row'[j] = proc[s].held[j] /\ proc[s].pc = "upsert"
  <2>1. Ends(j) /\ row'[j].retries = row[j].retries + 1 /\ row[j].retries < MaxRetries[j]
    BY <1>1, <1>5 DEF Ends, Attempt
  <2>2. RowLife(j)'
    BY <1>1, <1>5, <2>1 DEF RowLife, Attempt
  <2> QED BY <1>2, <2>1, <2>2, OnOwn
<1> QED BY <1>3, <1>4, <1>5

\* The objects that the outcomes are stored as.
LEMMA OutcomeType ==
  ASSUME NEW job \in Record, NEW st \in {"failed", "completed"}
  PROVE  \E object \in Record :
            /\ object = [job EXCEPT !.status = st] /\ object.status = st
            /\ object.retries = job.retries /\ object.queue = job.queue
<1>1. /\ [job EXCEPT !.status = st] \in Record /\ [job EXCEPT !.status = st].status = st
      /\ [job EXCEPT !.status = st].retries = job.retries
      /\ [job EXCEPT !.status = st].queue = job.queue
  BY DEF Record, JobStatus
<1> QED BY <1>1

LEMMA DeadType ==
  ASSUME NEW job \in Record
  PROVE  \E object \in Record :
            /\ object = [job EXCEPT !.status = "dead", !.queue = "dlq"]
            /\ object.status = "dead" /\ object.retries = job.retries
<1>1. /\ [job EXCEPT !.status = "dead", !.queue = "dlq"] \in Record
      /\ [job EXCEPT !.status = "dead", !.queue = "dlq"].status = "dead"
      /\ [job EXCEPT !.status = "dead", !.queue = "dlq"].retries = job.retries
  BY DEF Record, JobStatus, Queue
<1> QED BY <1>1

LEMMA RetryingType ==
  ASSUME NEW job \in Record, NEW due \in BOOLEAN
  PROVE  \E object \in Record :
            /\ object = Retrying(job, due) /\ object.status = "retrying"
            /\ object.retries = job.retries + 1 /\ object.queue = job.queue
<1>1. /\ Retrying(job, due) \in Record /\ Retrying(job, due).status = "retrying"
      /\ Retrying(job, due).retries = job.retries + 1
      /\ Retrying(job, due).queue = job.queue
  BY JobType DEF Retrying
<1> QED BY <1>1

\* One job of a process's local variables is replaced.
LEMMA WithJob ==
  ASSUME NEW p, proc[p].held \in [Job -> Record], NEW j \in Job, NEW object \in Record
  PROVE  \E held \in [Job -> Record] :
            /\ held = With(p, j, object) /\ held[j] = object
            /\ \A k \in Job \ {j} : held[k] = proc[p].held[k]
<1>1. With(p, j, object) \in [Job -> Record] /\ With(p, j, object)[j] = object
      /\ \A k \in Job \ {j} : With(p, j, object)[k] = proc[p].held[k]
  BY DEF With
<1> QED BY <1>1

LEMMA WorkLives ==
  ASSUME ClaimInv, ClaimInv', LifeInv, NEW s \in Slot, Work(s)
  PROVE  Lives
<1> PICK j \in Job : \/ RejectUnknown(s, j) \/ CheckCancelled(s, j) \/ Start(s, j)
                    \/ Succeed(s, j) \/ ScheduleRetry(s, j) \/ MoveToDLQ(s, j)
                    \/ Fail(s, j) \/ Finish(s, j) \/ FetchDependents(s, j)
  BY DEF Work
<1>1. CASE FetchDependents(s, j)
  <2>p. s \in Proc /\ proc \in [Proc -> ProcState]
    BY DEF ClaimInv, TypeOK, Proc
  <2>1. /\ row' = row /\ proc[s].pc = "resolve" /\ proc'[s].pc \in {"idle", "promote"}
        /\ \A p \in Proc \ {s} : proc'[p] = proc[p]
    BY <1>1, <2>p, SettleProc DEF FetchDependents, WaitingDependents
  <2>2. \A t \in Slot : proc'[t] = proc[t] \/ \A k \in Job : ~Executing(t, k) /\ ~Executing(t, k)'
    BY <2>1, <2>p DEF Executing, ClaimPC, Proc
  <2>3. \A cl \in Client, k \in Job : Untried(cl, k)'
    BY <2>1, ProcAssumption DEF LifeInv, Untried, WillWrite, Holds, Proc
  <2> QED BY <2>1, <2>2, <2>3, Around
<1>2. CASE ~FetchDependents(s, j)
  <2>1. Executing(s, j)
    BY <1>2 DEF Executing, ClaimPC, RejectUnknown, CheckCancelled, Start, Succeed, ScheduleRetry,
                MoveToDLQ, Fail, Finish
  <2>o. /\ s \in Proc /\ proc \in [Proc -> ProcState] /\ row \in [Job -> Record]
        /\ proc[s].held \in [Job -> Record] /\ proc[s].held[j] \in Record
        /\ row[j] \in Record /\ row[j].retries \in Nat /\ MaxRetries[j] \in Nat
        /\ proc[s].held[j].status # "absent"
        /\ row[j].status = "running" /\ RowLife(j) /\ Attempt(s, j)
    BY <2>1, OwnJob
  <2>pc. {"start", "invoke", "finish", "resolve", "check"} \subseteq PC
    BY DEF PC
  <2>2. ASSUME NEW pc \in {"start", "invoke", "finish"}, NEW object \in Record, Goto(s, pc, j, object)
        PROVE  /\ proc'[s].pc = pc /\ proc'[s].held[j] = object
               /\ \A k \in Job \ {j} : proc'[s].held[k] = proc[s].held[k]
               /\ \A p \in Proc \ {s} : proc'[p] = proc[p]
    BY <2>2, <2>o, <2>pc, GotoProc
  <2>3. ASSUME NEW object \in Record, Goto(s, "finish", j, object), row' = row,
               object.status # "absent", object.retries = row[j].retries, OutcomeOf(j, object),
               "replay" \in Ops => object.queue = "home" \/ object.status = "dead"
        PROVE  Lives
    <3>1. PICK pc \in {"finish"} : Goto(s, pc, j, object)
      BY <2>3
    <3>2. Onward(s, j)
      BY <2>2, <2>3, <2>o, <3>1 DEF Onward
    <3> QED BY <2>1, <3>2, GoesOn
  <2>4. CASE RejectUnknown(s, j)
    <3>1. PICK object \in Record :
             /\ object = [proc[s].held[j] EXCEPT !.status = "failed"] /\ object.status = "failed"
             /\ object.retries = proc[s].held[j].retries /\ object.queue = proc[s].held[j].queue
      BY <2>o, OutcomeType
    <3>2. /\ Goto(s, "finish", j, object) /\ row' = row /\ proc[s].pc = "claimed" /\ j \in Unknown
          /\ proc[s].held[j].status = "running"
      BY <2>4, <3>1 DEF RejectUnknown, ClaimInv, SlotHolds
    <3>3. OutcomeOf(j, object) /\ object.retries = row[j].retries
      BY <3>1, <3>2, <2>1, <2>o DEF OutcomeOf, Attempt
    <3>4. "replay" \in Ops => object.queue = "home"
      BY <3>1, <3>2, <2>1, <2>o DEF Attempt
    <3> QED BY <3>1, <3>2, <3>3, <3>4, <2>3
  <2>5. CASE CheckCancelled(s, j)
    <3>1. row' = row /\ Goto(s, "start", j, proc[s].held[j])
      BY <2>5, <2>o DEF CheckCancelled
    <3>p. proc[s].pc = "claimed"
      BY <2>5 DEF CheckCancelled
    <3>2. /\ proc[s].held[j].retries = row[j].retries
          /\ "replay" \in Ops => proc[s].held[j].queue = "home" \/ proc[s].held[j].status = "dead"
      BY <2>1, <3>p, <2>o DEF Attempt
    <3>3. PICK pc \in {"start"} : Goto(s, pc, j, proc[s].held[j])
      BY <3>1
    <3>4. /\ proc'[s].pc = "start" /\ proc'[s].held[j] = proc[s].held[j]
          /\ \A k \in Job \ {j} : proc'[s].held[k] = proc[s].held[k]
          /\ \A p \in Proc \ {s} : proc'[p] = proc[p]
      BY <2>2, <2>o, <3>3
    <3>5. Onward(s, j)
      BY <2>o, <3>p, <3>1, <3>2, <3>4 DEF Onward
    <3> QED BY <2>1, <3>5, GoesOn
  <2>6. CASE Start(s, j)
    <3>1. row'[j] = proc[s].held[j] /\ \A k \in Job \ {j} : row'[k] = row[k]
      BY <2>6, <2>o, UpdateType DEF Start
    <3>2. proc[s].held[j].status = "running" /\ proc[s].held[j].retries = row[j].retries
      BY <2>6, <2>1, <2>o DEF Start, ClaimInv, SlotHolds, Attempt
    <3>3. /\ proc'[s].pc = "invoke" /\ proc'[s].held[j] = proc[s].held[j]
          /\ \A k \in Job \ {j} : proc'[s].held[k] = proc[s].held[k]
          /\ \A p \in Proc \ {s} : proc'[p] = proc[p]
      BY <2>6, <2>2, <2>o DEF Start
    <3>4. "replay" \in Ops => proc[s].held[j].queue = "home"
      BY <2>1, <2>o, <3>2 DEF Attempt
    <3>5. proc[s].pc = "start"
      BY <2>6 DEF Start
    <3>6. Onward(s, j)
      BY <2>o, <3>1, <3>2, <3>3, <3>4, <3>5 DEF Onward
    <3> QED BY <2>1, <3>6, GoesOn
  <2>7. CASE Succeed(s, j)
    <3>1. PICK object \in Record :
             /\ object = [proc[s].held[j] EXCEPT !.status = "completed"] /\ object.status = "completed"
             /\ object.retries = proc[s].held[j].retries /\ object.queue = proc[s].held[j].queue
      BY <2>o, OutcomeType
    <3>2. proc[s].held[j].status = "running"
      BY <2>7 DEF Succeed, ClaimInv, SlotHolds
    <3> QED BY <2>7, <3>1, <3>2, <2>1, <2>3, <2>o DEF Succeed, Attempt, OutcomeOf
  <2>8. CASE MoveToDLQ(s, j) \/ Fail(s, j)
    <3>1. PICK object \in Record :
             /\ object = IF j \in DeadLettered
                         THEN [proc[s].held[j] EXCEPT !.status = "dead", !.queue = "dlq"]
                         ELSE [proc[s].held[j] EXCEPT !.status = "failed"]
             /\ object.status = IF j \in DeadLettered THEN "dead" ELSE "failed"
             /\ object.retries = proc[s].held[j].retries
             /\ object.status = "dead" \/ object.queue = proc[s].held[j].queue
      <4>1. CASE j \in DeadLettered
        <5>1. PICK dead \in Record : /\ dead = [proc[s].held[j] EXCEPT !.status = "dead", !.queue = "dlq"]
                                    /\ dead.status = "dead" /\ dead.retries = proc[s].held[j].retries
          BY <2>o, DeadType
        <5> QED BY <5>1, <4>1
      <4>2. CASE j \notin DeadLettered
        <5>1. PICK failed \in Record :
                 /\ failed = [proc[s].held[j] EXCEPT !.status = "failed"] /\ failed.status = "failed"
                 /\ failed.retries = proc[s].held[j].retries
                 /\ failed.queue = proc[s].held[j].queue
          BY <2>o, OutcomeType
        <5> QED BY <5>1, <4>2
      <4> QED BY <4>1, <4>2
    <3>2. /\ Goto(s, "finish", j, object) /\ row' = row /\ proc[s].pc = "invoke"
          /\ ~(proc[s].held[j].retries < MaxRetries[j])
      BY <2>8, <3>1 DEF MoveToDLQ, Fail, CanRetry
    <3>3. proc[s].held[j].retries = row[j].retries /\ proc[s].held[j].status = "running"
      BY <2>1, <2>8, <3>2, <2>o DEF Attempt, ClaimInv, SlotHolds, MoveToDLQ, Fail
    <3>4. object.retries = MaxRetries[j]
      BY <3>1, <3>2, <3>3, <2>o DEF RowLife
    <3>5. OutcomeOf(j, object) /\ object.status # "absent"
      BY <3>1, <3>4 DEF OutcomeOf
    <3>6. "replay" \in Ops => object.queue = "home" \/ object.status = "dead"
      BY <3>1, <3>3, <2>1, <2>o DEF Attempt
    <3>7. object.retries = row[j].retries
      BY <3>1, <3>3
    <3> QED BY <3>2, <3>5, <3>6, <3>7, <2>3
  <2>9. CASE ScheduleRetry(s, j)
    <3>1. PICK due \in BOOLEAN :
             Become(s, "check", With(s, j, Retrying(proc[s].held[j], due)), {j}, {})
      BY <2>9 DEF ScheduleRetry
    <3>2. PICK object \in Record :
             /\ object = Retrying(proc[s].held[j], due) /\ object.status = "retrying"
             /\ object.retries = proc[s].held[j].retries + 1 /\ object.queue = proc[s].held[j].queue
      BY <2>o, RetryingType
    <3>3. PICK held \in [Job -> Record] :
             /\ held = With(s, j, object) /\ held[j] = object
             /\ \A k \in Job \ {j} : held[k] = proc[s].held[k]
      BY <2>o, WithJob
    <3>4. PICK pc \in PC, todo \in SUBSET Job, ready \in SUBSET Job :
             pc = "check" /\ todo = {j} /\ ready = {}
      BY <2>pc
    <3>5. Become(s, pc, held, todo, ready)
      BY <3>1, <3>2, <3>3, <3>4
    <3>6. /\ proc'[s].pc = "check" /\ proc'[s].held = held
          /\ \A p \in Proc \ {s} : proc'[p] = proc[p]
      BY <3>4, <3>5, <2>o DEF Become
    <3>7. /\ proc[s].held[j].retries = row[j].retries /\ row[j].retries < MaxRetries[j]
          /\ row' = row /\ proc[s].held[j].status = "running"
      BY <2>1, <2>9, <2>o DEF ScheduleRetry, Attempt, CanRetry, ClaimInv, SlotHolds
    <3>8. "replay" \in Ops => proc[s].held[j].queue = "home"
      BY <2>1, <2>o, <3>7 DEF Attempt
    <3>9. Onward(s, j)
      BY <2>o, <3>2, <3>3, <3>6, <3>7, <3>8 DEF Onward
    <3> QED BY <2>1, <3>9, GoesOn
  <2>10. CASE Finish(s, j)
    <3>1. row'[j] = proc[s].held[j] /\ (\A k \in Job \ {j} : row'[k] = row[k]) /\ proc[s].pc = "finish"
      BY <2>10, <2>o, UpdateType DEF Finish
    <3>2. /\ proc'[s].pc \in {"resolve", "idle"} /\ \A p \in Proc \ {s} : proc'[p] = proc[p]
      BY <2>10, <2>o, <2>pc, GotoProc, ReturnProc DEF Finish, Idle
    <3>3. proc'[s].pc \notin ClaimPC
      BY <3>2 DEF ClaimPC
    <3> QED BY <3>1, <3>2, <3>3, <2>1, LetsGo
  <2> QED BY <1>2, <2>4, <2>5, <2>6, <2>7, <2>8, <2>9, <2>10
<1> QED BY <1>1, <1>2

LEMMA ClaimLives ==
  ASSUME NoServedReplay, ClaimInv, ClaimInv', LifeInv, NEW s \in Slot, NEW j \in Job, Claim(s, j)
  PROVE  Lives
<1>p. /\ s \in Proc /\ proc \in [Proc -> ProcState] /\ row \in [Job -> Record] /\ "claimed" \in PC
      /\ row[j] \in Record
  BY DEF ClaimInv, TypeOK, Proc, PC
<1>j. PICK object \in Record :
         /\ object = [row[j] EXCEPT !.status = "running"] /\ object.status = "running"
         /\ object.retries = row[j].retries /\ object.queue = row[j].queue
  <2>1. /\ [row[j] EXCEPT !.status = "running"] \in Record
        /\ [row[j] EXCEPT !.status = "running"].status = "running"
        /\ [row[j] EXCEPT !.status = "running"].retries = row[j].retries
        /\ [row[j] EXCEPT !.status = "running"].queue = row[j].queue
    BY <1>p DEF Record, JobStatus
  <2> QED BY <2>1
<1>1. /\ proc[s].pc = "idle" /\ row[j].status \in RUNNABLE /\ row[j].queue \in Queues[s]
      /\ row' = [row EXCEPT ![j] = object] /\ Goto(s, "claimed", j, object)
  BY <1>j DEF Claim, Claimable
<1>2. row'[j] = object /\ \A k \in Job \ {j} : row'[k] = row[k]
  BY <1>1, <1>p
<1>3. /\ proc'[s].pc = "claimed" /\ proc'[s].held[j] = object
      /\ \A k \in Job \ {j} : proc'[s].held[k] = proc[s].held[k]
      /\ \A q \in Proc \ {s} : proc'[q] = proc[q]
  BY <1>1, <1>p, GotoProc
<1>4. \A k \in Job : ~Holds(s, k)
  BY <1>1, <1>p DEF ClaimInv, LoopsHeld, Holds, NoJobs, Absent
<1>5. \A k \in Job \ {j} : \A t \in Slot : Executing(t, k)' <=> Executing(t, k)
  BY <1>3, <1>4 DEF Executing, Holds, Proc
<1>6. Executors(j) = {} /\ Executing(s, j)'
  BY <1>1, <1>3, <1>j, OnlyOne DEF Alone, RUNNABLE, Executing, ClaimPC, Holds
<1>7. Executors(j)' = {s}
  BY <1>6, OnlyOneNext DEF Alone
<1>8. "replay" \in Ops => object.queue = "home" /\ row'[j].queue # "dlq"
  BY <1>1, <1>2, <1>j DEF NoServedReplay, Record, Queue
<1>9. \A k \in Job : RowLife(k)'
  <2>1. RowLife(j)'
    BY <1>2, <1>8, <1>j DEF LifeInv, RowLife
  <2>2. \A k \in Job \ {j} : RowLife(k)'
    BY <1>2 DEF LifeInv, RowLife
  <2> QED BY <2>1, <2>2
<1>10. ASSUME NEW t \in Slot, NEW k \in Job PROVE Attempt(t, k)'
  <2> SUFFICES ASSUME Executing(t, k)' PROVE Attempt(t, k)'
    BY DEF Attempt
  <2>1. CASE k = j
    <3>1. t = s
      BY <2>1, <1>7 DEF Executors
    <3> QED BY <3>1, <2>1, <1>2, <1>3, <1>8 DEF Attempt
  <2>2. CASE k # j
    <3>1. Executing(t, k) /\ t # s /\ Attempt(t, k)
      BY <2>2, <1>4, <1>5 DEF LifeInv, Executing
    <3>2. proc'[t] = proc[t] /\ row'[k] = row[k]
      BY <3>1, <2>2, <1>2, <1>3 DEF Proc
    <3> QED BY <3>1, <3>2 DEF Attempt, OutcomeOf
  <2> QED BY <2>1, <2>2
<1>11. \A cl \in Client, k \in Job : Untried(cl, k)'
  BY <1>3, ProcAssumption DEF LifeInv, Untried, WillWrite, Holds, Proc
<1>12. ASSUME NEW k \in Job PROVE LifeStep(k)
  <2>1. CASE k = j
    <3>1. Life(j)!Take(s)
      BY <1>1, <1>2, <1>6, <1>7, <1>j DEF Life!Take, Executors
    <3> QED BY <2>1, <3>1 DEF Life!Next, LifeStep
  <2>2. CASE k # j
    <3>1. Executors(k)' = Executors(k)
      BY <2>2, <1>5 DEF Executors
    <3> QED BY <3>1, <2>2, <1>2, LifeStays
  <2> QED BY <2>1, <2>2
<1>13. Orphans' \subseteq Orphans
  BY <1>2, <1>5, <1>6 DEF Orphans
<1> QED BY <1>9, <1>10, <1>11, <1>12, <1>13 DEF LifeInv, Lives

\* A step of one process that is not at work on a job, before or after.
LEMMA AroundProc ==
  ASSUME ClaimInv, ClaimInv', LifeInv, NEW p \in Proc,
         \A q \in Proc \ {p} : proc'[q] = proc[q],
         p \in Slot => \A k \in Job : ~Executing(p, k) /\ ~Executing(p, k)',
         \A k \in Job : \/ /\ row'[k].status = row[k].status /\ row'[k].retries = row[k].retries
                           /\ row'[k].queue = row[k].queue
                        \/ row[k].status # "running" /\ Moves(k) /\ RowLife(k)',
         p \in Client => \A k \in Job : Untried(p, k)'
  PROVE  Lives
<1>1. \A s \in Slot : proc'[s] = proc[s] \/ \A k \in Job : ~Executing(s, k) /\ ~Executing(s, k)'
  BY DEF Proc
<1>2. ASSUME NEW cl \in Client, NEW k \in Job PROVE Untried(cl, k)'
  <2>1. CASE cl = p
    BY <2>1
  <2>2. CASE cl # p
    <3>1. proc'[cl] = proc[cl] /\ Untried(cl, k)
      BY <2>2 DEF Proc, LifeInv
    <3> QED BY <3>1 DEF Untried, WillWrite, Holds
  <2> QED BY <2>1, <2>2
<1> QED BY <1>1, <1>2, Around

\* A step of the rows alone.
LEMMA AroundRows ==
  ASSUME ClaimInv, ClaimInv', LifeInv, proc' = proc,
         \A k \in Job : \/ /\ row'[k].status = row[k].status /\ row'[k].retries = row[k].retries
                           /\ row'[k].queue = row[k].queue
                        \/ row[k].status # "running" /\ Moves(k) /\ RowLife(k)'
  PROVE  Lives
<1>1. \A cl \in Client, k \in Job : Untried(cl, k)'
  BY DEF LifeInv, Untried, WillWrite, Holds
<1> QED BY <1>1, Around

LEMMA PromoteLives ==
  ASSUME ClaimInv, ClaimInv', LifeInv, NEW p \in Proc, NEW j \in Job,
         CountDeps(p, j) \/ MarkPending(p, j)
  PROVE  Lives
<1>p. /\ proc \in [Proc -> ProcState] /\ row \in [Job -> Record] /\ row[j] \in Record
      /\ proc[p].todo \in SUBSET Job /\ proc[p].todo \ {j} \in SUBSET Job
      /\ NoJobs \in [Job -> Record] /\ "promote" \in PC /\ {j} \in SUBSET Job
  BY IdleType DEF ClaimInv, TypeOK, ProcState, Idle, PC
<1>0. proc[p].pc = "promote"
  BY DEF CountDeps, MarkPending
<1>1. /\ proc'[p].pc \in {"idle", "promote"}
      /\ \A q \in Proc \ {p} : proc'[q] = proc[q]
  <2>1. CASE Settle(p, proc[p].todo \ {j}) \/ Settle(p, proc[p].todo)
    BY <2>1, <1>p, SettleProc
  <2>2. CASE Become(p, "promote", NoJobs, proc[p].todo \ {j}, {j})
    <3>1. PICK rest \in SUBSET Job, ready \in SUBSET Job :
             rest = proc[p].todo \ {j} /\ ready = {j}
      BY <1>p
    <3>2. Become(p, "promote", NoJobs, rest, ready)
      BY <2>2, <3>1
    <3> QED BY <3>2, <1>p, BecomeProc
  <2> QED BY <2>1, <2>2 DEF CountDeps, MarkPending
<1>2. \A k \in Job : ~Executing(p, k) /\ ~Executing(p, k)' /\ ~WillWrite(p, k)'
  BY <1>0, <1>1 DEF Executing, ClaimPC, WillWrite
<1>3. ASSUME NEW k \in Job
      PROVE  \/ row'[k] = row[k]
             \/ row[k].status # "running" /\ Moves(k) /\ RowLife(k)'
  <2>1. CASE row' = row
    BY <2>1
  <2>2. CASE row[j].status = "waiting" /\ row' = [row EXCEPT ![j].status = "pending"]
    <3>1. CASE k # j
      BY <2>2, <3>1, <1>p
    <3>2. CASE k = j
      <4>1. /\ row'[j].status = "pending" /\ row'[j].retries = row[j].retries
            /\ row'[j].queue = row[j].queue
        BY <2>2, <1>p DEF Record
      <4> QED BY <2>2, <3>2, <4>1 DEF Moves, RowLife, LifeInv
    <3> QED BY <3>1, <3>2
  <2> QED BY <2>1, <2>2 DEF CountDeps, MarkPending
<1>4. \A k \in Job : Untried(p, k)'
  BY <1>2 DEF Untried
<1> QED BY <1>1, <1>2, <1>3, <1>4, AroundProc

LEMMA CheckDepsLives ==
  ASSUME ClaimInv, ClaimInv', LifeInv, NEW p \in Proc, NEW j \in Job, CheckDeps(p, j)
  PROVE  Lives
<1>p. /\ proc \in [Proc -> ProcState] /\ proc[p].held \in [Job -> Record]
      /\ proc[p].held[j] \in Record /\ {"check", "upsert"} \subseteq PC /\ {} \in SUBSET Job
      /\ proc[p].todo \in SUBSET Job
  BY DEF ClaimInv, TypeOK, ProcState, PC
<1>w. PICK waits \in Record : /\ waits = [proc[p].held[j] EXCEPT !.status = "waiting"]
                              /\ waits.status = "waiting" /\ waits.queue = proc[p].held[j].queue
                              /\ waits.retries = proc[p].held[j].retries
  <2>1. /\ [proc[p].held[j] EXCEPT !.status = "waiting"] \in Record
        /\ [proc[p].held[j] EXCEPT !.status = "waiting"].status = "waiting"
        /\ [proc[p].held[j] EXCEPT !.status = "waiting"].queue = proc[p].held[j].queue
        /\ [proc[p].held[j] EXCEPT !.status = "waiting"].retries = proc[p].held[j].retries
    BY <1>p DEF Record, JobStatus
  <2> QED BY <2>1
<1>h. PICK held \in [Job -> Record] :
         /\ held = IF AllDepsCompleted(j) THEN proc[p].held ELSE With(p, j, waits)
         /\ held[j] = proc[p].held[j] \/ held[j] = waits
         /\ \A k \in Job \ {j} : held[k] = proc[p].held[k]
  <2>1. PICK with \in [Job -> Record] : /\ with = With(p, j, waits) /\ with[j] = waits
                                        /\ \A k \in Job \ {j} : with[k] = proc[p].held[k]
    BY <1>p, WithJob
  <2>2. CASE AllDepsCompleted(j)
    BY <2>2, <1>p
  <2>3. CASE ~AllDepsCompleted(j)
    BY <2>1, <2>3
  <2> QED BY <2>2, <2>3
<1>r. PICK rest \in SUBSET Job : rest = proc[p].todo \ {j}
  BY <1>p
<1>b. PICK batch \in SUBSET Job : batch = {k \in Job : Holds(p, k)}
  OBVIOUS
<1>1. /\ proc[p].pc = "check" /\ j \in proc[p].todo /\ row' = row
      /\ \/ Become(p, "check", held, rest, {})
         \/ rest = {} /\ Become(p, "upsert", held, batch, {})
  BY <1>w, <1>h, <1>r, <1>b DEF CheckDeps
<1>2. /\ proc'[p].held = held /\ \A q \in Proc \ {p} : proc'[q] = proc[q]
      /\ \/ proc'[p].pc = "check" /\ proc'[p].todo = rest
         \/ proc'[p].pc = "upsert" /\ proc'[p].todo = batch
  <2>1. CASE Become(p, "check", held, rest, {})
    BY <2>1, <1>p, BecomeProc
  <2>2. CASE Become(p, "upsert", held, batch, {})
    BY <2>2, <1>p, BecomeProc
  <2> QED BY <1>1, <2>1, <2>2
<1>3. Holds(p, j)
  BY <1>1 DEF ClaimInv, LoopsHeld
<1>4. \A k \in Job : Holds(p, k)' => Holds(p, k)
  BY <1>2, <1>3, <1>h DEF Holds
<1>5. CASE p \in Slot
  <2>1. Executing(p, j)
    BY <1>1, <1>3, <1>5 DEF Executing, ClaimPC
  <2>2. /\ Attempt(p, j) /\ row[j].status = "running"
    BY <1>5, <2>1, OwnJob
  <2>3. /\ proc[p].held[j].status \in {"retrying", "waiting"} /\ row[j].retries < MaxRetries[j]
        /\ proc[p].held[j].retries = row[j].retries + 1
        /\ "replay" \in Ops => proc[p].held[j].queue = "home"
    BY <2>1, <2>2, <1>1 DEF Attempt
  <2>4. PICK pc \in {"check", "upsert"} : proc'[p].pc = pc
    BY <1>2
  <2>5. /\ held[j].status \in {"retrying", "waiting"} /\ held[j].retries = row[j].retries + 1
        /\ "replay" \in Ops => held[j].queue = "home"
    BY <2>3, <1>w, <1>h
  <2>6. pc = "upsert" => j \in proc'[p].todo
    BY <1>2, <1>3, <1>b, <2>4
  <2>7. Onward(p, j)
    BY <1>1, <1>2, <1>5, <1>h, <2>3, <2>4, <2>5, <2>6 DEF Onward
  <2> QED BY <1>5, <2>1, <2>7, GoesOn
<1>6. CASE p \in Client
  <2>1. \A k \in Job : WillWrite(p, k)' => WillWrite(p, k)
    BY <1>1, <1>2, <1>4, <1>b DEF WillWrite
  <2>2. \A k \in Job : Untried(p, k)'
    <3>1. \A k \in Job : held[k].retries = proc[p].held[k].retries
      BY <1>w, <1>h
    <3>2. \A k \in Job : Untried(p, k)
      BY <1>6 DEF LifeInv
    <3> QED BY <2>1, <1>2, <3>1, <3>2 DEF Untried
  <2> QED BY <1>1, <1>2, <1>6, <2>2, ProcAssumption, AroundProc
<1> QED BY <1>5, <1>6 DEF Proc

\* A client writes a job that is new, or one that lies dead or replayed in its
\* dead letter queue.
LEMMA ClientWriteMoves ==
  ASSUME ClaimInv, LifeInv, NEW cl \in Client, NEW j \in Job, WillWrite(cl, j),
         row'[j] = proc[cl].held[j] \/ (row[j].status = "absent" /\ row'[j] = row[j])
  PROVE  row'[j] = row[j] \/ (row[j].status # "running" /\ Moves(j) /\ RowLife(j)')
<1>1. /\ proc[cl].held[j].status \in {"pending", "waiting"}
      /\ ReplayWrite(cl, j) \/ FreshWrite(cl, j)
      /\ proc[cl].held[j].retries = 0
  BY DEF ClaimInv, ClientWrites, LifeInv, Untried
<1>2. MaxRetries[j] \in Nat
  BY MaxRetriesAssumption
<1> SUFFICES ASSUME row'[j] = proc[cl].held[j]
             PROVE  row[j].status # "running" /\ Moves(j) /\ RowLife(j)'
  OBVIOUS
<1>3. RowLife(j)'
  BY <1>1, <1>2 DEF RowLife
<1>4. row[j].status \in {"absent", "dead", "pending", "waiting", "cancelled"}
  BY <1>1 DEF ReplayWrite, FreshWrite, LifeInv, RowLife
<1> QED BY <1>1, <1>3, <1>4 DEF Moves

LEMMA UpsertLives ==
  ASSUME ClaimInv, ClaimInv', LifeInv, NEW p \in Proc,
         NEW chunk \in Chunks(proc[p].todo), Upsert(p, chunk)
  PROVE  Lives
<1>p. /\ proc \in [Proc -> ProcState] /\ proc[p].held \in [Job -> Record]
      /\ proc[p].todo \in SUBSET Job /\ chunk \subseteq proc[p].todo
      /\ "upsert" \in PC /\ {} \in SUBSET Job
  BY DEF ClaimInv, TypeOK, ProcState, PC, Chunks
<1>r. PICK rest \in SUBSET Job : rest = proc[p].todo \ chunk
  BY <1>p
<1>v. PICK waiting \in SUBSET Job : waiting = {k \in Job : proc[p].held[k].status = "waiting"}
  OBVIOUS
<1>1. /\ proc[p].pc = "upsert"
      /\ row' = [k \in Job |-> IF k \in chunk THEN proc[p].held[k] ELSE row[k]]
      /\ IF rest # {} THEN Become(p, "upsert", proc[p].held, rest, {}) ELSE Settle(p, waiting)
  BY <1>r, <1>v DEF Upsert
<1>2. /\ \A q \in Proc \ {p} : proc'[q] = proc[q]
      /\ \/ rest # {} /\ proc'[p].pc = "upsert" /\ proc'[p].todo = rest
            /\ proc'[p].held = proc[p].held
         \/ rest = {} /\ proc'[p].pc \in {"idle", "promote"}
  <2>1. CASE rest # {}
    <3>1. PICK held \in [Job -> Record] : held = proc[p].held
      BY <1>p
    <3>2. Become(p, "upsert", held, rest, {})
      BY <1>1, <2>1, <3>1
    <3>3. /\ proc'[p].held = held /\ proc'[p].pc = "upsert" /\ proc'[p].todo = rest
          /\ \A q \in Proc \ {p} : proc'[q] = proc[q]
      BY <3>2, <1>p, BecomeProc
    <3> QED BY <3>1, <3>3, <2>1
  <2>2. CASE rest = {}
    BY <1>1, <1>p, <2>2, SettleProc
  <2> QED BY <2>1, <2>2
<1>3. \A k \in proc[p].todo : k \in Job /\ Holds(p, k)
  BY <1>1, <1>p DEF ClaimInv, LoopsHeld
<1>4. CASE p \in Slot
  <2>1. \A k, m \in proc[p].todo : k = m
    BY <1>3, <1>4 DEF ClaimInv, SlotHolds
  <2>2. chunk = proc[p].todo
    BY <2>1 DEF Chunks
  <2>3. proc'[p].pc \in {"idle", "promote"}
    BY <1>2, <2>2, <1>r
  <2>4. proc'[p].pc \notin ClaimPC
    BY <2>3 DEF ClaimPC
  <2>5. CASE \E j \in Job : Holds(p, j)
    <3>1. PICK j \in Job : Executing(p, j)
      BY <2>5, <1>1 DEF Executing, ClaimPC
    <3>2. \A k \in Job \ {j} : ~Holds(p, k)
      BY <3>1, <1>4, OwnJob
    <3>3. \A k \in Job \ {j} : row'[k] = row[k]
      BY <3>2, <1>1, <1>3, <1>p
    <3>4. row'[j] = proc[p].held[j]
      BY <1>1, <1>4, <2>2, <3>1, OwnJob DEF Attempt
    <3> QED BY <3>1, <3>3, <3>4, <1>1, <1>2, <1>4, <2>4, LetsGo
  <2>6. CASE \A j \in Job : ~Holds(p, j)
    <3>1. chunk = {}
      BY <2>6, <1>3, <1>p
    <3>2. \A k \in Job : row'[k] = row[k]
      BY <3>1, <1>1
    <3>3. \A k \in Job : ~Executing(p, k) /\ ~Executing(p, k)'
      BY <2>4, <2>6 DEF Executing
    <3> QED BY <3>2, <3>3, <1>2, <1>4, ProcAssumption, AroundProc
  <2> QED BY <2>5, <2>6
<1>5. CASE p \in Client
  <2>1. ASSUME NEW k \in Job
        PROVE  row'[k] = row[k] \/ (row[k].status # "running" /\ Moves(k) /\ RowLife(k)')
    <3>1. CASE k \in chunk
      <4>1. WillWrite(p, k) /\ row'[k] = proc[p].held[k]
        BY <3>1, <1>1, <1>p DEF WillWrite
      <4> QED BY <4>1, <1>5, ClientWriteMoves
    <3>2. CASE k \notin chunk
      BY <3>2, <1>1
    <3> QED BY <3>1, <3>2
  <2>2. ASSUME NEW k \in Job PROVE Untried(p, k)'
    <3> SUFFICES ASSUME WillWrite(p, k)' PROVE proc'[p].held[k].retries = 0
      BY DEF Untried
    <3>1. WillWrite(p, k) /\ proc'[p].held = proc[p].held
      BY <1>1, <1>2, <1>r DEF WillWrite
    <3> QED BY <3>1, <1>5 DEF LifeInv, Untried
  <2> QED BY <1>2, <1>5, <2>1, <2>2, ProcAssumption, AroundProc
<1> QED BY <1>4, <1>5 DEF Proc

LEMMA ReplayUpdateLives ==
  ASSUME ClaimInv, ClaimInv', LifeInv, NEW cl \in Client, NEW j \in Job, ReplayUpdate(cl, j)
  PROVE  Lives
<1>p. /\ cl \in Proc /\ proc \in [Proc -> ProcState] /\ row \in [Job -> Record]
      /\ proc[cl].held \in [Job -> Record] /\ proc[cl].held[j] \in Record
      /\ "check" \in PC /\ cl \notin Slot /\ {j} \in SUBSET Job /\ {} \in SUBSET Job
  BY ProcAssumption DEF ClaimInv, TypeOK, Proc, PC, ProcState
<1>1. /\ proc[cl].pc = "replay" /\ Holds(cl, j)
      /\ Update(j, proc[cl].held[j]) /\ Become(cl, "check", proc[cl].held, {j}, {})
  BY DEF ReplayUpdate
<1>2. /\ proc'[cl].pc = "check" /\ proc'[cl].held = proc[cl].held
      /\ \A q \in Proc \ {cl} : proc'[q] = proc[q]
  BY <1>1, <1>p, BecomeProc
<1>3. /\ \A k \in Job \ {j} : row'[k] = row[k]
      /\ row'[j] = IF row[j].status = "absent" THEN row[j] ELSE proc[cl].held[j]
  BY <1>1, <1>p, UpdateType
<1>4. WillWrite(cl, j)
  BY <1>1 DEF WillWrite
<1>5. row'[j] = row[j] \/ (row[j].status # "running" /\ Moves(j) /\ RowLife(j)')
  BY <1>3, <1>4, ClientWriteMoves
<1>6. \A k \in Job : row'[k] = row[k] \/ (row[k].status # "running" /\ Moves(k) /\ RowLife(k)')
  BY <1>3, <1>5
<1>7. \A k \in Job : WillWrite(cl, k)' => WillWrite(cl, k)
  BY <1>1, <1>2 DEF WillWrite, Holds
<1>8. \A k \in Job : Untried(cl, k)'
  BY <1>2, <1>7 DEF LifeInv, Untried
<1> QED BY <1>2, <1>6, <1>8, <1>p, AroundProc

LEMMA CallLives ==
  ASSUME ClaimInv, ClaimInv', LifeInv, Call
  PROVE  Lives
<1>p. /\ proc \in [Proc -> ProcState] /\ row \in [Job -> Record] /\ Client \subseteq Proc
      /\ Client \cap Slot = {} /\ \A k \in Job : MaxRetries[k] \in Nat
  BY ProcAssumption, MaxRetriesAssumption DEF ClaimInv, TypeOK, Proc
<1>1. ASSUME NEW cl \in Client, NEW batch \in Batches, Enqueue(cl, batch)
      PROVE  Lives
  <2>1. PICK due \in BOOLEAN :
          Become(cl, "check", [j \in Job |-> IF j \in batch THEN Fresh(due) ELSE Absent], batch, {})
    BY <1>1 DEF Enqueue
  <2>2. PICK new \in [Job -> Record] :
           /\ new = [j \in Job |-> IF j \in batch THEN Fresh(due) ELSE Absent]
           /\ \A j \in Job : new[j].retries = 0
    <3>1. [j \in Job |-> IF j \in batch THEN Fresh(due) ELSE Absent] \in [Job -> Record]
      BY NewJobType
    <3> QED BY <3>1 DEF Fresh, Absent
  <2>3. /\ Become(cl, "check", new, batch, {}) /\ batch \in SUBSET Job /\ {} \in SUBSET Job
        /\ "check" \in PC /\ row' = row
    BY <1>1, <2>1, <2>2 DEF Batches, PC, Enqueue
  <2>4. proc'[cl].held = new /\ \A q \in Proc \ {cl} : proc'[q] = proc[q]
    BY <2>3, <1>p, BecomeProc
  <2>5. \A k \in Job : Untried(cl, k)'
    BY <2>2, <2>4 DEF Untried
  <2> QED BY <2>3, <2>4, <2>5, <1>p, AroundProc
<1>2. ASSUME NEW cl \in Client, NEW j \in Job, ReplayRead(cl, j)
      PROVE  Lives
  <2>1. /\ row' = row /\ proc[cl].pc = "idle" /\ Goto(cl, "replay", j, Reset(row[j])) /\ "replay" \in PC
    BY <1>2 DEF ReplayRead, PC
  <2>2. Reset(row[j]) \in Record /\ Reset(row[j]).retries = 0
    BY <1>p, JobType DEF Reset
  <2>3. /\ proc'[cl].pc = "replay" /\ proc'[cl].held[j] = Reset(row[j]) /\ cl \in Proc
        /\ \A k \in Job \ {j} : proc'[cl].held[k] = proc[cl].held[k]
        /\ \A q \in Proc \ {cl} : proc'[q] = proc[q]
    BY <2>1, <2>2, <1>p, GotoProc
  <2>4. \A k \in Job : ~Holds(cl, k)
    BY <2>1, <2>3 DEF ClaimInv, LoopsHeld, Holds, NoJobs, Absent
  <2>5. \A k \in Job : Untried(cl, k)'
    BY <2>2, <2>3, <2>4 DEF Untried, WillWrite, Holds
  <2> QED BY <2>1, <2>3, <2>5, <1>p, AroundProc
<1>3. ASSUME NEW j \in Job, CancelJob(j) PROVE Lives
  <2>1. /\ row'[j].status = "cancelled" /\ row'[j].retries = row[j].retries
        /\ row'[j].queue = row[j].queue /\ \A k \in Job \ {j} : row'[k] = row[k]
    BY <1>3, <1>p DEF CancelJob, Record
  <2>2. row[j].status # "running" /\ Moves(j) /\ RowLife(j)'
    BY <1>3, <2>1 DEF CancelJob, CANCELLABLE_STATUSES, Moves, RowLife, LifeInv
  <2> QED BY <1>3, <2>1, <2>2, AroundRows DEF CancelJob
<1>4. ASSUME NEW j \in Job, RetryJob(j) PROVE Lives
  <2>1. /\ row'[j].status = "pending" /\ row'[j].retries = 0
        /\ row'[j].queue = row[j].queue /\ \A k \in Job \ {j} : row'[k] = row[k]
    BY <1>4, <1>p DEF RetryJob, Reset
  <2>2. row[j].status # "running" /\ Moves(j) /\ RowLife(j)'
    BY <1>4, <1>p, <2>1 DEF RetryJob, RETRIABLE_STATUSES, Moves, RowLife
  <2> QED BY <1>4, <2>1, <2>2, AroundRows DEF RetryJob
<1>5. ASSUME NEW old \in SUBSET Job, Purge(old) PROVE Lives
  <2>1. ASSUME NEW k \in Job
        PROVE  row'[k] = row[k] \/ (row[k].status # "running" /\ Moves(k) /\ RowLife(k)')
    <3>1. CASE k \in old
      <4>1. row'[k] = Absent /\ row[k].status \in TERMINAL_STATUSES
        BY <3>1, <1>5 DEF Purge
      <4> QED BY <4>1, <1>p DEF Absent, TERMINAL_STATUSES, Moves, RowLife
    <3>2. CASE k \notin old
      BY <3>2, <1>5 DEF Purge
    <3> QED BY <3>1, <3>2
  <2> QED BY <1>5, <2>1, AroundRows DEF Purge
<1> QED BY <1>1, <1>2, <1>3, <1>4, <1>5 DEF Call

LEMMA CrashLives ==
  ASSUME ClaimInv, ClaimInv', LifeInv, NEW p \in Proc, Crash(p)
  PROVE  Lives
<1>1. /\ row' = row /\ proc'[p].pc = "idle" /\ \A q \in Proc \ {p} : proc'[q] = proc[q]
  BY ReturnProc DEF Crash, ClaimInv, TypeOK, Idle
<1>2. \A k \in Job : ~Executing(p, k)' /\ Untried(p, k)'
  BY <1>1 DEF Executing, ClaimPC, Untried, WillWrite
<1>c. crashes' # crashes
  BY DEF Crash, ClaimInv, TypeOK
<1>3. CASE p \in Slot /\ \E j \in Job : Executing(p, j)
  BY <1>1, <1>3, <1>c, LetsGo DEF ClaimPC
<1>4. CASE ~(p \in Slot /\ \E j \in Job : Executing(p, j))
  BY <1>1, <1>2, <1>4, AroundProc
<1> QED BY <1>3, <1>4

LEMMA LifeStepNext ==
  ASSUME NoServedReplay, ClaimInv, LifeInv, [Next]_vars
  PROVE  Lives
<1>c. ClaimInv'
  BY ClaimInvStep
<1>1. CASE UNCHANGED vars
  BY <1>1, <1>c, AroundRows DEF vars
<1>2. ASSUME NEW s \in Slot, NEW j \in Job, Claim(s, j) PROVE Lives
  BY <1>2, <1>c, ClaimLives
<1>3. ASSUME NEW s \in Slot, Work(s) PROVE Lives
  BY <1>3, <1>c, WorkLives
<1>4. ASSUME NEW p \in Proc, Broker(p) PROVE Lives
  BY <1>4, <1>c, CheckDepsLives, PromoteLives, UpsertLives DEF Broker
<1>5. ASSUME NEW cl \in Client, NEW j \in Job, ReplayUpdate(cl, j)
      PROVE  Lives
  BY <1>5, <1>c, ReplayUpdateLives
<1>6. CASE Call
  BY <1>6, <1>c, CallLives
<1>7. ASSUME NEW j \in Job, RunAtPasses(j) PROVE Lives
  <2>1. \A k \in Job : /\ row'[k].status = row[k].status /\ row'[k].retries = row[k].retries
                       /\ row'[k].queue = row[k].queue
    BY <1>7 DEF RunAtPasses, ClaimInv, TypeOK, Record
  <2> QED BY <1>7, <2>1, <1>c, AroundRows DEF RunAtPasses
<1>8. ASSUME NEW p \in Proc, Crash(p) PROVE Lives
  BY <1>8, <1>c, CrashLives
<1> QED BY <1>1, <1>2, <1>3, <1>4, <1>5, <1>6, <1>7, <1>8 DEF Next

LEMMA LifeInvInit == Init => LifeInv /\ \A j \in Job : Life(j)!Init
<1> SUFFICES ASSUME Init PROVE LifeInv /\ \A j \in Job : Life(j)!Init
  OBVIOUS
<1>1. /\ \A p \in Proc : proc[p] = Idle
      /\ \A j \in Job : row[j] = Absent /\ MaxRetries[j] \in Nat
  BY MaxRetriesAssumption DEF Init
<1>2. /\ \A s \in Slot, j \in Job : ~Executing(s, j)
      /\ \A cl \in Client, j \in Job : ~WillWrite(cl, j)
  BY <1>1 DEF Executing, ClaimPC, WillWrite, Idle, Proc
<1> QED BY <1>1, <1>2 DEF LifeInv, RowLife, Attempt, Untried, Life!Init, Absent

\* Every job lives as JobLifecycle promises: under the same hypothesis, every
\* step of a worker, a client or the environment is to each job a step of its
\* life cycle, or none.
THEOREM Implements ==
  ASSUME NoServedReplay
  PROVE  Spec => ImplementsLifecycle
<1>1. Init => ClaimInv /\ LifeInv /\ \A j \in Job : Life(j)!Init
  BY ClaimInvInit, LifeInvInit
<1>2. ClaimInv /\ LifeInv /\ [Next]_vars => ClaimInv' /\ LifeInv'
  BY ClaimInvStep, LifeStepNext DEF Lives
<1>3. ClaimInv /\ LifeInv /\ [Next]_vars => [\A j \in Job : [Life(j)!Next]_(Life(j)!vars)]_vars
  BY LifeStepNext DEF LifeStep, Lives
<1> QED
  BY <1>1, <1>2, <1>3, PTL DEF Spec, ImplementsLifecycle
(***************************************************************************)
(* Jobs left running.                                                       *)
(***************************************************************************)

\* Only a crash counts one, and it leaves no job behind but the one that the lost
\* process executed.
LEMMA CrashOrphans ==
  ASSUME ClaimInv, NEW p \in Proc, Crash(p)
  PROVE  crashes' = crashes + 1 /\ \E j : Orphans' \subseteq Orphans \cup {j}
<1>1. /\ row' = row /\ crashes' = crashes + 1
      /\ \A q \in Proc \ {p} : proc'[q] = proc[q]
  BY ReturnProc DEF Crash, ClaimInv, TypeOK
<1>2. \A s \in Slot \ {p}, k \in Job : Executing(s, k)' <=> Executing(s, k)
  BY <1>1 DEF Executing, Holds, Proc
<1>3. CASE p \in Slot /\ \E j \in Job : Executing(p, j)
  <2>1. PICK j \in Job : Executing(p, j)
    BY <1>3
  <2>2. \A k \in Job \ {j} : ~Executing(p, k)
    BY <1>3, <2>1 DEF ClaimInv, SlotHolds, Executing
  <2>3. Orphans' \subseteq Orphans \cup {j}
    BY <1>1, <1>2, <2>2 DEF Orphans
  <2> QED BY <1>1, <2>3
<1>4. CASE ~(p \in Slot /\ \E j \in Job : Executing(p, j))
  <2>1. Orphans' \subseteq Orphans
    BY <1>1, <1>2, <1>4 DEF Orphans
  <2> QED BY <1>1, <2>1
<1> QED BY <1>3, <1>4

LEMMA CrashesGrow ==
  ASSUME ClaimInv, [Next]_vars
  PROVE  crashes' = crashes \/ \E p \in Proc : Crash(p)
<1>1. CASE UNCHANGED vars
  BY <1>1 DEF vars
<1>2. ASSUME NEW s \in Slot, NEW j \in Job, Claim(s, j) PROVE crashes' = crashes
  BY <1>2 DEF Claim
<1>3. ASSUME NEW s \in Slot, Work(s) PROVE crashes' = crashes
  BY <1>3 DEF Work, RejectUnknown, CheckCancelled, Start, Succeed, ScheduleRetry, MoveToDLQ, Fail,
              Finish, FetchDependents
<1>4. ASSUME NEW p \in Proc, Broker(p) PROVE crashes' = crashes
  BY <1>4 DEF Broker, CheckDeps, CountDeps, MarkPending, Upsert
<1>5. CASE Call
  BY <1>5 DEF Call, Enqueue, ReplayRead, CancelJob, RetryJob, Purge
<1>6. ASSUME NEW cl \in Client, NEW j \in Job, ReplayUpdate(cl, j) PROVE crashes' = crashes
  BY <1>6 DEF ReplayUpdate
<1>7. ASSUME NEW j \in Job, RunAtPasses(j) PROVE crashes' = crashes
  BY <1>7 DEF RunAtPasses
<1> QED BY <1>1, <1>2, <1>3, <1>4, <1>5, <1>6, <1>7 DEF Next

\* A set to which every loss adds one element at most.
LEMMA LossBound ==
  ASSUME NEW S, IsFiniteSet(S), NEW n \in Nat, Cardinality(S) <= n, NEW x, NEW T \in SUBSET (S \cup {x})
  PROVE  IsFiniteSet(T) /\ Cardinality(T) <= n + 1
<1>1. Cardinality(S) \in Nat
  BY FS_CardinalityType
<1>2. /\ IsFiniteSet(S \cup {x})
      /\ Cardinality(S \cup {x}) = IF x \in S THEN Cardinality(S) ELSE Cardinality(S) + 1
  BY FS_AddElement
<1>3. Cardinality(S \cup {x}) \in Nat /\ Cardinality(S \cup {x}) <= n + 1
  BY <1>1, <1>2
<1>4. IsFiniteSet(T) /\ Cardinality(T) <= Cardinality(S \cup {x})
  BY <1>2, FS_Subset
<1>5. Cardinality(T) \in Nat
  BY <1>4, FS_CardinalityType
<1> QED BY <1>3, <1>4, <1>5

\* Losses are never uncounted.
LEMMA NoneLostYet ==
  ASSUME ClaimInv, [Next]_vars, crashes' = 0
  PROVE  crashes = 0 /\ crashes' = crashes
<1>1. ASSUME NEW p \in Proc, Crash(p) PROVE FALSE
  BY <1>1, CrashOrphans DEF ClaimInv, TypeOK
<1> QED BY <1>1, CrashesGrow

\* The jobs left behind can be counted, although the jobs need not be.
FewOrphans == IsFiniteSet(Orphans) /\ Cardinality(Orphans) <= crashes

\* A lost process leaves one job behind as running at most, and nothing else leaves
\* any.
THEOREM NothingForgotten ==
  ASSUME NoServedReplay
  PROVE  Spec => []NoOrphan
<1>1. Init => ClaimInv /\ LifeInv /\ FewOrphans
  <2> SUFFICES ASSUME Init PROVE FewOrphans
    BY ClaimInvInit, LifeInvInit
  <2>1. Orphans = {} /\ crashes = 0
    BY DEF Init, Orphans, Absent
  <2> QED BY <2>1, FS_EmptySet DEF FewOrphans
<1>2. ClaimInv /\ LifeInv /\ FewOrphans /\ [Next]_vars => ClaimInv' /\ LifeInv' /\ FewOrphans'
  <2> SUFFICES ASSUME ClaimInv, LifeInv, FewOrphans, [Next]_vars PROVE FewOrphans'
    BY ClaimInvStep, LifeStepNext DEF Lives
  <2>1. IsFiniteSet(Orphans) /\ Cardinality(Orphans) <= crashes /\ crashes \in Nat
    BY DEF FewOrphans, ClaimInv, TypeOK
  <2>2. CASE crashes' = crashes
    <3>1. Orphans' \in SUBSET Orphans
      BY <2>2, LifeStepNext DEF Lives
    <3>2. IsFiniteSet(Orphans') /\ Cardinality(Orphans') <= Cardinality(Orphans)
      BY <2>1, <3>1, FS_Subset
    <3> QED BY <2>1, <2>2, <3>2, FS_CardinalityType DEF FewOrphans
  <2>3. ASSUME NEW p \in Proc, Crash(p) PROVE FewOrphans'
    <3>1. PICK j : Orphans' \subseteq Orphans \cup {j}
      BY <2>3, CrashOrphans
    <3>2. crashes' = crashes + 1
      BY <2>3, CrashOrphans
    <3>3. IsFiniteSet(Orphans') /\ Cardinality(Orphans') <= crashes + 1
      BY <2>1, <3>1, LossBound
    <3> QED BY <3>2, <3>3 DEF FewOrphans
  <2> QED BY <2>2, <2>3, CrashesGrow
<1>3. FewOrphans => NoOrphan
  BY DEF FewOrphans, NoOrphan
<1> QED
  BY <1>1, <1>2, <1>3, PTL DEF Spec

(***************************************************************************)
(* The order of dependent jobs.                                             *)
(***************************************************************************)

\* A retried job is made pending whatever its dependencies say, and a purged
\* dependency does not count as completed any more.
NoRetryNorPurge == "retry" \notin Ops /\ "purge" \notin Ops

ACTIVE == {"pending", "retrying", "running"}

\* A replayed job: written as pending before its dependencies are checked, to a
\* queue that nobody serves.
Parked(job) == "replay" \in Ops /\ job.queue = "dlq"

\* Process p has checked the dependencies of j, which it is about to write.
Checked(p, j) ==
    \/ proc[p].pc = "check" /\ Holds(p, j) /\ j \notin proc[p].todo
    \/ proc[p].pc = "upsert" /\ j \in proc[p].todo

\* What a process knows of the dependencies stays true until it uses it.
Checks(p) == \A j \in Job :
    /\ p \in Client =>
          /\ proc[p].pc = "replay" /\ Holds(p, j) => Parked(proc[p].held[j])
          /\ Checked(p, j) => \/ proc[p].held[j].status = "waiting"
                              \/ AllDepsCompleted(j) \/ Parked(proc[p].held[j])
    /\ proc[p].pc = "promote" /\ j \in proc[p].ready => AllDepsCompleted(j)

DepInv ==
    /\ \A j \in Job : row[j].status \in ACTIVE => AllDepsCompleted(j) \/ Parked(row[j])
    /\ \A p \in Proc : Checks(p)

\* A job being executed is not parked.
LEMMA ExecutingReady ==
  ASSUME ClaimInv, LifeInv, DepInv, NEW s \in Slot, NEW j \in Job, Executing(s, j)
  PROVE  AllDepsCompleted(j)
<1>1. row[j].status = "running" /\ RowLife(j)
  BY OwnJob
<1> QED BY <1>1 DEF RowLife, DepInv, Parked, ACTIVE

\* The rows that a client is about to write are not completed.
LEMMA ClientWritesOver ==
  ASSUME ClaimInv, LifeInv, NEW cl \in Client, NEW j \in Job, WillWrite(cl, j)
  PROVE  row[j].status # "completed"
BY DEF ClaimInv, ClientWrites, ReplayWrite, FreshWrite, LifeInv, RowLife

LEMMA CompletedStays ==
  ASSUME NoRetryNorPurge, ClaimInv, LifeInv, [Next]_vars, NEW d \in Job, row[d].status = "completed"
  PROVE  row'[d].status = "completed"
<1>t. row[d].status \in TERMINAL_STATUSES
  BY DEF TERMINAL_STATUSES
<1>p. row \in [Job -> Record] /\ proc \in [Proc -> ProcState]
  BY DEF ClaimInv, TypeOK
<1>x. \A s \in Slot : ~Executing(s, d)
  BY DEF ClaimInv, ExecutingIsRunning
<1>1. CASE row' = row
  BY <1>1
<1>2. ASSUME NEW s \in Slot, NEW j \in Job, Claim(s, j) PROVE row'[d] = row[d]
  BY <1>2, <1>p DEF Claim, Claimable, RUNNABLE
<1>3. ASSUME NEW s \in Slot, NEW j \in Job, Start(s, j) \/ Finish(s, j) PROVE row'[d] = row[d]
  <2>1. Executing(s, j) /\ proc[s].held[j] \in Record
    BY <1>3, <1>p DEF Start, Finish, Executing, ClaimPC, Proc, ProcState
  <2>2. d # j /\ Update(j, proc[s].held[j])
    BY <1>3, <1>x, <2>1 DEF Start, Finish
  <2> QED BY <2>1, <2>2, <1>p, UpdateType
<1>4. ASSUME NEW p \in Proc, NEW j \in Job, MarkPending(p, j) PROVE row'[d] = row[d]
  BY <1>4, <1>p DEF MarkPending
<1>5. ASSUME NEW p \in Proc, NEW chunk \in Chunks(proc[p].todo), Upsert(p, chunk)
      PROVE  row'[d] = row[d]
  <2>1. chunk \subseteq proc[p].todo /\ proc[p].pc = "upsert"
    BY <1>5 DEF Chunks, Upsert
  <2>2. d \notin proc[p].todo
    <3>1. d \in proc[p].todo => Holds(p, d)
      BY <2>1 DEF ClaimInv, LoopsHeld
    <3>2. p \in Slot => ~(d \in proc[p].todo)
      BY <2>1, <3>1, <1>x DEF Executing, ClaimPC
    <3>3. p \in Client => ~(d \in proc[p].todo)
      BY <2>1, ClientWritesOver DEF WillWrite
    <3> QED BY <3>2, <3>3 DEF Proc
  <2> QED BY <1>5, <2>1, <2>2 DEF Upsert
<1>6. ASSUME NEW cl \in Client, NEW j \in Job, ReplayUpdate(cl, j) PROVE row'[d] = row[d]
  <2>1. WillWrite(cl, j) /\ Update(j, proc[cl].held[j]) /\ proc[cl].held[j] \in Record
    BY <1>6, <1>p DEF ReplayUpdate, WillWrite, Proc, ProcState
  <2>2. d # j
    BY <2>1, ClientWritesOver
  <2> QED BY <2>1, <2>2, <1>p, UpdateType
<1>7. ASSUME NEW j \in Job, CancelJob(j) \/ RunAtPasses(j) PROVE row'[d].status = row[d].status
  <2>1. CASE CancelJob(j)
    BY <2>1, <1>p DEF CancelJob, CANCELLABLE_STATUSES
  <2>2. CASE RunAtPasses(j)
    BY <2>2, <1>p DEF RunAtPasses, Record
  <2> QED BY <1>7, <2>1, <2>2
<1>8. \/ row' = row
      \/ \E s \in Slot, j \in Job : Claim(s, j) \/ Start(s, j) \/ Finish(s, j)
      \/ \E p \in Proc, j \in Job : MarkPending(p, j)
      \/ \E p \in Proc : \E chunk \in Chunks(proc[p].todo) : Upsert(p, chunk)
      \/ \E cl \in Client, j \in Job : ReplayUpdate(cl, j)
      \/ \E j \in Job : CancelJob(j) \/ RunAtPasses(j)
  <2>1. CASE UNCHANGED vars
    BY <2>1 DEF vars
  <2>2. ASSUME NEW t \in Slot, Work(t)
        PROVE  row' = row \/ \E j \in Job : Start(t, j) \/ Finish(t, j)
    BY <2>2 DEF Work, RejectUnknown, CheckCancelled, Succeed, ScheduleRetry, MoveToDLQ, Fail,
                FetchDependents
  <2>3. ASSUME NEW p \in Proc, Broker(p)
        PROVE  row' = row \/ (\E j \in Job : MarkPending(p, j))
               \/ \E chunk \in Chunks(proc[p].todo) : Upsert(p, chunk)
    BY <2>3 DEF Broker, CheckDeps, CountDeps
  <2>4. CASE Call
    BY <2>4 DEF Call, Enqueue, ReplayRead, NoRetryNorPurge
  <2>5. ASSUME NEW p \in Proc, Crash(p) PROVE row' = row
    BY <2>5 DEF Crash
  <2> QED BY <2>1, <2>2, <2>3, <2>4, <2>5 DEF Next
<1> QED BY <1>1, <1>2, <1>3, <1>4, <1>5, <1>6, <1>7, <1>8

\* A step that makes active only what was active, or is known to be ready, and
\* in which a process forgets, or learns what is true.
LEMMA DepFrame ==
  ASSUME DepInv, DependsOn \in [Job -> SUBSET Job],
         \A d \in Job : row[d].status = "completed" => row'[d].status = "completed",
         \A j \in Job : row'[j].status \in ACTIVE =>
            \/ row[j].status \in ACTIVE /\ row'[j].queue = row[j].queue
            \/ AllDepsCompleted(j) \/ Parked(row'[j]),
         \A p \in Proc : proc'[p] = proc[p] \/ Checks(p)'
  PROVE  DepInv'
<1>1. \A j \in Job : AllDepsCompleted(j) => AllDepsCompleted(j)'
  BY DEF AllDepsCompleted
<1>2. ASSUME NEW p \in Proc, proc'[p] = proc[p] PROVE Checks(p)'
  <2>1. Checks(p)
    BY DEF DepInv
  <2> QED BY <1>2, <1>1, <2>1 DEF Checks, Checked, Holds, Parked
<1>3. \A j \in Job : row'[j].status \in ACTIVE => AllDepsCompleted(j)' \/ Parked(row'[j])
  BY <1>1 DEF DepInv, Parked
<1> QED BY <1>2, <1>3 DEF DepInv

\* Nothing to check: an idle process, or a slot that does not promote.
LEMMA NothingToCheck ==
  ASSUME NEW p, \/ proc'[p].pc = "idle"
                \/ p \notin Client /\ proc'[p].pc # "promote"
  PROVE  Checks(p)'
BY DEF Checks, Checked

\* A promotion loop that begins, or has not tested its next job yet.
LEMMA SettleChecks ==
  ASSUME proc \in [Proc -> ProcState], NEW p \in Proc, NEW rest \in SUBSET Job, Settle(p, rest)
  PROVE  Checks(p)' /\ \A q \in Proc \ {p} : proc'[q] = proc[q]
<1>1. /\ proc'[p].pc \in {"idle", "promote"} /\ proc'[p].ready = {}
      /\ \A q \in Proc \ {p} : proc'[q] = proc[q]
  BY SettleProc
<1> QED BY <1>1 DEF Checks, Checked

LEMMA WorkDeps ==
  ASSUME ClaimInv, LifeInv, DepInv, NEW s \in Slot, Work(s),
         \A d \in Job : row[d].status = "completed" => row'[d].status = "completed"
  PROVE  DepInv'
<1> PICK j \in Job : \/ RejectUnknown(s, j) \/ CheckCancelled(s, j) \/ Start(s, j)
                    \/ Succeed(s, j) \/ ScheduleRetry(s, j) \/ MoveToDLQ(s, j)
                    \/ Fail(s, j) \/ Finish(s, j) \/ FetchDependents(s, j)
  BY DEF Work
<1>p. /\ s \in Proc /\ s \notin Client /\ proc \in [Proc -> ProcState] /\ row \in [Job -> Record]
      /\ DependsOn \in [Job -> SUBSET Job] /\ proc[s].held[j] \in Record
  BY ProcAssumption, DependsOnAssumption DEF ClaimInv, TypeOK, Proc, ProcState
<1>1. row' = row \/ (Update(j, proc[s].held[j]) /\ Executing(s, j))
  BY DEF RejectUnknown, CheckCancelled, Start, Succeed, ScheduleRetry, MoveToDLQ, Fail, Finish,
         FetchDependents, Executing, ClaimPC
<1>2. \A k \in Job : row'[k] = row[k] \/ AllDepsCompleted(k)
  BY <1>1, <1>p, UpdateType, ExecutingReady
<1>3. (\A q \in Proc \ {s} : proc'[q] = proc[q]) /\ Checks(s)'
  <2>1. CASE FetchDependents(s, j)
    BY <2>1, <1>p, SettleChecks DEF FetchDependents, WaitingDependents
  <2>2. ASSUME NEW pc \in {"start", "invoke", "finish", "resolve", "check"},
               NEW held, NEW todo, NEW ready, Become(s, pc, held, todo, ready)
        PROVE  (\A q \in Proc \ {s} : proc'[q] = proc[q]) /\ Checks(s)'
    <3>1. proc'[s].pc = pc /\ \A q \in Proc \ {s} : proc'[q] = proc[q]
      BY <2>2, <1>p DEF Become
    <3> QED BY <3>1, <1>p, NothingToCheck
  <2>3. CASE Return(s)
    BY <2>3, <1>p, ReturnProc, NothingToCheck DEF Idle
  <2> QED
    BY <2>1, <2>2, <2>3 DEF RejectUnknown, CheckCancelled, Start, Succeed, ScheduleRetry, MoveToDLQ,
       Fail, Finish, Goto
<1> QED BY <1>2, <1>3, <1>p, DepFrame

LEMMA BrokerDeps ==
  ASSUME ClaimInv, LifeInv, DepInv, NEW p \in Proc, Broker(p),
         \A d \in Job : row[d].status = "completed" => row'[d].status = "completed"
  PROVE  DepInv'
<1>p. /\ proc \in [Proc -> ProcState] /\ row \in [Job -> Record]
      /\ proc[p].held \in [Job -> Record] /\ proc[p].todo \in SUBSET Job
      /\ DependsOn \in [Job -> SUBSET Job] /\ {"check", "upsert", "promote"} \subseteq PC
      /\ NoJobs \in [Job -> Record] /\ {} \in SUBSET Job
      /\ \A j \in Job : proc[p].todo \ {j} \in SUBSET Job
  BY DependsOnAssumption, IdleType DEF ClaimInv, TypeOK, ProcState, PC, Idle
<1>q. proc \in [Proc -> ProcState] /\ {"check", "upsert"} \subseteq PC /\ {} \in SUBSET Job
  BY <1>p
<1>c. Checks(p)
  BY DEF DepInv
<1>1. ASSUME NEW j \in Job, CountDeps(p, j) PROVE DepInv'
  <2>1. row' = row
    BY <1>1 DEF CountDeps
  <2>2. CASE AllDepsCompleted(j)
    <3>1. PICK rest \in SUBSET Job, ready \in SUBSET Job : rest = proc[p].todo \ {j} /\ ready = {j}
      BY <1>p
    <3>2. Become(p, "promote", NoJobs, rest, ready)
      BY <1>1, <2>2, <3>1 DEF CountDeps
    <3>3. /\ proc'[p].pc = "promote" /\ proc'[p].ready = ready
          /\ \A q \in Proc \ {p} : proc'[q] = proc[q]
      BY <3>2, <1>p, BecomeProc
    <3>4. AllDepsCompleted(j)'
      BY <2>1, <2>2 DEF AllDepsCompleted
    <3>5. Checks(p)'
      BY <3>1, <3>3, <3>4 DEF Checks, Checked
    <3> QED BY <2>1, <3>3, <3>5, <1>p, DepFrame
  <2>3. CASE ~AllDepsCompleted(j)
    <3>1. Checks(p)' /\ \A q \in Proc \ {p} : proc'[q] = proc[q]
      BY <1>1, <2>3, <1>p, SettleChecks DEF CountDeps
    <3> QED BY <2>1, <3>1, <1>p, DepFrame
  <2> QED BY <2>2, <2>3
<1>2. ASSUME NEW j \in Job, MarkPending(p, j) PROVE DepInv'
  <2>1. Checks(p)' /\ \A q \in Proc \ {p} : proc'[q] = proc[q]
    BY <1>2, <1>p, SettleChecks DEF MarkPending
  <2>2. AllDepsCompleted(j)
    BY <1>2, <1>c DEF MarkPending, Checks
  <2>3. \A k \in Job : row'[k] = row[k] \/ k = j
    BY <1>2, <1>p DEF MarkPending
  <2>4. \A k \in Job : row'[k] = row[k] \/ AllDepsCompleted(k)
    BY <2>2, <2>3
  <2> QED BY <2>1, <2>4, <1>p, DepFrame
<1>3. ASSUME NEW j \in Job, CheckDeps(p, j) PROVE DepInv'
  <2>w. PICK waits \in Record : /\ waits = [proc[p].held[j] EXCEPT !.status = "waiting"]
                                /\ waits.status = "waiting"
    <3>1. /\ [proc[p].held[j] EXCEPT !.status = "waiting"] \in Record
          /\ [proc[p].held[j] EXCEPT !.status = "waiting"].status = "waiting"
      BY <1>p DEF Record, JobStatus
    <3> QED BY <3>1
  <2>h. PICK held \in [Job -> Record] :
           /\ held = IF AllDepsCompleted(j) THEN proc[p].held ELSE With(p, j, waits)
           /\ AllDepsCompleted(j) \/ held[j] = waits
           /\ \A k \in Job \ {j} : held[k] = proc[p].held[k]
    <3>1. PICK with \in [Job -> Record] : /\ with = With(p, j, waits) /\ with[j] = waits
                                          /\ \A k \in Job \ {j} : with[k] = proc[p].held[k]
      <4>1. proc[p].held \in [Job -> Record]
        BY <1>p
      <4> QED BY <4>1, WithJob
    <3>2. CASE AllDepsCompleted(j)
      BY <3>2, <1>p
    <3>3. CASE ~AllDepsCompleted(j)
      BY <3>1, <3>3
    <3> QED BY <3>2, <3>3
  <2>r. PICK rest \in SUBSET Job : rest = proc[p].todo \ {j}
    BY <1>p
  <2>b. PICK batch \in SUBSET Job : batch = {k \in Job : Holds(p, k)}
    OBVIOUS
  <2>1. /\ proc[p].pc = "check" /\ j \in proc[p].todo /\ row' = row
        /\ \/ Become(p, "check", held, rest, {})
           \/ rest = {} /\ Become(p, "upsert", held, batch, {})
    BY <1>3, <2>w, <2>h, <2>r, <2>b DEF CheckDeps
  <2>2. /\ proc'[p].held = held /\ \A q \in Proc \ {p} : proc'[q] = proc[q]
        /\ \/ proc'[p].pc = "check" /\ proc'[p].todo = rest
           \/ proc'[p].pc = "upsert" /\ proc'[p].todo = batch /\ rest = {}
    <3>1. CASE Become(p, "check", held, rest, {})
      <4>1. /\ proc'[p].pc = "check" /\ proc'[p].held = held /\ proc'[p].todo = rest
            /\ \A q \in Proc \ {p} : proc'[q] = proc[q]
        BY <3>1, <1>p DEF Become
      <4> QED BY <4>1
    <3>2. CASE rest = {} /\ Become(p, "upsert", held, batch, {})
      <4>1. Become(p, "upsert", held, batch, {})
        BY <3>2
      <4>2. /\ proc'[p].pc = "upsert" /\ proc'[p].held = held /\ proc'[p].todo = batch
            /\ \A q \in Proc \ {p} : proc'[q] = proc[q]
        BY <4>1, <1>p DEF Become
      <4> QED BY <4>2, <3>2
    <3> QED BY <2>1, <3>1, <3>2
  <2>3. \A k \in Job : Checked(p, k)' => k = j \/ Checked(p, k)
    BY <2>1, <2>2, <2>h, <2>r, <2>b DEF Checked, Holds
  <2>4. \A k \in Job : AllDepsCompleted(k)' <=> AllDepsCompleted(k)
    BY <2>1 DEF AllDepsCompleted
  <2>5. \A k \in Job \ {j} : p \in Client /\ Checked(p, k)' =>
           \/ proc'[p].held[k].status = "waiting" \/ AllDepsCompleted(k)'
           \/ Parked(proc'[p].held[k])
    BY <1>c, <2>2, <2>3, <2>4, <2>h DEF Checks
  <2>6. proc'[p].held[j].status = "waiting" \/ AllDepsCompleted(j)'
    BY <2>2, <2>4, <2>h, <2>w
  <2>7. Checks(p)'
    BY <2>2, <2>5, <2>6 DEF Checks
  <2> QED BY <2>1, <2>2, <2>7, <1>p, DepFrame
<1>4. ASSUME NEW chunk \in Chunks(proc[p].todo), Upsert(p, chunk) PROVE DepInv'
  <2>r. PICK rest \in SUBSET Job, waiting \in SUBSET Job, held \in [Job -> Record] :
           /\ rest = proc[p].todo \ chunk /\ held = proc[p].held
           /\ waiting = {k \in Job : proc[p].held[k].status = "waiting"}
    BY <1>p
  <2>1. /\ proc[p].pc = "upsert" /\ chunk \subseteq proc[p].todo
        /\ row' = [k \in Job |-> IF k \in chunk THEN proc[p].held[k] ELSE row[k]]
        /\ IF rest # {} THEN Become(p, "upsert", held, rest, {}) ELSE Settle(p, waiting)
    BY <1>4, <2>r DEF Upsert, Chunks
  <2>2. Checks(p)' /\ \A q \in Proc \ {p} : proc'[q] = proc[q]
    <3>1. CASE rest # {}
      <4>1. /\ proc'[p].pc = "upsert" /\ proc'[p].held = proc[p].held /\ proc'[p].todo \subseteq proc[p].todo
            /\ \A q \in Proc \ {p} : proc'[q] = proc[q]
        <5>1. Become(p, "upsert", held, rest, {})
          BY <2>1, <3>1
        <5>2. /\ proc'[p].pc = "upsert" /\ proc'[p].held = held /\ proc'[p].todo = rest
              /\ \A q \in Proc \ {p} : proc'[q] = proc[q]
          BY <5>1, <1>q, BecomeProc
        <5> QED BY <5>2, <2>r
      <4>2. \A k \in Job : AllDepsCompleted(k) => AllDepsCompleted(k)'
        BY <1>p DEF AllDepsCompleted
      <4> QED BY <4>1, <4>2, <2>1, <1>c DEF Checks, Checked
    <3>2. CASE rest = {}
      BY <2>1, <3>2, <1>p, SettleChecks
    <3> QED BY <3>1, <3>2
  <2>3. ASSUME NEW k \in Job, k \in chunk
        PROVE  row'[k].status \notin ACTIVE \/ AllDepsCompleted(k) \/ Parked(row'[k])
    <3>1. row'[k] = proc[p].held[k] /\ k \in proc[p].todo
      BY <2>1, <2>3
    <3>2. CASE p \in Slot
      <4>1. Holds(p, k)
        BY <2>1, <3>1 DEF ClaimInv, LoopsHeld
      <4>2. Executing(p, k)
        BY <2>1, <4>1 DEF Executing, ClaimPC
      <4> QED BY <3>2, <4>2, ExecutingReady
    <3>3. CASE p \in Client
      BY <3>1, <3>3, <2>1, <1>c DEF Checks, Checked, ACTIVE
    <3> QED BY <3>2, <3>3 DEF Proc
  <2>4. \A k \in Job : k \notin chunk => row'[k] = row[k]
    BY <2>1
  <2> QED BY <2>2, <2>3, <2>4, <1>p, DepFrame
<1> QED BY <1>1, <1>2, <1>3, <1>4 DEF Broker

LEMMA DepStep ==
  ASSUME NoServedReplay, NoRetryNorPurge, ClaimInv, LifeInv, DepInv, [Next]_vars
  PROVE  DepInv'
<1>p. /\ proc \in [Proc -> ProcState] /\ row \in [Job -> Record] /\ Client \subseteq Proc
      /\ Slot \subseteq Proc /\ Client \cap Slot = {} /\ DependsOn \in [Job -> SUBSET Job]
  BY ProcAssumption, DependsOnAssumption DEF ClaimInv, TypeOK, Proc
<1>s. \A d \in Job : row[d].status = "completed" => row'[d].status = "completed"
  BY CompletedStays
<1>1. CASE UNCHANGED vars
  BY <1>1, <1>s, <1>p, DepFrame DEF vars
<1>2. ASSUME NEW s \in Slot, NEW j \in Job, Claim(s, j) PROVE DepInv'
  <2>1. /\ row[j].status \in ACTIVE /\ row'[j].queue = row[j].queue
        /\ \A k \in Job \ {j} : row'[k] = row[k]
    BY <1>2, <1>p DEF Claim, Claimable, RUNNABLE, ACTIVE, Record
  <2>2. Become(s, "claimed", With(s, j, [row[j] EXCEPT !.status = "running"]), {}, {})
    BY <1>2 DEF Claim, Goto
  <2>3. proc'[s].pc = "claimed" /\ \A q \in Proc \ {s} : proc'[q] = proc[q]
    BY <2>2, <1>p DEF Become
  <2>4. Checks(s)'
    BY <2>3, <1>p, NothingToCheck
  <2> QED BY <2>1, <2>3, <2>4, <1>s, <1>p, DepFrame
<1>3. ASSUME NEW s \in Slot, Work(s) PROVE DepInv'
  BY <1>3, <1>s, WorkDeps
<1>4. ASSUME NEW p \in Proc, Broker(p) PROVE DepInv'
  BY <1>4, <1>s, BrokerDeps
<1>5. ASSUME NEW cl \in Client, NEW j \in Job, ReplayUpdate(cl, j) PROVE DepInv'
  <2>0. cl \in Proc /\ proc[cl].held \in [Job -> Record] /\ proc[cl].held[j] \in Record /\ Checks(cl)
    BY <1>p DEF ProcState, DepInv
  <2>1. /\ proc[cl].pc = "replay" /\ Holds(cl, j) /\ Update(j, proc[cl].held[j])
        /\ Become(cl, "check", proc[cl].held, {j}, {})
    BY <1>5 DEF ReplayUpdate
  <2>2. /\ proc'[cl].pc = "check" /\ proc'[cl].held = proc[cl].held
        /\ \A q \in Proc \ {cl} : proc'[q] = proc[q]
    BY <2>0, <2>1, <1>p DEF Become, ProcState
  <2>3. \A k \in Job : Holds(cl, k) => Parked(proc[cl].held[k])
    BY <2>0, <2>1, <1>5 DEF Checks
  <2>4. Checks(cl)'
    BY <2>2, <2>3 DEF Checks, Checked, Holds
  <2>5. \A k \in Job : row'[k] = row[k] \/ Parked(row'[k])
    BY <2>0, <2>1, <2>3, <1>p, UpdateType
  <2> QED BY <2>2, <2>4, <2>5, <1>s, <1>p, DepFrame
<1>6. CASE Call
  <2>1. ASSUME NEW cl \in Client, NEW batch \in Batches, Enqueue(cl, batch) PROVE DepInv'
    <3>1. PICK due \in BOOLEAN :
            Become(cl, "check", [j \in Job |-> IF j \in batch THEN Fresh(due) ELSE Absent], batch, {})
      BY <2>1 DEF Enqueue
    <3>2. /\ proc'[cl].pc = "check" /\ proc'[cl].todo = batch /\ cl \in Proc /\ row' = row
          /\ proc'[cl].held = [j \in Job |-> IF j \in batch THEN Fresh(due) ELSE Absent]
          /\ \A q \in Proc \ {cl} : proc'[q] = proc[q]
      BY <2>1, <3>1, <1>p DEF Become, Enqueue, ProcState
    <3>3. \A k \in Job : Holds(cl, k)' => k \in batch
      BY <3>2 DEF Holds, Absent
    <3>4. Checks(cl)'
      BY <3>2, <3>3 DEF Checks, Checked
    <3> QED BY <3>2, <3>4, <1>s, <1>p, DepFrame
  <2>2. ASSUME NEW j \in Job, CancelJob(j) PROVE DepInv'
    <3>1. row'[j].status = "cancelled" /\ \A k \in Job \ {j} : row'[k] = row[k]
      BY <2>2, <1>p DEF CancelJob, Record
    <3>2. row'[j].status \notin ACTIVE
      BY <3>1 DEF ACTIVE
    <3> QED BY <2>2, <3>1, <3>2, <1>s, <1>p, DepFrame DEF CancelJob
  <2>3. ASSUME "replay" \in Ops, NEW cl \in Client, NEW j \in Job, ReplayRead(cl, j) PROVE DepInv'
    <3>1. /\ row' = row /\ proc[cl].pc = "idle" /\ Goto(cl, "replay", j, Reset(row[j])) /\ "replay" \in PC
      BY <2>3 DEF ReplayRead, PC
    <3>2. Reset(row[j]) \in Record /\ Parked(Reset(row[j]))
      BY <2>3, <1>p, JobType DEF Reset, Parked, ReplayRead, ClaimInv, DeadInDLQ
    <3>3. /\ proc'[cl].pc = "replay" /\ proc'[cl].held[j] = Reset(row[j]) /\ cl \in Proc
          /\ \A k \in Job \ {j} : proc'[cl].held[k] = proc[cl].held[k]
          /\ \A q \in Proc \ {cl} : proc'[q] = proc[q]
      BY <3>1, <3>2, <1>p, GotoProc
    <3>4. \A k \in Job : ~Holds(cl, k)
      BY <3>1, <3>3 DEF ClaimInv, LoopsHeld, Holds, NoJobs, Absent
    <3>5. Checks(cl)'
      BY <3>2, <3>3, <3>4 DEF Checks, Checked, Holds
    <3> QED BY <3>1, <3>3, <3>5, <1>s, <1>p, DepFrame
  <2> QED BY <1>6, <2>1, <2>2, <2>3 DEF Call, NoRetryNorPurge
<1>7. ASSUME NEW j \in Job, RunAtPasses(j) PROVE DepInv'
  <2>1. \A k \in Job : row'[k].status = row[k].status /\ row'[k].queue = row[k].queue
    BY <1>7, <1>p DEF RunAtPasses, Record
  <2> QED BY <1>7, <2>1, <1>s, <1>p, DepFrame DEF RunAtPasses
<1>8. ASSUME NEW p \in Proc, Crash(p) PROVE DepInv'
  <2>1. proc'[p].pc = "idle" /\ row' = row /\ \A q \in Proc \ {p} : proc'[q] = proc[q]
    BY <1>8, <1>p, ReturnProc DEF Crash, Idle
  <2>2. Checks(p)'
    BY <2>1, NothingToCheck
  <2> QED BY <2>1, <2>2, <1>s, <1>p, DepFrame
<1> QED BY <1>1, <1>2, <1>3, <1>4, <1>5, <1>6, <1>7, <1>8 DEF Next

LEMMA DepInit == Init => DepInv
BY DEF Init, DepInv, Absent, ACTIVE, Checks, Checked, Idle


\* A task is invoked only when every job it depends on has completed: as long
\* as nobody retries a job that was cancelled while it waited or purges a
\* dependency, and no worker serves a queue that dead jobs are replayed into,
\* for every dependency graph, fleet and interleaving of statements, crashes
\* included.
THEOREM Ordered ==
  ASSUME NoServedReplay, NoRetryNorPurge
  PROVE  Spec => DependencyOrder
<1>1. Init => ClaimInv /\ LifeInv /\ DepInv
  BY ClaimInvInit, LifeInvInit, DepInit
<1>2. ClaimInv /\ LifeInv /\ DepInv /\ [Next]_vars => ClaimInv' /\ LifeInv' /\ DepInv'
  BY ClaimInvStep, LifeStepNext, DepStep DEF Lives
<1>3. ClaimInv /\ LifeInv /\ DepInv /\ [Next]_vars =>
        [\A s \in Slot, j \in Job :
           proc[s].pc = "start" /\ Holds(s, j) /\ proc'[s].pc = "invoke" =>
              \A d \in DependsOn[j] : row[d].status = "completed"]_vars
  BY ExecutingReady DEF Executing, ClaimPC, AllDepsCompleted
<1> QED
  BY <1>1, <1>2, <1>3, PTL DEF Spec, DependencyOrder

(***************************************************************************)
(* Wake-ups.                                                                *)
(***************************************************************************)

Woken == \A j \in Job : row[j].status = "waiting" /\ AllDepsCompleted(j) =>
            \E p \in Proc : WillPromote(p, j)

\* A promotion loop tests one job at a time, and a replay writes no waiting job
\* before it checks the dependencies.
LoopInv == \A p \in Proc :
    /\ \A j, k \in proc[p].ready : j = k
    /\ proc[p].pc = "replay" => \A j \in Job : proc[p].held[j].status # "waiting"

\* Process p still does what j waits for.
KeepsWaking(p) == \A j \in Job :
    WillPromote(p, j) /\ row'[j].status = "waiting" /\ AllDepsCompleted(j)' => WillPromote(p, j)'

\* A step after which every job that it makes wait, or that waits for what it
\* completes, is on some process's way.
LEMMA WakeFrame ==
  ASSUME Woken, DependsOn \in [Job -> SUBSET Job],
         \A j \in Job : row'[j].status = "waiting" =>
            row[j].status = "waiting" \/ \E p \in Proc : WillPromote(p, j)',
         \A d \in Job : row'[d].status = "completed" =>
            \/ row[d].status = "completed"
            \/ \A j \in Job : d \in DependsOn[j] => \E p \in Proc : WillPromote(p, j)',
         \A p \in Proc : proc'[p] = proc[p] \/ KeepsWaking(p)
  PROVE  Woken'
<1> SUFFICES ASSUME NEW j \in Job, row'[j].status = "waiting", AllDepsCompleted(j)',
                    ~ \E p \in Proc : WillPromote(p, j)'
             PROVE  FALSE
  BY DEF Woken
<1>1. row[j].status = "waiting"
  OBVIOUS
<1>2. AllDepsCompleted(j)
  BY DEF AllDepsCompleted
<1>3. PICK p \in Proc : WillPromote(p, j)
  BY <1>1, <1>2 DEF Woken
<1>4. proc'[p] = proc[p] => WillPromote(p, j)'
  BY <1>3 DEF WillPromote, Holds
<1> QED BY <1>3, <1>4 DEF KeepsWaking

\* The same, for a step that makes no job wait and completes none.
LEMMA WakeQuiet ==
  ASSUME Woken, DependsOn \in [Job -> SUBSET Job],
         \A j \in Job : /\ row'[j].status = "waiting" => row[j].status = "waiting"
                        /\ row'[j].status = "completed" => row[j].status = "completed",
         \A p \in Proc : proc'[p] = proc[p] \/ KeepsWaking(p)
  PROVE  Woken'
BY WakeFrame

\* A process that is on nobody's way.
LEMMA NotWaking ==
  ASSUME NEW p, proc[p].pc \notin {"upsert", "resolve", "promote"}
  PROVE  KeepsWaking(p)
BY DEF KeepsWaking, WillPromote

\* What LoopInv says of the one process that steps.
LEMMA LoopFrame ==
  ASSUME LoopInv, NEW p \in Proc, \A q \in Proc \ {p} : proc'[q] = proc[q],
         \A j, k \in proc'[p].ready : j = k,
         proc'[p].pc = "replay" => \A j \in Job : proc'[p].held[j].status # "waiting"
  PROVE  LoopInv'
BY DEF LoopInv

LEMMA WorkWakes ==
  ASSUME ClaimInv, LifeInv, LoopInv, NEW s \in Slot, Work(s)
  PROVE  LoopInv' /\ (Woken => Woken')
<1> PICK j \in Job : \/ RejectUnknown(s, j) \/ CheckCancelled(s, j) \/ Start(s, j)
                    \/ Succeed(s, j) \/ ScheduleRetry(s, j) \/ MoveToDLQ(s, j)
                    \/ Fail(s, j) \/ Finish(s, j) \/ FetchDependents(s, j)
  BY DEF Work
<1>p. /\ s \in Proc /\ proc \in [Proc -> ProcState] /\ row \in [Job -> Record]
      /\ DependsOn \in [Job -> SUBSET Job] /\ proc[s].held[j] \in Record /\ Holds(s, j)
      /\ {"start", "invoke", "finish", "resolve", "check"} \subseteq PC
  BY DependsOnAssumption DEF ClaimInv, TypeOK, Proc, ProcState, PC, RejectUnknown, CheckCancelled, Start,
     Succeed, ScheduleRetry, MoveToDLQ, Fail, Finish, FetchDependents
<1>1. ASSUME NEW pc \in {"start", "invoke", "finish", "resolve", "check"},
             NEW held, NEW todo, Become(s, pc, held, todo, {})
      PROVE  /\ \A q \in Proc \ {s} : proc'[q] = proc[q]
             /\ proc'[s].pc = pc /\ proc'[s].held = held /\ LoopInv'
  <2>1. /\ proc'[s].pc = pc /\ proc'[s].held = held /\ proc'[s].ready = {}
        /\ \A q \in Proc \ {s} : proc'[q] = proc[q]
    BY <1>1, <1>p DEF Become
  <2> QED BY <2>1, <1>p, LoopFrame
<1>2. Return(s) => (\A q \in Proc \ {s} : proc'[q] = proc[q]) /\ LoopInv'
  <2>1. Return(s) => /\ proc'[s].pc = "idle" /\ proc'[s].ready = {}
                     /\ \A q \in Proc \ {s} : proc'[q] = proc[q]
    BY <1>p, ReturnProc DEF Idle
  <2> QED BY <2>1, <1>p, LoopFrame
<1>3. CASE FetchDependents(s, j)
  <2>1. /\ proc'[s].todo = WaitingDependents(j) /\ proc'[s].ready = {} /\ row' = row
        /\ proc'[s].pc = IF WaitingDependents(j) = {} THEN "idle" ELSE "promote"
        /\ proc[s].pc = "resolve" /\ \A q \in Proc \ {s} : proc'[q] = proc[q]
    BY <1>3, <1>p, SettleProc DEF FetchDependents, WaitingDependents
  <2>2. ASSUME NEW k \in Job, WillPromote(s, k), row'[k].status = "waiting" PROVE WillPromote(s, k)'
    <3>1. j \in DependsOn[k]
      BY <2>1, <2>2, <1>p DEF WillPromote, ClaimInv, SlotHolds
    <3>2. k \in WaitingDependents(j)
      BY <2>1, <2>2, <3>1 DEF WaitingDependents
    <3> QED BY <2>1, <3>2 DEF WillPromote
  <2>3. KeepsWaking(s)
    BY <2>2 DEF KeepsWaking
  <2>4. LoopInv'
    BY <2>1, <1>p, LoopFrame
  <2> QED BY <2>1, <2>3, <2>4, <1>p, WakeQuiet
<1>4. CASE Finish(s, j)
  <2>1. Executing(s, j) /\ proc[s].pc = "finish"
    BY <1>4, <1>p DEF Finish, Executing, ClaimPC
  <2>2. /\ row'[j] = proc[s].held[j] /\ \A k \in Job \ {j} : row'[k] = row[k]
    BY <1>4, <2>1, <1>p, UpdateType DEF Finish, ClaimInv, ExecutingIsRunning
  <2>3. row'[j].status # "waiting"
    BY <2>1, <2>2, OwnJob DEF Attempt, OutcomeOf
  <2>4. KeepsWaking(s)
    BY <2>1, NotWaking
  <2>5. CASE proc[s].held[j].status = "completed"
    <3>1. Become(s, "resolve", With(s, j, proc[s].held[j]), {}, {})
      BY <1>4, <2>5 DEF Finish, Goto
    <3>2. /\ proc'[s].pc = "resolve" /\ LoopInv' /\ proc'[s].held = With(s, j, proc[s].held[j])
          /\ \A q \in Proc \ {s} : proc'[q] = proc[q]
      BY <3>1, <1>1
    <3>3. Holds(s, j)'
      BY <3>2, <1>p DEF Holds, With, ProcState
    <3>4. \A k \in Job : j \in DependsOn[k] => WillPromote(s, k)'
      BY <3>2, <3>3 DEF WillPromote
    <3> QED BY <2>2, <2>3, <2>4, <3>2, <3>4, <1>p, WakeFrame
  <2>6. CASE proc[s].held[j].status # "completed"
    <3>1. Return(s)
      BY <1>4, <2>6 DEF Finish
    <3> QED BY <3>1, <2>2, <2>3, <2>4, <2>6, <1>2, <1>p, WakeQuiet
  <2> QED BY <2>5, <2>6
<1>5. CASE ~FetchDependents(s, j) /\ ~Finish(s, j)
  <2>1. KeepsWaking(s)
    BY <1>5, NotWaking DEF RejectUnknown, CheckCancelled, Start, Succeed, ScheduleRetry, MoveToDLQ, Fail
  <2>2. LoopInv' /\ \A q \in Proc \ {s} : proc'[q] = proc[q]
    BY <1>5, <1>1, <1>2 DEF RejectUnknown, CheckCancelled, Start, Succeed, ScheduleRetry, MoveToDLQ, Fail,
       Goto
  <2>3. \A k \in Job : row'[k] = row[k] \/ row'[k].status = "running"
    <3>1. CASE Start(s, j)
      <4>1. proc[s].held[j].status = "running"
        BY <3>1, <1>p DEF Start, ClaimInv, SlotHolds
      <4> QED BY <3>1, <4>1, <1>p, UpdateType DEF Start
    <3>2. CASE ~Start(s, j)
      BY <1>5, <3>2 DEF RejectUnknown, CheckCancelled, Succeed, ScheduleRetry, MoveToDLQ, Fail
    <3> QED BY <3>1, <3>2
  <2> QED BY <2>1, <2>2, <2>3, <1>p, WakeQuiet
<1> QED BY <1>3, <1>4, <1>5

LEMMA BrokerWakes ==
  ASSUME ClaimInv, LifeInv, LoopInv, NEW p \in Proc, Broker(p)
  PROVE  LoopInv' /\ (Woken => Woken')
<1>p. /\ proc \in [Proc -> ProcState] /\ row \in [Job -> Record]
      /\ proc[p].held \in [Job -> Record] /\ proc[p].todo \in SUBSET Job
      /\ DependsOn \in [Job -> SUBSET Job] /\ \A j \in Job : proc[p].todo \ {j} \in SUBSET Job
  BY DependsOnAssumption DEF ClaimInv, TypeOK, ProcState
<1>b. ASSUME NEW pc, NEW held, NEW todo, NEW ready, Become(p, pc, held, todo, ready)
      PROVE  /\ proc'[p].pc = pc /\ proc'[p].held = held /\ proc'[p].todo = todo /\ proc'[p].ready = ready
             /\ \A q \in Proc \ {p} : proc'[q] = proc[q]
  BY <1>b, <1>p DEF Become
<1>s. ASSUME NEW rest \in SUBSET Job, Settle(p, rest)
      PROVE  /\ proc'[p].todo = rest /\ (rest # {} => proc'[p].pc = "promote") /\ LoopInv'
             /\ \A q \in Proc \ {p} : proc'[q] = proc[q]
  <2>1. /\ proc'[p].pc = IF rest = {} THEN "idle" ELSE "promote"
        /\ proc'[p].todo = rest /\ proc'[p].ready = {} /\ \A q \in Proc \ {p} : proc'[q] = proc[q]
    BY <1>s, <1>p, SettleProc
  <2> QED BY <2>1, LoopFrame
<1>1. ASSUME NEW j \in Job, CountDeps(p, j) PROVE LoopInv' /\ (Woken => Woken')
  <2>1. row' = row /\ proc[p].pc = "promote" /\ j \in proc[p].todo /\ proc[p].ready = {}
    BY <1>1 DEF CountDeps
  <2>2. CASE AllDepsCompleted(j)
    <3>1. Become(p, "promote", NoJobs, proc[p].todo \ {j}, {j})
      BY <1>1, <2>2 DEF CountDeps
    <3>2. /\ proc'[p].pc = "promote" /\ proc'[p].todo = proc[p].todo \ {j} /\ proc'[p].ready = {j}
          /\ \A q \in Proc \ {p} : proc'[q] = proc[q]
      BY <3>1, <1>b
    <3>3. KeepsWaking(p)
      BY <2>1, <3>2 DEF KeepsWaking, WillPromote
    <3>4. LoopInv'
      BY <3>2, LoopFrame
    <3> QED BY <2>1, <3>2, <3>3, <3>4, <1>p, WakeQuiet
  <2>3. CASE ~AllDepsCompleted(j)
    <3>1. Settle(p, proc[p].todo \ {j})
      BY <1>1, <2>3 DEF CountDeps
    <3>2. /\ proc'[p].todo = proc[p].todo \ {j} /\ LoopInv'
          /\ (proc[p].todo \ {j} # {} => proc'[p].pc = "promote")
          /\ \A q \in Proc \ {p} : proc'[q] = proc[q]
      BY <3>1, <1>s, <1>p
    <3>3. ~AllDepsCompleted(j)'
      BY <2>1, <2>3 DEF AllDepsCompleted
    <3>4. KeepsWaking(p)
      BY <2>1, <3>2, <3>3 DEF KeepsWaking, WillPromote
    <3> QED BY <2>1, <3>2, <3>4, <1>p, WakeQuiet
  <2> QED BY <2>2, <2>3
<1>2. ASSUME NEW j \in Job, MarkPending(p, j) PROVE LoopInv' /\ (Woken => Woken')
  <2>1. /\ proc[p].pc = "promote" /\ j \in proc[p].ready /\ Settle(p, proc[p].todo)
        /\ row' = IF row[j].status = "waiting" THEN [row EXCEPT ![j].status = "pending"] ELSE row
    BY <1>2 DEF MarkPending
  <2>2. /\ proc'[p].todo = proc[p].todo /\ LoopInv' /\ (proc[p].todo # {} => proc'[p].pc = "promote")
        /\ \A q \in Proc \ {p} : proc'[q] = proc[q]
    BY <2>1, <1>s, <1>p
  <2>3. row'[j].status # "waiting" /\ \A k \in Job : row'[k] = row[k] \/ row'[k].status = "pending"
    BY <2>1, <1>p DEF Record
  <2>4. \A k \in proc[p].ready : k = j
    BY <2>1 DEF LoopInv
  <2>5. KeepsWaking(p)
    BY <2>1, <2>2, <2>3, <2>4 DEF KeepsWaking, WillPromote
  <2> QED BY <2>2, <2>3, <2>5, <1>p, WakeQuiet
<1>3. ASSUME NEW j \in Job, CheckDeps(p, j) PROVE LoopInv' /\ (Woken => Woken')
  <2>1. row' = row /\ proc[p].pc = "check"
    BY <1>3 DEF CheckDeps
  <2>2. PICK pc \in {"check", "upsert"}, held \in {proc[p].held,
               With(p, j, [proc[p].held[j] EXCEPT !.status = "waiting"])},
             todo \in {proc[p].todo \ {j}, {k \in Job : Holds(p, k)}} :
               Become(p, pc, held, todo, {})
    BY <1>3 DEF CheckDeps
  <2>3. /\ proc'[p].pc = pc /\ proc'[p].ready = {} /\ \A q \in Proc \ {p} : proc'[q] = proc[q]
    BY <2>2, <1>b
  <2>4. KeepsWaking(p)
    BY <2>1, NotWaking
  <2>5. LoopInv'
    BY <2>3, LoopFrame
  <2> QED BY <2>1, <2>3, <2>4, <2>5, <1>p, WakeQuiet
<1>4. ASSUME NEW chunk \in Chunks(proc[p].todo), Upsert(p, chunk) PROVE LoopInv' /\ (Woken => Woken')
  <2>r. PICK rest \in SUBSET Job, waiting \in SUBSET Job :
           /\ rest = proc[p].todo \ chunk
           /\ waiting = {k \in Job : proc[p].held[k].status = "waiting"}
    BY <1>p
  <2>1. /\ proc[p].pc = "upsert" /\ chunk \subseteq proc[p].todo
        /\ row' = [k \in Job |-> IF k \in chunk THEN proc[p].held[k] ELSE row[k]]
        /\ IF rest # {} THEN Become(p, "upsert", proc[p].held, rest, {}) ELSE Settle(p, waiting)
    BY <1>4, <2>r DEF Upsert, Chunks
  <2>2. /\ LoopInv' /\ \A q \in Proc \ {p} : proc'[q] = proc[q]
        /\ \A k \in Job : proc[p].held[k].status = "waiting" => WillPromote(p, k)'
    <3>1. CASE rest # {}
      <4>1. Become(p, "upsert", proc[p].held, rest, {})
        BY <2>1, <3>1
      <4>2. /\ proc'[p].pc = "upsert" /\ proc'[p].held = proc[p].held /\ proc'[p].ready = {}
            /\ \A q \in Proc \ {p} : proc'[q] = proc[q]
        BY <4>1, <1>b
      <4>3. LoopInv'
        BY <4>2, LoopFrame
      <4> QED BY <4>2, <4>3 DEF WillPromote
    <3>2. CASE rest = {}
      <4>1. /\ proc'[p].todo = waiting /\ (waiting # {} => proc'[p].pc = "promote") /\ LoopInv'
            /\ \A q \in Proc \ {p} : proc'[q] = proc[q]
        BY <2>1, <3>2, <1>s
      <4> QED BY <4>1, <2>r DEF WillPromote
    <3> QED BY <3>1, <3>2
  <2>3. KeepsWaking(p)
    BY <2>1, <2>2 DEF KeepsWaking, WillPromote
  <2>4. \A k \in chunk : k \in Job /\ row'[k] = proc[p].held[k] /\ row'[k].status # "completed"
    <3> SUFFICES ASSUME NEW k \in chunk PROVE proc[p].held[k].status # "completed"
      BY <2>1, <1>p
    <3>1. k \in Job /\ Holds(p, k)
      BY <2>1, <1>p DEF ClaimInv, LoopsHeld
    <3>2. CASE p \in Slot
      <4>1. Executing(p, k)
        BY <3>1, <2>1 DEF Executing, ClaimPC
      <4>2. proc[p].held[k].status \in {"retrying", "waiting"}
        BY <3>1, <3>2, <4>1, <2>1, OwnJob DEF Attempt
      <4> QED BY <4>2
    <3>3. CASE p \in Client
      BY <3>1, <3>3, <2>1 DEF ClaimInv, ClientWrites, WillWrite
    <3> QED BY <3>2, <3>3 DEF Proc
  <2>5. \A k \in Job : k \notin chunk => row'[k] = row[k]
    BY <2>1
  <2>6. \A k \in Job : row'[k].status = "waiting" =>
            row[k].status = "waiting" \/ \E q \in Proc : WillPromote(q, k)'
    BY <2>2, <2>4, <2>5
  <2>7. \A k \in Job : row'[k].status = "completed" => row[k].status = "completed"
    BY <2>4, <2>5
  <2> QED BY <2>2, <2>3, <2>6, <2>7, <1>p, WakeFrame
<1> QED BY <1>1, <1>2, <1>3, <1>4 DEF Broker

LEMMA WakeStep ==
  ASSUME ClaimInv, LifeInv, LoopInv, [Next]_vars
  PROVE  LoopInv' /\ (crashes' = crashes /\ Woken => Woken')
<1>p. /\ proc \in [Proc -> ProcState] /\ row \in [Job -> Record] /\ Client \subseteq Proc
      /\ Slot \subseteq Proc /\ DependsOn \in [Job -> SUBSET Job]
  BY DependsOnAssumption DEF ClaimInv, TypeOK, Proc
<1>b. ASSUME NEW p \in Proc, NEW pc, NEW held, NEW todo, NEW ready, Become(p, pc, held, todo, ready)
      PROVE  /\ proc'[p].pc = pc /\ proc'[p].held = held /\ proc'[p].todo = todo /\ proc'[p].ready = ready
             /\ \A q \in Proc \ {p} : proc'[q] = proc[q]
  BY <1>b, <1>p DEF Become
\* A step that changes the rows alone.
<1>r. ASSUME proc' = proc,
             \A k \in Job : \/ row'[k].status = row[k].status
                            \/ row'[k].status \notin {"waiting", "completed"}
      PROVE  LoopInv' /\ (Woken => Woken')
  <2>1. LoopInv'
    BY <1>r DEF LoopInv
  <2> QED BY <2>1, <1>r, <1>p, WakeQuiet
<1>1. CASE UNCHANGED vars
  BY <1>1, <1>r DEF vars
<1>2. ASSUME NEW s \in Slot, NEW j \in Job, Claim(s, j) PROVE LoopInv' /\ (Woken => Woken')
  <2>1. proc[s].pc = "idle" /\ \A k \in Job : row'[k] = row[k] \/ row'[k].status = "running"
    BY <1>2, <1>p DEF Claim, Record
  <2>2. Become(s, "claimed", With(s, j, [row[j] EXCEPT !.status = "running"]), {}, {})
    BY <1>2 DEF Claim, Goto
  <2>3. proc'[s].pc = "claimed" /\ proc'[s].ready = {} /\ \A q \in Proc \ {s} : proc'[q] = proc[q]
    BY <2>2, <1>b, <1>p
  <2>4. LoopInv' /\ KeepsWaking(s)
    BY <2>1, <2>3, <1>p, NotWaking, LoopFrame
  <2> QED BY <2>1, <2>3, <2>4, <1>p, WakeQuiet
<1>3. ASSUME NEW s \in Slot, Work(s) PROVE LoopInv' /\ (Woken => Woken')
  BY <1>3, WorkWakes
<1>4. ASSUME NEW p \in Proc, Broker(p) PROVE LoopInv' /\ (Woken => Woken')
  BY <1>4, BrokerWakes
<1>5. ASSUME NEW cl \in Client, NEW j \in Job, ReplayUpdate(cl, j) PROVE LoopInv' /\ (Woken => Woken')
  <2>1. /\ proc[cl].pc = "replay" /\ Holds(cl, j) /\ Update(j, proc[cl].held[j])
        /\ Become(cl, "check", proc[cl].held, {j}, {}) /\ cl \in Proc /\ proc[cl].held[j] \in Record
    BY <1>5, <1>p DEF ReplayUpdate, ProcState
  <2>2. /\ proc'[cl].pc = "check" /\ proc'[cl].ready = {}
        /\ \A q \in Proc \ {cl} : proc'[q] = proc[q]
    BY <2>1, <1>b
  <2>3. LoopInv' /\ KeepsWaking(cl)
    BY <2>1, <2>2, NotWaking, LoopFrame
  <2>4. proc[cl].held[j].status \notin {"waiting", "completed"}
    BY <2>1, <1>5 DEF LoopInv, ClaimInv, ClientWrites, WillWrite
  <2>5. \A k \in Job : row'[k] = row[k] \/ row'[k].status \notin {"waiting", "completed"}
    BY <2>1, <2>4, <1>p, UpdateType
  <2> QED BY <2>2, <2>3, <2>5, <1>p, WakeQuiet
<1>6. CASE Call
  <2>1. ASSUME NEW cl \in Client, NEW batch \in Batches, Enqueue(cl, batch)
        PROVE  LoopInv' /\ (Woken => Woken')
    <3>1. PICK due \in BOOLEAN :
            Become(cl, "check", [j \in Job |-> IF j \in batch THEN Fresh(due) ELSE Absent], batch, {})
      BY <2>1 DEF Enqueue
    <3>2. /\ proc'[cl].pc = "check" /\ proc'[cl].ready = {} /\ cl \in Proc /\ row' = row
          /\ proc[cl].pc = "idle" /\ \A q \in Proc \ {cl} : proc'[q] = proc[q]
      BY <2>1, <3>1, <1>b, <1>p DEF Enqueue
    <3>3. LoopInv' /\ KeepsWaking(cl)
      BY <3>2, NotWaking, LoopFrame
    <3> QED BY <3>2, <3>3, <1>p, WakeQuiet
  <2>2. ASSUME NEW j \in Job, CancelJob(j) PROVE LoopInv' /\ (Woken => Woken')
    BY <2>2, <1>r, <1>p DEF CancelJob
  <2>3. ASSUME NEW j \in Job, RetryJob(j) PROVE LoopInv' /\ (Woken => Woken')
    BY <2>3, <1>r, <1>p DEF RetryJob, Reset
  <2>4. ASSUME NEW cl \in Client, NEW j \in Job, ReplayRead(cl, j) PROVE LoopInv' /\ (Woken => Woken')
    <3>1. /\ row' = row /\ proc[cl].pc = "idle" /\ Goto(cl, "replay", j, Reset(row[j])) /\ "replay" \in PC
          /\ cl \in Proc
      BY <2>4, <1>p DEF ReplayRead, PC
    <3>2. Reset(row[j]) \in Record /\ Reset(row[j]).status = "pending"
      BY <1>p, JobType DEF Reset
    <3>3. /\ proc'[cl].pc = "replay" /\ proc'[cl].held[j] = Reset(row[j])
          /\ \A k \in Job \ {j} : proc'[cl].held[k] = proc[cl].held[k]
          /\ \A q \in Proc \ {cl} : proc'[q] = proc[q]
      BY <3>1, <3>2, <1>p, GotoProc
    <3>4. proc'[cl].ready = {}
      BY <3>1, <1>b DEF Goto
    <3>5. \A k \in Job : proc'[cl].held[k].status # "waiting"
      BY <3>1, <3>2, <3>3 DEF ClaimInv, LoopsHeld, NoJobs, Absent
    <3>6. LoopInv' /\ KeepsWaking(cl)
      BY <3>1, <3>3, <3>4, <3>5, NotWaking, LoopFrame
    <3> QED BY <3>1, <3>3, <3>6, <1>p, WakeQuiet
  <2>5. ASSUME NEW old \in SUBSET Job, Purge(old) PROVE LoopInv' /\ (Woken => Woken')
    BY <2>5, <1>r DEF Purge, Absent
  <2> QED BY <1>6, <2>1, <2>2, <2>3, <2>4, <2>5 DEF Call
<1>7. ASSUME NEW j \in Job, RunAtPasses(j) PROVE LoopInv' /\ (Woken => Woken')
  <2>1. \A k \in Job : row'[k].status = row[k].status
    BY <1>7, <1>p DEF RunAtPasses, Record
  <2> QED BY <1>7, <2>1, <1>r DEF RunAtPasses
<1>8. ASSUME NEW p \in Proc, Crash(p) PROVE LoopInv' /\ crashes' # crashes
  <2>1. /\ proc'[p].pc = "idle" /\ proc'[p].ready = {} /\ \A q \in Proc \ {p} : proc'[q] = proc[q]
    BY <1>8, <1>p, ReturnProc DEF Crash, Idle
  <2>2. crashes' # crashes
    BY <1>8 DEF Crash, ClaimInv, TypeOK
  <2> QED BY <2>1, <2>2, LoopFrame
<1> QED BY <1>1, <1>2, <1>3, <1>4, <1>5, <1>6, <1>7, <1>8 DEF Next

LEMMA WakeInit == Init => LoopInv /\ NoLostWakeup
BY DEF Init, LoopInv, NoLostWakeup, Absent, Idle

\* No lost wake-up: unless a process is lost on the way, every job that waits
\* although its dependencies have completed has a process that will find and
\* promote it, for every dependency graph, batch size and fleet, whether a batch
\* is one transaction or a statement each, and whatever clients cancel, retry,
\* replay and purge.
THEOREM WakeUps ==
  ASSUME NoServedReplay
  PROVE  Spec => []NoLostWakeup
<1>1. Init => ClaimInv /\ LifeInv /\ LoopInv /\ NoLostWakeup
  BY ClaimInvInit, LifeInvInit, WakeInit
<1>2. ClaimInv /\ LifeInv /\ LoopInv /\ NoLostWakeup /\ [Next]_vars =>
        ClaimInv' /\ LifeInv' /\ LoopInv' /\ NoLostWakeup'
  BY ClaimInvStep, LifeStepNext, WakeStep, NoneLostYet DEF Lives, NoLostWakeup, Woken
<1> QED
  BY <1>1, <1>2, PTL DEF Spec
===============================================================================
