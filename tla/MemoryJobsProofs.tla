--------------------------- MODULE MemoryJobsProofs ---------------------------
(***************************************************************************)
(* Over the in-memory broker a job is given to one slot at a time, is never *)
(* forgotten, waits only for what has not completed and lives as            *)
(* JobLifecycle promises, for any jobs, slots and dependencies, if clients  *)
(* retry no job that was cancelled.  The invariant is stated job by job: an *)
(* action keeps it for the job it is about, and leaves the others alone     *)
(* (lemma Frame).                                                           *)
(***************************************************************************)
EXTENDS MemoryJobs, TLAPS

\* A job cancelled and retried between its claim and the first turn of its
\* task is queued again, although a slot has it.
NoCancelledRetry == "cancelled" \notin Retried

Free(j) == \A s \in Slot : slot[s].job # j

Listed(j) == \A q \in Queue : j \in ready[q] <=>
    j \in jobs /\ job[j].queue = q /\ job[j].status \in RUNNABLE /\ Free(j)

\* What is known of one job: the slots and the lists that have it agree with
\* its status.  A claimed job is on its way to run unless it was cancelled.
JobInv(j) ==
    /\ \A s, t \in Slot : slot[s].job = j /\ slot[t].job = j => s = t
    /\ \A s \in Slot : slot[s].job = j =>
          \/ /\ slot[s].pc = "claimed" /\ j \in submitted
             /\ job[j].status \in {"pending", "retrying", "cancelled"}
          \/ slot[s].pc = "invoke" /\ j \in jobs /\ job[j].status = "running"
    /\ Listed(j)
    /\ j \in jobs /\ job[j].status = "running" => ~Free(j)

\* The inductive invariant.
MemInv == /\ TypeOK
          /\ \A s \in Slot : slot[s].pc = "idle" <=> slot[s].job = None
          /\ \A j \in Job : JobInv(j)

-----------------------------------------------------------------------------
(* Types.                                                                   *)

\* The objects the operations build are well formed.
LEMMA ObjectType ==
  ASSUME NEW object \in Record
  PROVE  /\ \A st \in JobStatus : /\ [object EXCEPT !.status = st] \in Record
                                  /\ [object EXCEPT !.status = st].status = st
                                  /\ [object EXCEPT !.status = st].queue = object.queue
         /\ [object EXCEPT !.status = "dead", !.queue = "dlq"] \in Record
         /\ [object EXCEPT !.status = "dead", !.queue = "dlq"].status = "dead"
         /\ Reset(object) \in Record
         /\ \A due \in BOOLEAN : Retrying(object, due) \in Record
<1>1. \A st \in JobStatus : /\ [object EXCEPT !.status = st] \in Record
                            /\ [object EXCEPT !.status = st].status = st
                            /\ [object EXCEPT !.status = st].queue = object.queue
  BY DEF Record
<1>2. /\ [object EXCEPT !.status = "dead", !.queue = "dlq"] \in Record
      /\ [object EXCEPT !.status = "dead", !.queue = "dlq"].status = "dead"
  BY DEF Record, JobStatus, Queue
<1>3. Reset(object) \in Record
  BY DEF Record, JobStatus, Reset
<1>4. ASSUME NEW due \in BOOLEAN PROVE Retrying(object, due) \in Record
  BY DEF Record, JobStatus, Retrying
<1> QED BY <1>1, <1>2, <1>3, <1>4

LEMMA NewType ==
  /\ Absent \in Record
  /\ \A due \in BOOLEAN : /\ Fresh(due) \in Record /\ Fresh(due).status = "pending"
                          /\ Fresh(due).queue = "home"
BY DEF Record, JobStatus, Queue, Absent, Fresh

\* update_job changes one entry of the dictionary and no list.
LEMMA UpdateType ==
  ASSUME TypeOK, NEW j \in Job, NEW object \in Record, Update(j, object)
  PROVE  /\ job' \in [Job -> Record] /\ jobs' = jobs \cup {j} /\ ready' = ready
         /\ job'[j] = object /\ \A k \in Job \ {j} : job'[k] = job[k]
BY DEF TypeOK, Update

\* enqueue puts the job on the list of its queue, or keeps it waiting.
LEMMA PutType ==
  ASSUME TypeOK, NEW j \in Job, NEW object \in Record, Put(j, object)
  PROVE  /\ job' \in [Job -> Record] /\ jobs' = jobs \cup {j}
         /\ ready' \in [Queue -> SUBSET Job]
         /\ \A k \in Job \ {j} : /\ job'[k] = job[k]
                                 /\ \A q \in Queue : k \in ready'[q] <=> k \in ready[q]
         /\ \/ /\ job'[j] = object
               /\ \A q \in Queue : j \in ready'[q] <=> j \in ready[q] \/ q = object.queue
            \/ job'[j].status = "waiting" /\ ready' = ready
<1> DEFINE waits == [object EXCEPT !.status = "waiting"]
<1>1. waits \in Record /\ waits.status = "waiting" /\ object.queue \in Queue
  BY ObjectType DEF Record, JobStatus
<1> HIDE DEF waits
<1>2. CASE AllDepsCompleted(j)
  <2>1. job' = [job EXCEPT ![j] = object] /\ jobs' = jobs \cup {j}
        /\ ready' = [ready EXCEPT ![object.queue] = ready[object.queue] \cup {j}]
    BY <1>2 DEF Put
  <2> QED BY <2>1, <1>1 DEF TypeOK
<1>3. CASE ~AllDepsCompleted(j)
  <2>1. job' = [job EXCEPT ![j] = waits] /\ jobs' = jobs \cup {j} /\ ready' = ready
    BY <1>3 DEF Put, waits
  <2> QED BY <2>1, <1>1 DEF TypeOK
<1> QED BY <1>2, <1>3

-----------------------------------------------------------------------------
(* One job at a time.                                                       *)

\* The step leaves job k alone.
Kept(k) ==
    /\ job'[k].status = job[k].status /\ job'[k].queue = job[k].queue
    /\ k \in jobs' <=> k \in jobs
    /\ \A q \in Queue : k \in ready'[q] <=> k \in ready[q]
    /\ \A s \in Slot : slot'[s] = slot[s] \/ (slot[s].job # k /\ slot'[s].job # k)

LEMMA Frame ==
  ASSUME NEW k \in Job, JobInv(k), Kept(k), submitted \subseteq submitted'
  PROVE  JobInv(k)'
<1>1. Free(k)' <=> Free(k)
  BY DEF Free, Kept
<1>2. Listed(k)'
  BY <1>1 DEF JobInv, Listed, Kept
<1> QED BY <1>1, <1>2 DEF JobInv, Kept

\* A job that no slot has any more.
LEMMA Freed ==
  ASSUME NEW j \in Job, Free(j)', j \in jobs' => job'[j].status # "running",
         \A q \in Queue : j \in ready'[q] <=>
            j \in jobs' /\ job'[j].queue = q /\ job'[j].status \in RUNNABLE
  PROVE  JobInv(j)'
<1>1. Listed(j)'
  BY DEF Listed
<1> QED BY <1>1 DEF JobInv, Free

\* When _process returns, its job is with no slot, and the others stay.
LEMMA ReturnFrees ==
  ASSUME MemInv, NEW s \in Slot, NEW j \in Job, slot[s].job = j, Return(s)
  PROVE  /\ slot' \in [Slot -> SlotState]
         /\ \A t \in Slot : slot'[t].pc = "idle" <=> slot'[t].job = None
         /\ Free(j)' /\ \A q \in Queue : j \notin ready[q]
         /\ \A k \in Job \ {j}, t \in Slot :
               slot'[t] = slot[t] \/ (slot[t].job # k /\ slot'[t].job # k)
<1>1. slot'[s] = Idle /\ \A t \in Slot \ {s} : slot'[t] = slot[t]
  BY DEF MemInv, TypeOK, Return
<1>2. Idle \in SlotState /\ Idle.job = None /\ Idle.pc = "idle" /\ None \notin Job
  BY NoneAssumption DEF Idle, SlotState
<1>3. slot' \in [Slot -> SlotState]
  BY <1>2 DEF MemInv, TypeOK, Return
<1>4. Free(j)'
  BY <1>1, <1>2 DEF MemInv, JobInv, Free
<1>5. \A q \in Queue : j \notin ready[q]
  BY DEF MemInv, JobInv, Listed, Free
<1> QED BY <1>1, <1>2, <1>3, <1>4, <1>5 DEF MemInv

\* The outcomes that promote nobody and queue nothing.
LEMMA Ended ==
  ASSUME MemInv, NEW s \in Slot, NEW j \in Job, slot[s].job = j, Return(s),
         NEW object \in Record, object.status \in {"failed", "dead"}, Update(j, object),
         submitted' = submitted
  PROVE  MemInv'
<1>1. TypeOK
  BY DEF MemInv
<1>2. /\ job' \in [Job -> Record] /\ jobs' = jobs \cup {j} /\ ready' = ready
      /\ job'[j] = object /\ \A k \in Job \ {j} : job'[k] = job[k]
  BY <1>1, UpdateType
<1>3. j \in submitted
  BY DEF MemInv, JobInv, TypeOK
<1>4. TypeOK'
  BY <1>1, <1>2, <1>3, ReturnFrees DEF TypeOK
<1>5. JobInv(j)'
  <2>1. \A q \in Queue : j \notin ready'[q]
    BY <1>2, ReturnFrees
  <2> QED BY <1>2, <2>1, ReturnFrees, Freed DEF RUNNABLE
<1>6. ASSUME NEW k \in Job \ {j} PROVE JobInv(k)'
  <2>1. Kept(k)
    BY <1>2, ReturnFrees DEF Kept
  <2> QED BY <2>1, Frame DEF MemInv
<1> QED BY <1>4, <1>5, <1>6, ReturnFrees DEF MemInv

\* A step that changes the objects, the dictionary and the lists only.
LEMMA ClientStep ==
  ASSUME MemInv, TypeOK', slot' = slot, submitted \subseteq submitted',
         \A k \in Job : Kept(k) \/ JobInv(k)'
  PROVE  MemInv'
<1>1. ASSUME NEW k \in Job PROVE JobInv(k)'
  BY Frame DEF MemInv
<1> QED BY <1>1 DEF MemInv

\* A job that enqueue stores with no slot on it.
LEMMA Stored ==
  ASSUME MemInv, NEW j \in Job, Free(j)', \A q \in Queue : j \notin ready[q],
         NEW object \in Record, object.status \in RUNNABLE, Put(j, object)
  PROVE  JobInv(j)'
<1>1. TypeOK
  BY DEF MemInv
<1>2. j \in jobs' /\
      \/ /\ job'[j] = object
         /\ \A q \in Queue : j \in ready'[q] <=> q = object.queue
      \/ job'[j].status = "waiting" /\ ready' = ready
  BY <1>1, PutType
<1> QED BY <1>2, Freed DEF RUNNABLE

-----------------------------------------------------------------------------
(* The steps.                                                               *)

LEMMA MemInit == Init => MemInv
<1> SUFFICES ASSUME Init PROVE MemInv
  OBVIOUS
<1>1. Idle \in SlotState /\ Idle.job = None /\ Idle.pc = "idle" /\ None \notin Job
  BY NoneAssumption DEF Idle, SlotState
<1>2. TypeOK
  BY <1>1, NewType DEF Init, TypeOK
<1> QED BY <1>1, <1>2 DEF Init, MemInv, JobInv, Listed, Free, Absent

LEMMA ClaimKeeps ==
  ASSUME MemInv, NEW s \in Slot, NEW j \in Job, NEW q \in Queue, Claim(s, j, q)
  PROVE  MemInv'
<1>1. slot[s].job = None /\ None \notin Job
  BY NoneAssumption DEF MemInv, Claim
<1>2. /\ j \in jobs /\ job[j].queue = q /\ job[j].status \in RUNNABLE /\ Free(j)
      /\ \A r \in Queue \ {q} : j \notin ready[r]
  BY DEF MemInv, JobInv, Listed, Claim
<1>3. slot' = [slot EXCEPT ![s] = [pc |-> "claimed", job |-> j]]
  BY <1>2 DEF Claim, RUNNABLE
<1>4. job' = job /\ jobs' = jobs /\ submitted' = submitted
      /\ ready' = [ready EXCEPT ![q] = ready[q] \ {j}]
  BY DEF Claim
<1>5. slot' \in [Slot -> SlotState] /\ slot'[s] = [pc |-> "claimed", job |-> j]
      /\ \A t \in Slot \ {s} : slot'[t] = slot[t]
  BY <1>3 DEF MemInv, TypeOK, SlotState
<1>6. TypeOK'
  BY <1>4, <1>5 DEF MemInv, TypeOK
<1>7. \A r \in Queue, k \in Job : k \in ready'[r] <=> k \in ready[r] /\ (k = j => r # q)
  BY <1>4 DEF MemInv, TypeOK
<1>8. JobInv(j)'
  <2>1. ~Free(j)' /\ \A r \in Queue : j \notin ready'[r]
    BY <1>2, <1>5, <1>7 DEF Free
  <2>2. Listed(j)'
    BY <2>1 DEF Listed
  <2>3. j \in submitted' /\ job'[j].status \in {"pending", "retrying", "cancelled"}
    BY <1>2, <1>4 DEF RUNNABLE, MemInv, TypeOK
  <2>4. \A t \in Slot : slot'[t].job = j => t = s
    BY <1>2, <1>5 DEF Free
  <2> QED BY <2>1, <2>2, <2>3, <2>4, <1>5 DEF JobInv
<1>9. ASSUME NEW k \in Job \ {j} PROVE JobInv(k)'
  <2>1. Kept(k)
    BY <1>1, <1>4, <1>5, <1>7 DEF Kept
  <2> QED BY <2>1, <1>4, Frame DEF MemInv
<1>10. \A t \in Slot : slot'[t].pc = "idle" <=> slot'[t].job = None
  BY <1>1, <1>5 DEF MemInv
<1> QED BY <1>6, <1>8, <1>9, <1>10 DEF MemInv

LEMMA StartKeeps ==
  ASSUME MemInv, NEW s \in Slot, NEW j \in Job, Start(s, j)
  PROVE  MemInv'
<1> DEFINE object == [job[j] EXCEPT !.status = "running"]
<1>1. TypeOK /\ slot[s].job = j /\ slot[s].pc = "claimed" /\ None \notin Job
      /\ submitted' = submitted
  BY NoneAssumption DEF MemInv, Start
<1>2. object \in Record /\ object.status = "running"
  <2>1. PICK st \in JobStatus : st = "running"
    BY DEF JobStatus
  <2>2. job[j] \in Record
    BY <1>1 DEF TypeOK
  <2> QED BY <2>1, <2>2, ObjectType
<1>3. Update(j, object)
  BY DEF Start
<1> HIDE DEF object
<1>4. /\ job' \in [Job -> Record] /\ jobs' = jobs \cup {j} /\ ready' = ready
      /\ job'[j].status = "running" /\ \A k \in Job \ {j} : job'[k] = job[k]
  BY <1>1, <1>2, <1>3, UpdateType
<1>5. slot' \in [Slot -> SlotState] /\ slot'[s].pc = "invoke" /\ slot'[s].job = j
      /\ \A t \in Slot \ {s} : slot'[t] = slot[t]
  BY <1>1 DEF Start, TypeOK, SlotState
<1>6. j \in submitted /\ \A q \in Queue : j \notin ready[q]
  BY <1>1 DEF MemInv, JobInv, Listed, Free
<1>7. TypeOK'
  BY <1>1, <1>4, <1>5, <1>6 DEF TypeOK
<1>8. JobInv(j)'
  <2>1. ~Free(j)'
    BY <1>5 DEF Free
  <2>2. \A t \in Slot : slot'[t].job = j => t = s
    BY <1>1, <1>5 DEF MemInv, JobInv
  <2>3. Listed(j)'
    BY <2>1, <1>4, <1>6 DEF Listed
  <2> QED BY <2>1, <2>2, <2>3, <1>4, <1>5 DEF JobInv
<1>9. ASSUME NEW k \in Job \ {j} PROVE JobInv(k)'
  <2>1. Kept(k)
    BY <1>1, <1>4, <1>5 DEF Kept
  <2> QED BY <2>1, <1>1, Frame DEF MemInv
<1>10. \A t \in Slot : slot'[t].pc = "idle" <=> slot'[t].job = None
  BY <1>1, <1>5 DEF MemInv
<1> QED BY <1>7, <1>8, <1>9, <1>10 DEF MemInv

LEMMA SucceedKeeps ==
  ASSUME MemInv, NEW s \in Slot, NEW j \in Job, Succeed(s, j)
  PROVE  MemInv'
<1>1. TypeOK /\ slot[s].job = j /\ Return(s) /\ submitted' = submitted /\ jobs' = jobs \cup {j}
      /\ j \in jobs /\ job[j].status = "running"
  BY DEF MemInv, JobInv, Succeed
<1>4. \A k \in Released(j) : k \in jobs /\ k # j /\ job[k].status = "waiting"
  BY DEF Released
<1>5. PICK released \in SUBSET Job : released = Released(j)
  BY <1>1, <1>4 DEF TypeOK
<1>6. ASSUME NEW k \in Job
      PROVE  /\ job'[k] \in Record /\ job'[k].queue = job[k].queue
             /\ k = j => job'[k].status = "completed"
             /\ k \in released => job'[k].status = "pending"
             /\ k \notin released \cup {j} => job'[k] = job[k]
  <2>0. /\ job[k] \in Record /\ "completed" \in JobStatus /\ "pending" \in JobStatus
    BY <1>1 DEF TypeOK, JobStatus
  <2>p. PICK object \in Record : object = job[k]
    BY <2>0
  <2>1. PICK done \in Record : /\ done = [object EXCEPT !.status = "completed"]
                               /\ done.status = "completed" /\ done.queue = object.queue
    BY <2>0, ObjectType
  <2>2. PICK freed \in Record : /\ freed = [object EXCEPT !.status = "pending"]
                                /\ freed.status = "pending" /\ freed.queue = object.queue
    BY <2>0, ObjectType
  <2>3. job'[k] = IF k = j THEN done ELSE IF k \in released THEN freed ELSE job[k]
    BY <2>p, <2>1, <2>2, <1>5 DEF Succeed
  <2> QED BY <2>p, <2>0, <2>1, <2>2, <2>3, <1>1, <1>4, <1>5 DEF TypeOK
<1>7. job' \in [Job -> Record]
  BY <1>6 DEF Succeed
<1>8. /\ ready' \in [Queue -> SUBSET Job]
      /\ \A q \in Queue, k \in Job :
            k \in ready'[q] <=> k \in ready[q] \/ (k \in released /\ job[k].queue = q)
  <2>1. ready' = [q \in Queue |-> ready[q] \cup {k \in released : job[k].queue = q}]
    BY <1>5 DEF Succeed
  <2> QED BY <2>1, <1>1 DEF TypeOK
<1>9. TypeOK'
  BY <1>1, <1>7, <1>8, ReturnFrees DEF TypeOK
<1>10. JobInv(j)'
  <2>1. job'[j].status = "completed" /\ \A q \in Queue : j \notin ready'[q]
    BY <1>1, <1>4, <1>5, <1>6, <1>8, ReturnFrees
  <2> QED BY <2>1, <1>1, ReturnFrees, Freed DEF RUNNABLE
<1>11. ASSUME NEW k \in released PROVE JobInv(k)'
  <2>1. k \in jobs' /\ k # j /\ job'[k].status = "pending" /\ job'[k].queue = job[k].queue
    BY <1>1, <1>4, <1>5, <1>6
  <2>2. Free(k) /\ \A q \in Queue : k \notin ready[q]
    BY <1>4, <1>5 DEF MemInv, JobInv, Listed, Free, RUNNABLE
  <2>3. Free(k)'
    BY <2>1, <2>2, <1>1, ReturnFrees DEF Free
  <2> QED BY <2>1, <2>2, <2>3, <1>8, Freed DEF RUNNABLE
<1>12. ASSUME NEW k \in Job \ (released \cup {j}) PROVE JobInv(k)'
  <2>1. Kept(k)
    BY <1>1, <1>6, <1>8, ReturnFrees DEF Kept
  <2> QED BY <2>1, <1>1, Frame DEF MemInv
<1> QED BY <1>1, <1>9, <1>10, <1>11, <1>12, ReturnFrees DEF MemInv

LEMMA RetryKeeps ==
  ASSUME MemInv, NEW s \in Slot, NEW j \in Job, ScheduleRetry(s, j)
  PROVE  MemInv'
<1>1. TypeOK /\ slot[s].job = j /\ Return(s) /\ submitted' = submitted
      /\ j \in jobs /\ job[j] \in Record
  BY DEF MemInv, JobInv, TypeOK, ScheduleRetry
<1>2. PICK due \in BOOLEAN : Put(j, Retrying(job[j], due))
  BY DEF ScheduleRetry
<1>3. PICK object \in Record : object = Retrying(job[j], due) /\ object.status \in RUNNABLE
  <2>1. Retrying(job[j], due) \in Record
    BY <1>1, ObjectType
  <2>2. Retrying(job[j], due).status \in RUNNABLE
    BY DEF Retrying, RUNNABLE
  <2> QED BY <2>1, <2>2
<1>4. Put(j, object)
  BY <1>2, <1>3
<1>5. /\ job' \in [Job -> Record] /\ jobs' = jobs \cup {j} /\ ready' \in [Queue -> SUBSET Job]
      /\ \A k \in Job \ {j} : /\ job'[k] = job[k]
                              /\ \A q \in Queue : k \in ready'[q] <=> k \in ready[q]
  BY <1>1, <1>4, PutType
<1>6. TypeOK'
  BY <1>1, <1>5, ReturnFrees DEF TypeOK
<1>7. JobInv(j)'
  BY <1>1, <1>3, <1>4, ReturnFrees, Stored
<1>8. ASSUME NEW k \in Job \ {j} PROVE JobInv(k)'
  <2>1. Kept(k)
    BY <1>1, <1>5, ReturnFrees DEF Kept
  <2> QED BY <2>1, <1>1, Frame DEF MemInv
<1> QED BY <1>1, <1>6, <1>7, <1>8, ReturnFrees DEF MemInv

LEMMA WorkKeeps ==
  ASSUME MemInv, NEW s \in Slot, NEW j \in Job, Work(s, j)
  PROVE  MemInv'
<1>1. job[j] \in Record /\ {"failed", "dead"} \subseteq JobStatus
  BY DEF MemInv, TypeOK, JobStatus
<1>2. CASE RejectUnknown(s, j) \/ Fail(s, j)
  <2> DEFINE object == [job[j] EXCEPT !.status = "failed"]
  <2>1. object \in Record /\ object.status \in {"failed", "dead"}
    BY <1>1, ObjectType
  <2>2. slot[s].job = j /\ Return(s) /\ Update(j, object) /\ submitted' = submitted
    BY <1>2 DEF RejectUnknown, Fail
  <2> HIDE DEF object
  <2> QED BY <2>1, <2>2, Ended
<1>3. CASE DropCancelled(s, j)
  <2>1. /\ slot[s].job = j /\ Return(s) /\ job' = job /\ jobs' = jobs /\ ready' = ready
        /\ submitted' = submitted /\ job[j].status = "cancelled"
    BY <1>3 DEF DropCancelled
  <2>2. TypeOK'
    BY <2>1, ReturnFrees DEF MemInv, TypeOK
  <2>3. JobInv(j)'
    BY <2>1, ReturnFrees, Freed DEF RUNNABLE
  <2>4. ASSUME NEW k \in Job \ {j} PROVE JobInv(k)'
    <3>1. Kept(k)
      BY <2>1, ReturnFrees DEF Kept
    <3> QED BY <3>1, <2>1, Frame DEF MemInv
  <2> QED BY <2>1, <2>2, <2>3, <2>4, ReturnFrees DEF MemInv
<1>4. CASE MoveToDLQ(s, j)
  <2> DEFINE object == [job[j] EXCEPT !.status = "dead", !.queue = "dlq"]
  <2>1. object \in Record /\ object.status \in {"failed", "dead"}
    BY <1>1, ObjectType
  <2>2. slot[s].job = j /\ Return(s) /\ Update(j, object) /\ submitted' = submitted
    BY <1>4 DEF MoveToDLQ
  <2> HIDE DEF object
  <2> QED BY <2>1, <2>2, Ended
<1> QED BY <1>2, <1>3, <1>4, StartKeeps, SucceedKeeps, RetryKeeps DEF Work

LEMMA EnqueueKeeps ==
  ASSUME MemInv, NEW batch \in SUBSET Job, Enqueue(batch)
  PROVE  MemInv'
<1>1. TypeOK /\ slot' = slot /\ submitted' = submitted \cup batch /\ jobs' = jobs \cup batch
      /\ batch \cap submitted = {}
  BY DEF MemInv, Enqueue
<1>2. PICK runs \in SUBSET batch : runs = {j \in batch : AllDepsCompleted(j)}
  OBVIOUS
<1>3. PICK due \in BOOLEAN :
         job' = [j \in Job |-> IF j \in runs THEN Fresh(due)
                               ELSE IF j \in batch THEN [Fresh(due) EXCEPT !.status = "waiting"]
                               ELSE job[j]]
  BY <1>2 DEF Enqueue
<1>4. PICK new, waits \in Record :
         /\ new = Fresh(due) /\ new.status = "pending" /\ new.queue = "home"
         /\ waits = [Fresh(due) EXCEPT !.status = "waiting"] /\ waits.status = "waiting"
  <2>1. PICK new \in Record : new = Fresh(due) /\ new.status = "pending" /\ new.queue = "home"
    BY NewType
  <2>2. "waiting" \in JobStatus
    BY DEF JobStatus
  <2>3. PICK st \in JobStatus : st = "waiting"
    BY <2>2
  <2>4. PICK waits \in Record : waits = [new EXCEPT !.status = st] /\ waits.status = st
    BY ObjectType
  <2> QED BY <2>1, <2>3, <2>4
<1>5. /\ job' \in [Job -> Record]
      /\ \A k \in Job : job'[k] = IF k \in runs THEN new
                                  ELSE IF k \in batch THEN waits ELSE job[k]
  BY <1>1, <1>3, <1>4 DEF TypeOK
<1>6. /\ ready' \in [Queue -> SUBSET Job]
      /\ \A q \in Queue, k \in Job :
            k \in ready'[q] <=> k \in ready[q] \/ (q = "home" /\ k \in runs)
  <2>1. ready' = [ready EXCEPT !["home"] = ready["home"] \cup runs]
    BY <1>2 DEF Enqueue
  <2> QED BY <2>1, <1>1, <1>2 DEF TypeOK, Queue
<1>7. TypeOK'
  BY <1>1, <1>5, <1>6 DEF TypeOK
<1>8. ASSUME NEW k \in batch PROVE JobInv(k)'
  <2>1. k \notin jobs /\ k \notin submitted /\ k \in Job
    BY <1>1 DEF TypeOK
  <2>2. Free(k) /\ \A q \in Queue : k \notin ready[q]
    BY <2>1 DEF MemInv, JobInv, Listed, Free
  <2>3. Free(k)' /\ k \in jobs'
    BY <2>2, <1>1 DEF Free
  <2> QED BY <2>1, <2>2, <2>3, <1>4, <1>5, <1>6, Freed DEF RUNNABLE
<1>9. ASSUME NEW k \in Job \ batch PROVE Kept(k)
  BY <1>1, <1>2, <1>5, <1>6 DEF Kept
<1> QED BY <1>1, <1>7, <1>8, <1>9, ClientStep

LEMMA CancelKeeps ==
  ASSUME MemInv, NEW j \in Job, CancelJob(j)
  PROVE  MemInv'
<1> DEFINE object == [job[j] EXCEPT !.status = "cancelled"]
<1>1. TypeOK /\ slot' = slot /\ submitted' = submitted /\ jobs' = jobs
      /\ j \in jobs /\ job[j].status \in CANCELLABLE_STATUSES /\ job[j].queue \in Queue
  BY DEF MemInv, TypeOK, CancelJob, Cancellable, Record
<1>2. object \in Record /\ object.status = "cancelled"
  BY <1>1, ObjectType DEF TypeOK, JobStatus
<1>3. job' = [job EXCEPT ![j] = object]
      /\ ready' = [ready EXCEPT ![job[j].queue] = ready[job[j].queue] \ {j}]
  BY <1>1 DEF CancelJob, TypeOK
<1> HIDE DEF object
<1>4. /\ job' \in [Job -> Record] /\ job'[j].status = "cancelled"
      /\ \A k \in Job \ {j} : job'[k] = job[k]
      /\ ready' \in [Queue -> SUBSET Job]
      /\ \A k \in Job, q \in Queue :
            k \in ready'[q] <=> k \in ready[q] /\ (k = j => q # job[j].queue)
  BY <1>1, <1>2, <1>3 DEF TypeOK
<1>5. TypeOK'
  BY <1>1, <1>4 DEF TypeOK
<1>6. JobInv(j)'
  <2>1. \A q \in Queue : j \notin ready'[q]
    BY <1>4 DEF MemInv, JobInv, Listed
  <2>2. \A s \in Slot : slot[s].job = j => slot[s].pc = "claimed" /\ j \in submitted
    BY <1>1 DEF MemInv, JobInv, CANCELLABLE_STATUSES
  <2>3. Listed(j)'
    BY <2>1, <1>4 DEF Listed, RUNNABLE
  <2> QED BY <2>2, <2>3, <1>1, <1>4 DEF MemInv, JobInv
<1>7. ASSUME NEW k \in Job \ {j} PROVE Kept(k)
  BY <1>1, <1>4 DEF Kept
<1> QED BY <1>1, <1>5, <1>6, <1>7, ClientStep

\* A finished job that is made pending has no slot and is on no list.
LEMMA Finished ==
  ASSUME MemInv, NEW j \in Job, j \in jobs, job[j].status \in {"failed", "dead"}
  PROVE  Free(j) /\ \A q \in Queue : j \notin ready[q]
BY DEF MemInv, JobInv, Listed, Free, RUNNABLE

LEMMA RetryJobKeeps ==
  ASSUME MemInv, NoCancelledRetry, NEW j \in Job, RetryJob(j)
  PROVE  MemInv'
<1>1. TypeOK /\ slot' = slot /\ submitted' = submitted /\ jobs' = jobs
      /\ j \in jobs /\ job[j].status = "failed" /\ job[j].queue \in Queue
  BY DEF MemInv, TypeOK, RetryJob, Record, NoCancelledRetry, RETRIABLE_STATUSES
<1>2. PICK object \in Record : /\ object = Reset(job[j]) /\ object.status = "pending"
                               /\ object.queue = job[j].queue
  BY <1>1, ObjectType DEF TypeOK, Reset
<1>3. job' = [job EXCEPT ![j] = object]
      /\ ready' = [ready EXCEPT ![job[j].queue] = ready[job[j].queue] \cup {j}]
  BY <1>2 DEF RetryJob
<1>4. /\ job' \in [Job -> Record] /\ job'[j] = object /\ \A k \in Job \ {j} : job'[k] = job[k]
      /\ ready' \in [Queue -> SUBSET Job]
      /\ \A k \in Job, q \in Queue :
            k \in ready'[q] <=> k \in ready[q] \/ (k = j /\ q = job[j].queue)
  BY <1>1, <1>2, <1>3 DEF TypeOK
<1>5. TypeOK'
  BY <1>1, <1>4 DEF TypeOK
<1>6. JobInv(j)'
  <2>1. Free(j)' /\ \A q \in Queue : j \notin ready[q]
    BY <1>1, Finished DEF Free
  <2> QED BY <2>1, <1>1, <1>2, <1>4, Freed DEF RUNNABLE
<1>7. ASSUME NEW k \in Job \ {j} PROVE Kept(k)
  BY <1>1, <1>4 DEF Kept
<1> QED BY <1>1, <1>5, <1>6, <1>7, ClientStep

LEMMA ReplayKeeps ==
  ASSUME MemInv, NEW j \in Job, ReplayDeadJob(j)
  PROVE  MemInv'
<1>1. TypeOK /\ slot' = slot /\ submitted' = submitted
      /\ j \in jobs /\ job[j].status = "dead" /\ job[j] \in Record
  BY DEF MemInv, TypeOK, ReplayDeadJob
<1>2. PICK object \in Record : object = Reset(job[j]) /\ object.status = "pending"
  BY <1>1, ObjectType DEF Reset
<1>3. Put(j, object)
  BY <1>2 DEF ReplayDeadJob
<1>4. /\ job' \in [Job -> Record] /\ jobs' = jobs \cup {j} /\ ready' \in [Queue -> SUBSET Job]
      /\ \A k \in Job \ {j} : /\ job'[k] = job[k]
                              /\ \A q \in Queue : k \in ready'[q] <=> k \in ready[q]
  BY <1>1, <1>3, PutType
<1>5. TypeOK'
  BY <1>1, <1>4 DEF TypeOK
<1>6. JobInv(j)'
  <2>1. Free(j)' /\ \A q \in Queue : j \notin ready[q]
    BY <1>1, Finished DEF Free
  <2> QED BY <2>1, <1>2, <1>3, Stored DEF RUNNABLE
<1>7. ASSUME NEW k \in Job \ {j} PROVE Kept(k)
  BY <1>1, <1>4 DEF Kept
<1> QED BY <1>1, <1>5, <1>6, <1>7, ClientStep

LEMMA PurgeKeeps ==
  ASSUME MemInv, NEW old \in SUBSET Job, Purge(old)
  PROVE  MemInv'
<1>1. TypeOK /\ slot' = slot /\ submitted' = submitted /\ job' = job /\ jobs' = jobs \ old
      /\ \A k \in old : job[k].status \in TERMINAL_STATUSES
  BY DEF MemInv, Purge
<1>2. /\ ready' \in [Queue -> SUBSET Job]
      /\ \A q \in Queue, k \in Job :
            k \in ready'[q] <=> k \in ready[q] /\ ~(k \in old /\ job[k].queue = q)
  BY <1>1 DEF Purge, TypeOK
<1>3. TypeOK'
  BY <1>1, <1>2 DEF TypeOK
<1>4. ASSUME NEW k \in old PROVE JobInv(k)'
  <2>1. k \notin jobs' /\ \A q \in Queue : k \notin ready'[q]
    BY <1>1, <1>2 DEF MemInv, JobInv, Listed, TERMINAL_STATUSES, RUNNABLE
  <2>2. \A s \in Slot : slot[s].job = k => slot[s].pc = "claimed" /\ k \in submitted
                           /\ job[k].status = "cancelled"
    BY <1>1 DEF MemInv, JobInv, TERMINAL_STATUSES
  <2>3. Listed(k)'
    BY <2>1 DEF Listed
  <2> QED BY <2>1, <2>2, <2>3, <1>1 DEF MemInv, JobInv
<1>5. ASSUME NEW k \in Job \ old PROVE Kept(k)
  BY <1>1, <1>2 DEF Kept
<1> QED BY <1>1, <1>3, <1>4, <1>5, ClientStep

LEMMA RunAtKeeps ==
  ASSUME MemInv, NEW j \in Job, RunAtPasses(j)
  PROVE  MemInv'
<1>1. job' \in [Job -> Record] /\ \A k \in Job : /\ job'[k].status = job[k].status
                                                 /\ job'[k].queue = job[k].queue
  BY DEF MemInv, TypeOK, RunAtPasses, Record
<1>2. jobs' = jobs /\ ready' = ready /\ slot' = slot /\ submitted' = submitted
  BY DEF RunAtPasses
<1>3. TypeOK' /\ \A k \in Job : Kept(k)
  BY <1>1, <1>2 DEF MemInv, TypeOK, Kept
<1> QED BY <1>2, <1>3, ClientStep

LEMMA MemStep == MemInv /\ NoCancelledRetry /\ [Next]_vars => MemInv'
<1> SUFFICES ASSUME MemInv, NoCancelledRetry, [Next]_vars PROVE MemInv'
  OBVIOUS
<1>1. CASE UNCHANGED vars
  <2>1. TypeOK' /\ slot' = slot /\ submitted' = submitted /\ \A k \in Job : Kept(k)
    BY <1>1 DEF vars, MemInv, TypeOK, Kept
  <2> QED BY <2>1, ClientStep
<1>2. ASSUME Call PROVE MemInv'
  BY <1>2, EnqueueKeeps, CancelKeeps, RetryJobKeeps, ReplayKeeps, PurgeKeeps DEF Call, Purge, MemInv, TypeOK
<1> QED BY <1>1, <1>2, ClaimKeeps, WorkKeeps, RunAtKeeps DEF Next

-----------------------------------------------------------------------------
(* The theorems.                                                            *)

\* What the invariant says of the properties that the runs check.
LEMMA MemImplies ==
  MemInv => TypeOK /\ ExclusiveClaim /\ ExecutingIsRunning /\ ReadyMatches /\ NoOrphan
<1> SUFFICES ASSUME MemInv
             PROVE  TypeOK /\ ExclusiveClaim /\ ExecutingIsRunning /\ ReadyMatches /\ NoOrphan
  OBVIOUS
<1>1. \A s \in Slot : slot[s].pc # "idle" => slot[s].job \in Job
  BY DEF MemInv, TypeOK, SlotState
<1>2. ExclusiveClaim
  BY <1>1 DEF ExclusiveClaim, MemInv, JobInv
<1>3. ExecutingIsRunning
  BY <1>1 DEF ExecutingIsRunning, MemInv, JobInv
<1>4. ReadyMatches
  BY DEF ReadyMatches, MemInv, JobInv, Listed, Free
<1>5. NoOrphan
  <2> SUFFICES ASSUME NEW j \in jobs, job[j].status = "running"
               PROVE  \E s \in Slot : slot[s] = [pc |-> "invoke", job |-> j]
    BY DEF NoOrphan
  <2>1. j \in Job
    BY DEF MemInv, TypeOK
  <2>2. PICK s \in Slot : slot[s].job = j
    BY <2>1 DEF MemInv, JobInv, Free
  <2>3. slot[s].pc = "invoke" /\ slot[s] \in SlotState
    BY <2>1, <2>2 DEF MemInv, JobInv, TypeOK
  <2> QED BY <2>2, <2>3 DEF SlotState
<1> QED BY <1>2, <1>3, <1>4, <1>5 DEF MemInv

\* The dictionaries of MemoryBroker and the worker's slots keep their types.
THEOREM MemTyping == NoCancelledRetry => (Spec => []TypeOK)
<1> SUFFICES ASSUME NoCancelledRetry PROVE Spec => []TypeOK
  OBVIOUS
<1>1. MemInv /\ [Next]_vars => MemInv'
  BY MemStep
<1> QED BY MemInit, <1>1, MemImplies, PTL DEF Spec

\* No two slots are given the same job, and nobody changes the status of a
\* running one (MemoryBroker.dequeue, cancel_job, retry_job, purge).
THEOREM MemExclusive ==
  NoCancelledRetry => (Spec => [](ExclusiveClaim /\ ExecutingIsRunning))
<1> SUFFICES ASSUME NoCancelledRetry
             PROVE  Spec => [](ExclusiveClaim /\ ExecutingIsRunning)
  OBVIOUS
<1>1. MemInv /\ [Next]_vars => MemInv'
  BY MemStep
<1> QED BY MemInit, <1>1, MemImplies, PTL DEF Spec

\* The lists hold exactly the runnable jobs that no slot has, and no job is
\* running without a task (MemoryBroker._make_ready and its callers).
THEOREM MemNothingForgotten == NoCancelledRetry => (Spec => [](ReadyMatches /\ NoOrphan))
<1> SUFFICES ASSUME NoCancelledRetry PROVE Spec => [](ReadyMatches /\ NoOrphan)
  OBVIOUS
<1>1. MemInv /\ [Next]_vars => MemInv'
  BY MemStep
<1> QED BY MemInit, <1>1, MemImplies, PTL DEF Spec

-----------------------------------------------------------------------------
(* The refinement: every step is, to each job, a step of JobLifecycle.      *)

\* The abstract state of job j, as Life(j) has it.
Status(j) == IF j \in jobs THEN job[j].status ELSE "absent"
Executors(j) == {s \in Slot : slot[s] = [pc |-> "invoke", job |-> j]}

\* A job is attempted as often as max_retries allows, and no more.
Bounded == \A j \in Job : job[j].retries <= MaxRetries[j]

\* An attempt is alive exactly while the job is stored as running.
AliveIsRunning == \A j \in Job : Executors(j) = {} <=> Status(j) # "running"

LEMMA Alive == MemInv => AliveIsRunning
<1> SUFFICES ASSUME MemInv, NEW j \in Job
             PROVE  Executors(j) = {} <=> Status(j) # "running"
  BY DEF AliveIsRunning
<1>1. ASSUME NEW s \in Executors(j) PROVE Status(j) = "running"
  <2>1. s \in Slot /\ slot[s].job = j /\ slot[s].pc = "invoke"
    BY DEF Executors
  <2> QED BY <2>1 DEF MemInv, JobInv, Status
<1>2. ASSUME Status(j) = "running" PROVE Executors(j) # {}
  <2>1. NoOrphan /\ j \in jobs /\ job[j].status = "running"
    BY <1>2, MemImplies DEF Status
  <2> QED BY <2>1 DEF NoOrphan, Executors
<1> QED BY <1>1, <1>2

LEMMA AliveNext == MemInv' => AliveIsRunning'
BY Alive, PTL

\* A step that changes no slot with the job in its function keeps its executors.
LEMMA SameExecutors ==
  ASSUME NEW j \in Job,
         \A s \in Slot : slot'[s] = slot[s]
                         \/ (slot[s].pc # "invoke" /\ slot'[s].pc # "invoke")
                         \/ (slot[s].job # j /\ slot'[s].job # j)
  PROVE  Executors(j)' = Executors(j)
<1>1. ASSUME NEW s \in Slot PROVE s \in Executors(j)' <=> s \in Executors(j)
  BY DEF Executors
<1> QED BY <1>1 DEF Executors

\* The steps of Life(j), in terms of its abstract state.
LEMMA LifeStutters ==
  ASSUME NEW j \in Job, Status(j)' = Status(j), job'[j].retries = job[j].retries,
         Executors(j)' = Executors(j)
  PROVE  UNCHANGED Life(j)!vars
BY DEF Life!vars, Status, Executors

LEMMA LifeMoves ==
  ASSUME NEW j \in Job, Executors(j)' = Executors(j),
         LET st == Status(j)  st2 == Status(j)'  r == job[j].retries  r2 == job'[j].retries
         IN  \/ st = "absent" /\ st2 \in {"pending", "waiting"} /\ r2 = 0
             \/ st = "waiting" /\ st2 = "pending" /\ r2 = r
             \/ st \in CANCELLABLE_STATUSES /\ st2 = "cancelled" /\ r2 = r
             \/ /\ st \in {"failed", "dead"} /\ st2 \in {"pending", "waiting"} /\ r2 = 0
                /\ Executors(j) = {}
             \/ st \in TERMINAL_STATUSES /\ st2 = "absent" /\ r2 = r
  PROVE  Life(j)!Next
<1>1. Life(j)!Submit \/ Life(j)!Release \/ Life(j)!Cancel \/ Life(j)!Requeue \/ Life(j)!Purge
  BY DEF Life!Submit, Life!Release, Life!Cancel, Life!Requeue, Life!Purge, Status, Executors,
     CANCELLABLE_STATUSES, TERMINAL_STATUSES, Life!CANCELLABLE_STATUSES, Life!TERMINAL_STATUSES
<1> QED BY <1>1 DEF Life!Next

LEMMA LifeEnds ==
  ASSUME NEW j \in Job, Executors(j)' = {}, Status(j) = "running", Executors(j) # {},
         LET st2 == Status(j)'  r == job[j].retries  r2 == job'[j].retries
         IN  \/ st2 = "completed" /\ r2 = r
             \/ st2 \in {"retrying", "waiting"} /\ r < MaxRetries[j] /\ r2 = r + 1
             \/ /\ st2 = IF j \in DeadLettered THEN "dead" ELSE "failed"
                /\ r = MaxRetries[j] /\ r2 = r
  PROVE  Life(j)!Next
<1>1. Life(j)!Complete \/ Life(j)!Retry \/ Life(j)!GiveUp
  BY DEF Life!Complete, Life!Retry, Life!GiveUp, Status, Executors
<1> QED BY <1>1 DEF Life!Next

LEMMA LifeInit == ASSUME Init, NEW j \in Job PROVE Life(j)!Init
<1>1. \A s \in Slot : slot[s].pc = "idle"
  BY DEF Init, Idle
<1>2. \A s \in Slot : slot[s] # [pc |-> "invoke", job |-> j]
  BY <1>1
<1> QED BY <1>2 DEF Init, Life!Init, Absent


\* What a step of the broker is to job k: a step of its life, or nothing.
LifeStep(k) == [Life(k)!Next]_(Life(k)!vars) /\ job'[k].retries <= MaxRetries[k]

\* The step changes neither the job nor who executes it.
LEMMA Aside ==
  ASSUME Bounded, NEW k \in Job, k \in jobs' <=> k \in jobs,
         job'[k].status = job[k].status, job'[k].retries = job[k].retries,
         \A s \in Slot : slot'[s] = slot[s]
                         \/ (slot[s].pc # "invoke" /\ slot'[s].pc # "invoke")
                         \/ (slot[s].job # k /\ slot'[s].job # k)
  PROVE  LifeStep(k)
<1>1. Status(k)' = Status(k)
  BY DEF Status
<1>2. Executors(k)' = Executors(k)
  BY SameExecutors
<1> QED BY <1>1, <1>2, LifeStutters DEF LifeStep, Bounded

\* A slot's step on job j leaves the other jobs aside.
LEMMA OthersAside ==
  ASSUME MemInv, Bounded, NEW s \in Slot, NEW j \in Job, slot[s].job = j, 
         slot'[s].job \in {j, None}, \A t \in Slot \ {s} : slot'[t] = slot[t],
         NEW k \in Job \ {j}, k \in jobs' <=> k \in jobs, job'[k] = job[k]
  PROVE  LifeStep(k)
<1>1. \A t \in Slot : slot'[t] = slot[t] \/ (slot[t].job # k /\ slot'[t].job # k)
  BY NoneAssumption
<1> QED BY <1>1, Aside

\* ... and the attempt's end is a step of the life of j.
LEMMA EndsHere ==
  ASSUME MemInv, MemInv', Bounded, NEW s \in Slot, NEW j \in Job, slot[s] = [pc |-> "invoke", job |-> j],
         j \in jobs', 
         LET st2 == job'[j].status  r == job[j].retries  r2 == job'[j].retries
         IN  \/ st2 = "completed" /\ r2 = r
             \/ st2 \in {"retrying", "waiting"} /\ CanRetry(j) /\ r2 = r + 1
             \/ /\ st2 = IF j \in DeadLettered THEN "dead" ELSE "failed"
                /\ ~CanRetry(j) /\ r2 = r
  PROVE  LifeStep(j)
<1>1. job[j].retries \in Nat /\ MaxRetries[j] \in Nat /\ job[j].retries <= MaxRetries[j]
  BY MaxRetriesAssumption DEF MemInv, TypeOK, Record, Bounded
<1>2. Executors(j) # {} /\ Status(j) = "running"
  BY Alive DEF AliveIsRunning, Executors
<1>3. Status(j)' = job'[j].status /\ Status(j)' # "running"
  BY DEF Status
<1>4. Executors(j)' = {}
  BY <1>3, AliveNext DEF AliveIsRunning
<1>5. Life(j)!Next
  BY <1>1, <1>2, <1>3, <1>4, LifeEnds DEF CanRetry
<1>6. job'[j].retries <= MaxRetries[j]
  BY <1>1 DEF CanRetry
<1> QED BY <1>5, <1>6 DEF LifeStep

\* A client's step on job j.
LEMMA MovesHere ==
  ASSUME MemInv, Bounded, slot' = slot, NEW j \in Job,
         LET st == Status(j)  st2 == Status(j)'  r == job[j].retries  r2 == job'[j].retries
         IN  \/ st = "absent" /\ st2 \in {"pending", "waiting"} /\ r2 = 0
             \/ st \in CANCELLABLE_STATUSES /\ st2 = "cancelled" /\ r2 = r
             \/ st \in {"failed", "dead"} /\ st2 \in {"pending", "waiting"} /\ r2 = 0
             \/ st \in TERMINAL_STATUSES /\ st2 = "absent" /\ r2 = r
  PROVE  LifeStep(j)
<1>1. Executors(j)' = Executors(j)
  BY DEF Executors
<1>2. Status(j) \in {"failed", "dead"} => Executors(j) = {}
  BY Alive DEF AliveIsRunning
<1>3. Life(j)!Next
  BY <1>1, <1>2, LifeMoves
<1>4. MaxRetries[j] \in Nat /\ job[j].retries <= MaxRetries[j]
  BY MaxRetriesAssumption DEF Bounded
<1> QED BY <1>3, <1>4 DEF LifeStep

\* enqueue keeps the attempts that the object has counted.
LEMMA PutObject ==
  ASSUME TypeOK, NEW j \in Job, NEW object \in Record, Put(j, object)
  PROVE  job'[j].status \in {object.status, "waiting"} /\ job'[j].retries = object.retries
<1>1. [object EXCEPT !.status = "waiting"].status = "waiting"
      /\ [object EXCEPT !.status = "waiting"].retries = object.retries
  BY DEF Record
<1> QED BY <1>1 DEF Put, TypeOK

LEMMA ClaimLives ==
  ASSUME MemInv, Bounded, NEW s \in Slot, NEW j \in Job, NEW q \in Queue, Claim(s, j, q),
         NEW k \in Job
  PROVE  LifeStep(k)
<1>1. \A t \in Slot : slot'[t] = slot[t] \/ (slot[t].pc # "invoke" /\ slot'[t].pc # "invoke")
  <2>1. slot[s].pc = "idle" /\ \/ slot' = slot
                               \/ slot' = [slot EXCEPT ![s] = [pc |-> "claimed", job |-> j]]
    BY DEF Claim
  <2> QED BY <2>1 DEF MemInv, TypeOK
<1>2. job' = job /\ jobs' = jobs
  BY DEF Claim
<1> QED BY <1>1, <1>2, Aside

LEMMA StartLives ==
  ASSUME MemInv, Bounded, NEW s \in Slot, NEW j \in Job, Start(s, j), NEW k \in Job
  PROVE  LifeStep(k)
<1> DEFINE object == [job[j] EXCEPT !.status = "running"]
<1>1. TypeOK /\ slot[s] = [pc |-> "claimed", job |-> j] /\ job[j] \in Record
  BY DEF MemInv, TypeOK, Start
<1>2. object \in Record /\ object.status = "running" /\ object.retries = job[j].retries
  BY <1>1 DEF Record, JobStatus
<1>3. Update(j, object)
  BY DEF Start
<1> HIDE DEF object
<1>4. /\ jobs' = jobs \cup {j} /\ job'[j] = object /\ \A i \in Job \ {j} : job'[i] = job[i]
  BY <1>1, <1>2, <1>3, UpdateType
<1>5. slot'[s] = [pc |-> "invoke", job |-> j] /\ \A t \in Slot \ {s} : slot'[t] = slot[t]
  BY <1>1 DEF Start, TypeOK
<1>6. CASE k # j
  BY <1>1, <1>4, <1>5, <1>6, OthersAside
<1>7. CASE k = j
  <2>1. Status(j) \in RUNNABLE \cup {"absent"} /\ Status(j)' = "running"
    BY <1>1, <1>2, <1>4 DEF Status, MemInv, JobInv, Start, RUNNABLE
  <2>2. Executors(j) = {}
    BY <2>1, Alive DEF AliveIsRunning, RUNNABLE
  <2>3. Executors(j)' = {s}
    <3>1. \A t \in Slot \ {s} : slot'[t] # [pc |-> "invoke", job |-> j]
      BY <2>2, <1>5 DEF Executors
    <3> QED BY <3>1, <1>5 DEF Executors
  <2>4. Life(j)!Take(s)
    BY <2>1, <2>2, <2>3, <1>2, <1>4 DEF Life!Take, Status, Executors
  <2> QED BY <2>4, <1>2, <1>4, <1>7 DEF Life!Next, LifeStep, Bounded
<1> QED BY <1>6, <1>7

LEMMA SucceedLives ==
  ASSUME MemInv, MemInv', Bounded, NEW s \in Slot, NEW j \in Job, Succeed(s, j), NEW k \in Job
  PROVE  LifeStep(k)
<1>1. TypeOK /\ slot[s] = [pc |-> "invoke", job |-> j] /\ Return(s) /\ jobs' = jobs \cup {j}
      /\ slot[s].job = j /\ j \in jobs /\ job[j].status = "running"
  BY DEF MemInv, JobInv, Succeed
<1>r. \A i \in Released(j) : i \in jobs /\ i # j /\ job[i].status = "waiting"
  BY DEF Released
<1>2. PICK released \in SUBSET jobs : /\ released = Released(j) /\ j \notin released
                                      /\ \A i \in released : job[i].status = "waiting"
  BY <1>r
<1>3. job'[k] = IF k = j THEN [job[k] EXCEPT !.status = "completed"]
                ELSE IF k \in released THEN [job[k] EXCEPT !.status = "pending"] ELSE job[k]
  BY <1>2 DEF Succeed
<1>4. job[k] \in Record
  BY <1>1 DEF TypeOK
<1>5. \A t \in Slot \ {s} : slot'[t] = slot[t]
  BY <1>1 DEF Return, TypeOK
<1>6. slot'[s].job = None
  BY <1>1 DEF Return, TypeOK, Idle
<1>7. CASE k = j
  <2>1. job'[k].status = "completed" /\ job'[k].retries = job[k].retries
    BY <1>3, <1>4, <1>7 DEF Record
  <2> QED BY <2>1, <1>1, <1>7, EndsHere
<1>8. CASE k \in released
  <2>1. Status(k) = "waiting" /\ Status(k)' = "pending" /\ job'[k].retries = job[k].retries
    BY <1>1, <1>2, <1>3, <1>4, <1>8 DEF Record, Status
  <2>a. \A t \in Slot : slot'[t] = slot[t] \/ (slot[t].job # k /\ slot'[t].job # k)
    BY <1>1, <1>2, <1>5, <1>6, <1>8, NoneAssumption
  <2>2. Executors(k)' = Executors(k)
    BY <2>a, SameExecutors
  <2> QED BY <2>1, <2>2, LifeMoves DEF LifeStep, Bounded
<1>9. CASE k \notin released \cup {j}
  BY <1>1, <1>2, <1>3, <1>5, <1>6, <1>9, OthersAside
<1> QED BY <1>7, <1>8, <1>9

\* The objects that the last outcomes are stored as.
LEMMA EndedType ==
  ASSUME NEW object \in Record
  PROVE  /\ \E failed \in Record : /\ failed = [object EXCEPT !.status = "failed"]
                                   /\ failed.status = "failed"
                                   /\ failed.retries = object.retries
         /\ \E dead \in Record : /\ dead = [object EXCEPT !.status = "dead", !.queue = "dlq"]
                                 /\ dead.status = "dead" /\ dead.retries = object.retries
<1>1. /\ [object EXCEPT !.status = "failed"] \in Record
      /\ [object EXCEPT !.status = "failed"].status = "failed"
      /\ [object EXCEPT !.status = "failed"].retries = object.retries
  BY DEF Record, JobStatus
<1>2. /\ [object EXCEPT !.status = "dead", !.queue = "dlq"] \in Record
      /\ [object EXCEPT !.status = "dead", !.queue = "dlq"].status = "dead"
      /\ [object EXCEPT !.status = "dead", !.queue = "dlq"].retries = object.retries
  BY DEF Record, JobStatus, Queue
<1> QED BY <1>1, <1>2

\* What update_job with an outcome does to the rest of the system.
LEMMA OutcomeLives ==
  ASSUME MemInv, MemInv', Bounded, NEW s \in Slot, NEW j \in Job,
         slot[s] = [pc |-> "invoke", job |-> j], ~CanRetry(j), Return(s),
         NEW object \in Record, object.retries = job[j].retries,
         object.status = IF j \in DeadLettered THEN "dead" ELSE "failed",
         Update(j, object), NEW k \in Job
  PROVE  LifeStep(k)
<1>1. TypeOK /\ slot[s].job = j
  BY DEF MemInv
<1>2. jobs' = jobs \cup {j} /\ job'[j] = object /\ \A i \in Job \ {j} : job'[i] = job[i]
  BY <1>1, UpdateType
<1>3. slot'[s].job = None /\ \A t \in Slot \ {s} : slot'[t] = slot[t]
  BY <1>1 DEF Return, TypeOK, Idle
<1>4. CASE k # j
  BY <1>1, <1>2, <1>3, <1>4, OthersAside
<1>5. CASE k = j
  BY <1>2, <1>5, EndsHere
<1> QED BY <1>4, <1>5

LEMMA RetryLives ==
  ASSUME MemInv, MemInv', Bounded, NEW s \in Slot, NEW j \in Job, ScheduleRetry(s, j), NEW k \in Job
  PROVE  LifeStep(k)
<1>1. TypeOK /\ slot[s] = [pc |-> "invoke", job |-> j] /\ slot[s].job = j /\ job[j] \in Record
      /\ CanRetry(j)
  BY DEF MemInv, TypeOK, ScheduleRetry
<1>2. PICK due \in BOOLEAN : Put(j, Retrying(job[j], due))
  BY DEF ScheduleRetry
<1>3. PICK object \in Record : /\ object = Retrying(job[j], due) /\ object.status = "retrying"
                               /\ object.retries = job[j].retries + 1
  <2>1. Retrying(job[j], due) \in Record
    BY <1>1, ObjectType
  <2>2. /\ Retrying(job[j], due).status = "retrying"
        /\ Retrying(job[j], due).retries = job[j].retries + 1
    BY DEF Retrying
  <2> QED BY <2>1, <2>2
<1>4. Put(j, object)
  BY <1>2, <1>3
<1>5. jobs' = jobs \cup {j} /\ \A i \in Job \ {j} : job'[i] = job[i]
  BY <1>1, <1>4, PutType
<1>6. job'[j].status \in {"retrying", "waiting"} /\ job'[j].retries = job[j].retries + 1
  BY <1>1, <1>3, <1>4, PutObject
<1>7. slot'[s].job = None /\ \A t \in Slot \ {s} : slot'[t] = slot[t]
  BY <1>1 DEF ScheduleRetry, Return, TypeOK, Idle
<1>8. CASE k # j
  BY <1>1, <1>5, <1>7, <1>8, OthersAside
<1>9. CASE k = j
  BY <1>1, <1>5, <1>6, <1>9, EndsHere
<1> QED BY <1>8, <1>9

LEMMA WorkLives ==
  ASSUME MemInv, MemInv', Bounded, NEW s \in Slot, NEW j \in Job, Work(s, j), NEW k \in Job
  PROVE  LifeStep(k)
<1>1. TypeOK /\ job[j] \in Record
  BY DEF MemInv, TypeOK
<1>2. CASE RejectUnknown(s, j)
  <2>1. /\ slot[s] = [pc |-> "claimed", job |-> j] /\ slot[s].job = j /\ j \in Unknown
        /\ Update(j, [job[j] EXCEPT !.status = "failed"])
    BY <1>2 DEF RejectUnknown
  <2>2. slot'[s].job = None /\ \A t \in Slot \ {s} : slot'[t] = slot[t]
    BY <1>1, <1>2 DEF RejectUnknown, Return, TypeOK, Idle
  <2>3. PICK object \in Record : /\ object = [job[j] EXCEPT !.status = "failed"]
                                 /\ object.status = "failed" /\ object.retries = job[j].retries
    BY <1>1, EndedType
  <2>4. jobs' = jobs \cup {j} /\ job'[j] = object /\ \A i \in Job \ {j} : job'[i] = job[i]
    BY <1>1, <2>1, <2>3, UpdateType
  <2>5. CASE k # j
    BY <2>1, <2>2, <2>4, <2>5, OthersAside
  <2>6. CASE k = j
    <3>1. Status(j)' = "failed" /\ job'[j].retries = job[j].retries
      BY <2>3, <2>4 DEF Status
    <3>2. Executors(j)' = {}
      BY <3>1, AliveNext DEF AliveIsRunning
    <3>3. Life(j)!Reject
      BY <2>1, <3>1, <3>2 DEF Life!Reject, Status, Executors
    <3> QED BY <2>6, <3>1, <3>3 DEF Life!Next, LifeStep, Bounded
  <2> QED BY <2>5, <2>6
<1>3. CASE DropCancelled(s, j)
  <2>1. job' = job /\ jobs' = jobs /\ slot[s].pc = "claimed"
    BY <1>3 DEF DropCancelled
  <2>2. slot'[s].pc = "idle" /\ \A t \in Slot \ {s} : slot'[t] = slot[t]
    BY <1>1, <1>3 DEF DropCancelled, Return, TypeOK, Idle
  <2>3. \A t \in Slot : slot'[t] = slot[t] \/ (slot[t].pc # "invoke" /\ slot'[t].pc # "invoke")
    BY <2>1, <2>2
  <2> QED BY <2>1, <2>3, Aside
<1>4. CASE MoveToDLQ(s, j)
  <2>1. PICK object \in Record : /\ object = [job[j] EXCEPT !.status = "dead", !.queue = "dlq"]
                                 /\ object.status = "dead" /\ object.retries = job[j].retries
    BY <1>1, EndedType
  <2>2. /\ slot[s] = [pc |-> "invoke", job |-> j] /\ ~CanRetry(j) /\ Return(s)
        /\ Update(j, object) /\ j \in DeadLettered
    BY <1>4, <2>1 DEF MoveToDLQ
  <2> QED BY <2>1, <2>2, OutcomeLives
<1>5. CASE Fail(s, j)
  <2>1. PICK object \in Record : /\ object = [job[j] EXCEPT !.status = "failed"]
                                 /\ object.status = "failed" /\ object.retries = job[j].retries
    BY <1>1, EndedType
  <2>2. /\ slot[s] = [pc |-> "invoke", job |-> j] /\ ~CanRetry(j) /\ Return(s)
        /\ Update(j, object) /\ j \notin DeadLettered
    BY <1>5, <2>1 DEF Fail
  <2> QED BY <2>1, <2>2, OutcomeLives
<1> QED BY <1>2, <1>3, <1>4, <1>5, StartLives, SucceedLives, RetryLives DEF Work

LEMMA EnqueueLives ==
  ASSUME MemInv, Bounded, NEW batch \in SUBSET Job, Enqueue(batch), NEW k \in Job
  PROVE  LifeStep(k)
<1>1. TypeOK /\ slot' = slot /\ jobs' = jobs \cup batch /\ batch \cap jobs = {}
  BY DEF MemInv, TypeOK, Enqueue
<1>2. CASE k \notin batch
  <2>1. job'[k] = job[k]
    BY <1>2 DEF Enqueue
  <2> QED BY <1>1, <1>2, <2>1, Aside
<1>3. CASE k \in batch
  <2>1. job'[k].status \in {"pending", "waiting"} /\ job'[k].retries = 0
    BY <1>3 DEF Enqueue, Fresh
  <2>2. Status(k) = "absent" /\ Status(k)' = job'[k].status
    BY <1>1, <1>3 DEF Status
  <2> QED BY <1>1, <2>1, <2>2, MovesHere
<1> QED BY <1>2, <1>3

LEMMA CallLives ==
  ASSUME MemInv, MemInv', NoCancelledRetry, Bounded, Call, NEW k \in Job
  PROVE  LifeStep(k)
<1>1. TypeOK
  BY DEF MemInv
<1>2. ASSUME NEW j \in Job, CancelJob(j) PROVE LifeStep(k)
  <2>1. slot' = slot /\ jobs' = jobs /\ j \in jobs /\ job[j].status \in CANCELLABLE_STATUSES
    BY <1>2 DEF CancelJob, Cancellable
  <2>2. /\ job'[j].status = "cancelled" /\ job'[j].retries = job[j].retries
        /\ \A i \in Job \ {j} : job'[i] = job[i]
    BY <1>1, <1>2 DEF CancelJob, TypeOK, Record
  <2>3. Status(j)' = "cancelled" /\ Status(j) \in CANCELLABLE_STATUSES
    BY <2>1, <2>2 DEF Status
  <2> QED BY <2>1, <2>2, <2>3, MovesHere, Aside
<1>3. ASSUME NEW j \in Job, RetryJob(j) PROVE LifeStep(k)
  <2>1. slot' = slot /\ jobs' = jobs /\ j \in jobs /\ job[j].status = "failed"
    BY <1>3 DEF RetryJob, NoCancelledRetry, RETRIABLE_STATUSES
  <2>2. /\ job'[j].status = "pending" /\ job'[j].retries = 0
        /\ \A i \in Job \ {j} : job'[i] = job[i]
    BY <1>1, <1>3 DEF RetryJob, TypeOK, Reset
  <2>3. Status(j)' = "pending" /\ Status(j) = "failed"
    BY <2>1, <2>2 DEF Status
  <2> QED BY <2>1, <2>2, <2>3, MovesHere, Aside
<1>4. ASSUME NEW j \in Job, ReplayDeadJob(j) PROVE LifeStep(k)
  <2>1. slot' = slot /\ j \in jobs /\ job[j].status = "dead" /\ job[j] \in Record
    BY <1>1, <1>4 DEF ReplayDeadJob, TypeOK
  <2>2. PICK object \in Record : /\ object = Reset(job[j]) /\ object.status = "pending"
                                 /\ object.retries = 0
    BY <2>1, ObjectType DEF Reset
  <2>3. Put(j, object)
    BY <1>4, <2>2 DEF ReplayDeadJob
  <2>4. jobs' = jobs \cup {j} /\ \A i \in Job \ {j} : job'[i] = job[i]
    BY <1>1, <2>3, PutType
  <2>5. job'[j].status \in {"pending", "waiting"} /\ job'[j].retries = 0
    BY <1>1, <2>2, <2>3, PutObject
  <2>6. Status(j)' = job'[j].status /\ Status(j) = "dead"
    BY <2>1, <2>4 DEF Status
  <2> QED BY <2>1, <2>4, <2>5, <2>6, MovesHere, Aside
<1>5. ASSUME NEW old \in SUBSET Job, Purge(old) PROVE LifeStep(k)
  <2>1. /\ slot' = slot /\ job' = job /\ jobs' = jobs \ old
        /\ \A i \in old : i \in jobs /\ job[i].status \in TERMINAL_STATUSES
    BY <1>5 DEF Purge
  <2>2. CASE k \notin old
    BY <2>1, <2>2, Aside
  <2>3. CASE k \in old
    <3>1. Status(k) \in TERMINAL_STATUSES /\ Status(k)' = "absent"
      BY <2>1, <2>3 DEF Status
    <3> QED BY <3>1, <2>1, MovesHere
  <2> QED BY <2>2, <2>3
<1> QED BY <1>2, <1>3, <1>4, <1>5, EnqueueLives DEF Call

\* Every step is, to each job, a step of its life or nothing.
LEMMA Lives ==
  ASSUME MemInv, MemInv', NoCancelledRetry, Bounded, [Next]_vars, NEW k \in Job
  PROVE  LifeStep(k)
<1>1. CASE UNCHANGED vars
  BY <1>1, Aside DEF vars
<1>2. ASSUME NEW j \in Job, RunAtPasses(j) PROVE LifeStep(k)
  <2>1. job'[k].status = job[k].status /\ job'[k].retries = job[k].retries
    BY <1>2 DEF RunAtPasses, MemInv, TypeOK, Record
  <2> QED BY <1>2, <2>1, Aside DEF RunAtPasses
<1> QED BY <1>1, <1>2, ClaimLives, WorkLives, CallLives DEF Next

\* Every job lives as JobLifecycle promises.
THEOREM MemImplements == NoCancelledRetry => (Spec => ImplementsLifecycle)
<1> SUFFICES ASSUME NoCancelledRetry PROVE Spec => ImplementsLifecycle
  OBVIOUS
<1>1. Init => MemInv /\ Bounded /\ \A j \in Job : Life(j)!Init
  <2>1. Init => Bounded
    BY MaxRetriesAssumption DEF Init, Bounded, Absent
  <2> QED BY <2>1, MemInit, LifeInit
<1>2. MemInv /\ Bounded /\ [Next]_vars
      => /\ MemInv' /\ Bounded'
         /\ \A j \in Job : [Life(j)!Next]_(Life(j)!vars)
  <2> SUFFICES ASSUME MemInv, Bounded, [Next]_vars
               PROVE  MemInv' /\ \A j \in Job : LifeStep(j)
    BY DEF LifeStep, Bounded
  <2> QED BY MemStep, Lives
<1> QED BY <1>1, <1>2, PTL DEF Spec, ImplementsLifecycle

-----------------------------------------------------------------------------
(* Waiting jobs, and finished ones.                                         *)

Done == {d \in jobs : job[d].status = "completed"}

LEMMA DoneDeps == \A j \in Job : AllDepsCompleted(j) <=> DependsOn[j] \subseteq Done
BY DEF AllDepsCompleted, Done

LEMMA DoneDepsNext == \A j \in Job : AllDepsCompleted(j)' <=> DependsOn[j] \subseteq Done'
BY DEF AllDepsCompleted, Done

\* A step that completes no job leaves nobody waiting in vain, if it looks at the
\* dependencies of whom it makes wait.
LEMMA NothingDone ==
  ASSUME MemInv, NoStaleWait, Done' \subseteq Done,
         \A j \in jobs' : job'[j].status = "waiting" =>
            j \in Job /\ (~AllDepsCompleted(j) \/ (j \in jobs /\ job[j].status = "waiting"))
  PROVE  NoStaleWait'
<1> SUFFICES ASSUME NEW j \in jobs', job'[j].status = "waiting"
             PROVE  ~AllDepsCompleted(j)'
  BY DEF NoStaleWait
<1>1. j \in Job /\ ~AllDepsCompleted(j)
  BY DEF NoStaleWait
<1> QED BY <1>1, DoneDeps, DoneDepsNext

\* enqueue of one job.
LEMMA PutWaits ==
  ASSUME MemInv, NoStaleWait, NEW j \in Job, NEW object \in Record,
         object.status \in RUNNABLE, Put(j, object)
  PROVE  NoStaleWait'
<1>1. TypeOK /\ jobs \subseteq Job
  BY DEF MemInv, TypeOK
<1>2. jobs' = jobs \cup {j} /\ \A k \in Job \ {j} : job'[k] = job[k]
  BY <1>1, PutType
<1>3. job'[j].status \in {object.status, "waiting"}
  BY <1>1, PutObject
<1>4. job'[j].status = "waiting" => ~AllDepsCompleted(j)
  BY <1>1 DEF Put, TypeOK, RUNNABLE
<1>5. Done' \subseteq Done
  BY <1>1, <1>2, <1>3 DEF Done, RUNNABLE
<1> QED BY <1>1, <1>2, <1>4, <1>5, NothingDone

\* update_job with a status that is neither completed nor waiting.
LEMMA UpdateWaits ==
  ASSUME MemInv, NoStaleWait, NEW j \in Job, NEW object \in Record,
         object.status \notin {"completed", "waiting"}, Update(j, object)
  PROVE  NoStaleWait'
<1>1. TypeOK /\ jobs \subseteq Job
  BY DEF MemInv, TypeOK
<1>2. jobs' = jobs \cup {j} /\ job'[j] = object /\ \A k \in Job \ {j} : job'[k] = job[k]
  BY <1>1, UpdateType
<1>3. Done' \subseteq Done
  BY <1>1, <1>2 DEF Done
<1> QED BY <1>1, <1>2, <1>3, NothingDone

LEMMA SucceedWaits ==
  ASSUME MemInv, NoStaleWait, NEW s \in Slot, NEW j \in Job, Succeed(s, j)
  PROVE  NoStaleWait'
<1> SUFFICES ASSUME NEW k \in jobs', job'[k].status = "waiting"
             PROVE  ~AllDepsCompleted(k)'
  BY DEF NoStaleWait
<1>1. jobs' = jobs \cup {j} /\ jobs \subseteq Job /\ k \in Job /\ job \in [Job -> Record]
  BY DEF MemInv, TypeOK, Succeed
<1>2. \A i \in Job : job'[i] = IF i = j THEN [job[i] EXCEPT !.status = "completed"]
                               ELSE IF i \in Released(j) THEN [job[i] EXCEPT !.status = "pending"]
                               ELSE job[i]
  BY DEF Succeed
<1>3. /\ [job[k] EXCEPT !.status = "completed"].status = "completed"
      /\ [job[k] EXCEPT !.status = "pending"].status = "pending"
  BY <1>1 DEF Record
<1>4. k # j /\ k \notin Released(j) /\ job'[k] = job[k] /\ k \in jobs
  BY <1>1, <1>2, <1>3
<1>5. PICK d \in DependsOn[k] : d # j /\ d \notin Done
  <2>1. CASE j \in DependsOn[k]
    BY <1>4, <2>1 DEF Released, Done
  <2>2. CASE j \notin DependsOn[k]
    <3>1. ~AllDepsCompleted(k)
      BY <1>4 DEF NoStaleWait
    <3> QED BY <2>2, <3>1, <1>1, DoneDeps
  <2> QED BY <2>1, <2>2
<1>6. d \in Job
  BY <1>1, DependsOnAssumption
<1>7. d \notin Done'
  <2>1. [job[d] EXCEPT !.status = "pending"].status = "pending"
    BY <1>1, <1>6 DEF Record
  <2> QED BY <1>1, <1>2, <1>5, <1>6, <2>1 DEF Done
<1> QED BY <1>1, <1>5, <1>7, DoneDepsNext

LEMMA WorkWaits ==
  ASSUME MemInv, NoStaleWait, NEW s \in Slot, NEW j \in Job, Work(s, j)
  PROVE  NoStaleWait'
<1>1. job[j] \in Record
  BY DEF MemInv, TypeOK
<1>2. CASE RejectUnknown(s, j) \/ Fail(s, j)
  BY <1>1, <1>2, EndedType, UpdateWaits DEF RejectUnknown, Fail
<1>3. CASE MoveToDLQ(s, j)
  BY <1>1, <1>3, EndedType, UpdateWaits DEF MoveToDLQ
<1>4. CASE Start(s, j)
  <2>1. /\ [job[j] EXCEPT !.status = "running"] \in Record
        /\ [job[j] EXCEPT !.status = "running"].status = "running"
    BY <1>1, ObjectType DEF JobStatus
  <2> QED BY <2>1, <1>4, UpdateWaits DEF Start
<1>5. CASE ScheduleRetry(s, j)
  <2>1. PICK due \in BOOLEAN : Put(j, Retrying(job[j], due))
    BY <1>5 DEF ScheduleRetry
  <2>2. Retrying(job[j], due) \in Record /\ Retrying(job[j], due).status \in RUNNABLE
    BY <1>1, ObjectType DEF Retrying, RUNNABLE
  <2> QED BY <2>1, <2>2, PutWaits
<1>6. CASE DropCancelled(s, j)
  <2>1. UNCHANGED <<job, jobs>>
    BY <1>6 DEF DropCancelled
  <2> QED BY <2>1 DEF NoStaleWait, AllDepsCompleted
<1> QED BY <1>2, <1>3, <1>4, <1>5, <1>6, SucceedWaits DEF Work

LEMMA CallWaits ==
  ASSUME MemInv, NoStaleWait, Call
  PROVE  NoStaleWait'
<1>1. job \in [Job -> Record] /\ jobs \subseteq Job /\ jobs \subseteq submitted
  BY DEF MemInv, TypeOK
<1>2. ASSUME NEW batch \in SUBSET Job, Enqueue(batch) PROVE NoStaleWait'
  <2>1. jobs' = jobs \cup batch /\ batch \cap jobs = {}
    BY <1>1, <1>2 DEF Enqueue
  <2>2. ASSUME NEW k \in Job
        PROVE  /\ k \notin batch => job'[k] = job[k]
               /\ k \in batch => job'[k].status \in {"pending", "waiting"}
               /\ k \in batch /\ job'[k].status = "waiting" => ~AllDepsCompleted(k)
    BY <1>2 DEF Enqueue, Fresh
  <2>3. Done' \subseteq Done
    BY <1>1, <2>1, <2>2 DEF Done
  <2> QED BY <1>1, <2>1, <2>2, <2>3, NothingDone
<1>3. ASSUME NEW j \in Job, CancelJob(j) PROVE NoStaleWait'
  <2>1. jobs' = jobs /\ job'[j].status = "cancelled" /\ \A k \in Job \ {j} : job'[k] = job[k]
    BY <1>1, <1>3 DEF CancelJob, Record
  <2>2. Done' \subseteq Done
    BY <1>1, <2>1 DEF Done
  <2> QED BY <1>1, <2>1, <2>2, NothingDone
<1>4. ASSUME NEW j \in Job, RetryJob(j) PROVE NoStaleWait'
  <2>1. jobs' = jobs /\ job'[j].status = "pending" /\ \A k \in Job \ {j} : job'[k] = job[k]
    BY <1>1, <1>4 DEF RetryJob, Reset
  <2>2. Done' \subseteq Done
    BY <1>1, <2>1 DEF Done
  <2> QED BY <1>1, <2>1, <2>2, NothingDone
<1>5. ASSUME NEW j \in Job, ReplayDeadJob(j) PROVE NoStaleWait'
  <2>1. Put(j, Reset(job[j])) /\ Reset(job[j]) \in Record /\ Reset(job[j]).status \in RUNNABLE
    BY <1>1, <1>5, ObjectType DEF ReplayDeadJob, Reset, RUNNABLE
  <2> QED BY <2>1, PutWaits
<1>6. ASSUME NEW old \in SUBSET Job, Purge(old) PROVE NoStaleWait'
  <2>1. job' = job /\ jobs' \subseteq jobs
    BY <1>6 DEF Purge
  <2>2. Done' \subseteq Done
    BY <2>1 DEF Done
  <2> QED BY <1>1, <2>1, <2>2, NothingDone
<1> QED BY <1>2, <1>3, <1>4, <1>5, <1>6 DEF Call

LEMMA WaitStep == MemInv /\ NoStaleWait /\ [Next]_vars => NoStaleWait'
<1> SUFFICES ASSUME MemInv, NoStaleWait, [Next]_vars PROVE NoStaleWait'
  OBVIOUS
<1>1. ASSUME UNCHANGED <<job, jobs>> PROVE NoStaleWait'
  BY <1>1 DEF NoStaleWait, AllDepsCompleted
<1>2. ASSUME NEW j \in Job, RunAtPasses(j) PROVE NoStaleWait'
  <2>1. jobs' = jobs /\ jobs \subseteq Job /\ \A k \in Job : job'[k].status = job[k].status
    BY <1>2 DEF RunAtPasses, MemInv, TypeOK, Record
  <2>2. Done' \subseteq Done
    BY <2>1 DEF Done
  <2> QED BY <2>1, <2>2, NothingDone
<1>3. ASSUME NEW s \in Slot, NEW j \in Job, NEW q \in Queue, Claim(s, j, q) PROVE NoStaleWait'
  BY <1>1, <1>3 DEF Claim
<1>4. CASE UNCHANGED vars
  BY <1>1, <1>4 DEF vars
<1> QED BY <1>2, <1>3, <1>4, WorkWaits, CallWaits DEF Next

\* What a worker does to the jobs that are finished and stored.
Spared == \A j \in jobs \ Unknown : job[j].status \in TERMINAL_STATUSES => job'[j] = job[j]

LEMMA WorkSpares ==
  ASSUME MemInv, NEW s \in Slot, NEW j \in Job, Work(s, j)
  PROVE  Spared
<1>1. job \in [Job -> Record] /\ jobs \subseteq Job
  BY DEF MemInv, TypeOK
<1>2. slot[s].job = j
  BY DEF Work, RejectUnknown, DropCancelled, Start, Succeed, ScheduleRetry, MoveToDLQ, Fail
<1>3. ASSUME NEW k \in Job, k # j, ~Succeed(s, j) PROVE job'[k] = job[k]
  BY <1>1, <1>3 DEF Work, RejectUnknown, DropCancelled, Start, ScheduleRetry, MoveToDLQ, Fail,
     Update, Put
<1>4. CASE RejectUnknown(s, j)
  <2>1. j \in Unknown /\ ~Succeed(s, j)
    BY <1>4 DEF RejectUnknown, Succeed
  <2> QED BY <1>1, <1>3, <2>1 DEF Spared
<1>5. CASE DropCancelled(s, j)
  BY <1>5 DEF DropCancelled, Spared
<1>6. CASE Start(s, j)
  <2>1. j \in jobs => job[j].status \notin TERMINAL_STATUSES
    BY <1>2, <1>6 DEF Start, MemInv, JobInv, TERMINAL_STATUSES
  <2>2. ~Succeed(s, j)
    BY <1>6 DEF Start, Succeed
  <2> QED BY <1>1, <1>3, <2>1, <2>2 DEF Spared
<1>7. CASE slot[s].pc = "invoke"
  <2>1. job[j].status \notin TERMINAL_STATUSES
    BY <1>2, <1>7 DEF MemInv, JobInv, TERMINAL_STATUSES
  <2>2. CASE ~Succeed(s, j)
    BY <1>1, <1>3, <2>1, <2>2 DEF Spared
  <2>3. CASE Succeed(s, j)
    <3>1. ASSUME NEW k \in jobs, job[k].status \in TERMINAL_STATUSES PROVE job'[k] = job[k]
      BY <1>1, <2>1, <2>3, <3>1 DEF Succeed, Released, TERMINAL_STATUSES
    <3> QED BY <3>1 DEF Spared
  <2> QED BY <2>2, <2>3
<1> QED BY <1>4, <1>5, <1>6, <1>7 DEF Work, Succeed, ScheduleRetry, MoveToDLQ, Fail

\* No job waits although all it depends on has completed (enqueue, update_job and
\* _promote_dependents, which the event loop runs without a break).
THEOREM MemNoStaleWait == NoCancelledRetry => (Spec => []NoStaleWait)
<1> SUFFICES ASSUME NoCancelledRetry PROVE Spec => []NoStaleWait
  OBVIOUS
<1>1. Init => MemInv /\ NoStaleWait
  BY MemInit DEF Init, NoStaleWait
<1>2. MemInv /\ NoStaleWait /\ [Next]_vars => MemInv' /\ NoStaleWait'
  BY MemStep, WaitStep
<1> QED BY <1>1, <1>2, PTL DEF Spec

\* A worker never changes a finished job that is still stored, unless its task is
\* unknown ("statuses a job never leaves on its own").
THEOREM MemTerminal == NoCancelledRetry => (Spec => TerminalStable)
<1> SUFFICES ASSUME NoCancelledRetry PROVE Spec => TerminalStable
  OBVIOUS
<1>1. MemInv /\ [Next]_vars => MemInv'
  BY MemStep
<1>2. MemInv /\ [Next]_vars => (\A s \in Slot : slot'[s] # slot[s] => Spared) \/ UNCHANGED vars
  <2> SUFFICES ASSUME MemInv, Next, NEW s \in Slot, slot'[s] # slot[s] PROVE Spared
    OBVIOUS
  <2>1. ASSUME NEW t \in Slot, NEW j \in Job, NEW q \in Queue, Claim(t, j, q) PROVE Spared
    BY <2>1 DEF Claim, Spared
  <2>2. ~Call /\ \A j \in Job : ~RunAtPasses(j)
    BY DEF Call, Enqueue, CancelJob, RetryJob, ReplayDeadJob, Purge, RunAtPasses
  <2> QED BY <2>1, <2>2, WorkSpares DEF Next
<1> QED BY MemInit, <1>1, <1>2, PTL DEF Spec, TerminalStable, Spared
===============================================================================
