--------------------------- MODULE RedisJobsProofs ---------------------------
(***************************************************************************)
(* Theorems about RedisJobs: its types, which every other proof about it     *)
(* starts from; that with no process lost, no purge and no result that       *)
(* expires a job never waits in vain; and that purges and expiries make a    *)
(* job wait in vain only by deleting the set of dependents it is in.         *)
(***************************************************************************)
EXTENDS RedisJobs, FiniteSetTheorems, SequenceTheorems, TLAPS

-----------------------------------------------------------------------------
(* Types.                                                                   *)

\* Where a process has a job, and where it is about to store one.
Owning == {"popped", "gone", "claimed", "invoke", "resolve", "register", "check",
           "get", "write", "deps", "wake", "fetch", "forget"}
Storing == {"register", "check", "get", "write"}

Formed(state) == /\ state \in ProcState
                 /\ state.pc \in Owning => state.job \in Job
                 /\ state.pc \in Storing => state.held.status # "absent"

\* The inductive invariant of TypeOK.
Types == TypeOK /\ \A p \in Proc : Formed(proc[p])

\* The objects the operations build are well formed.
LEMMA ObjectType ==
  ASSUME NEW job \in Record
  PROVE  /\ \A st \in JobStatus : /\ [job EXCEPT !.status = st] \in Record
                                  /\ [job EXCEPT !.status = st].status = st
                                  /\ [job EXCEPT !.status = st].due = job.due
         /\ [job EXCEPT !.status = "dead", !.queue = "dlq"] \in Record
         /\ [job EXCEPT !.status = "dead", !.queue = "dlq"].status = "dead"
         /\ [job EXCEPT !.status = "dead", !.queue = "dlq"].due = job.due
         /\ [job EXCEPT !.due = TRUE] \in Record
         /\ [job EXCEPT !.due = TRUE].status = job.status
         /\ [job EXCEPT !.due = TRUE].due
         /\ Reset(job) \in Record /\ Reset(job).status = "pending" /\ Reset(job).due
         /\ \A due \in BOOLEAN : /\ Retrying(job, due) \in Record
                                 /\ Retrying(job, due).status = "retrying"
                                 /\ Retrying(job, due).due = due
<1>1. \A st \in JobStatus : /\ [job EXCEPT !.status = st] \in Record
                            /\ [job EXCEPT !.status = st].status = st
                            /\ [job EXCEPT !.status = st].due = job.due
  BY DEF Record
<1>2. /\ [job EXCEPT !.status = "dead", !.queue = "dlq"] \in Record
      /\ [job EXCEPT !.status = "dead", !.queue = "dlq"].status = "dead"
      /\ [job EXCEPT !.status = "dead", !.queue = "dlq"].due = job.due
  BY DEF Record, JobStatus, Queue
<1>3. /\ [job EXCEPT !.due = TRUE] \in Record
      /\ [job EXCEPT !.due = TRUE].status = job.status
      /\ [job EXCEPT !.due = TRUE].due
  BY DEF Record
<1>4. Reset(job) \in Record /\ Reset(job).status = "pending" /\ Reset(job).due
  BY DEF Record, JobStatus, Reset
<1>5. ASSUME NEW due \in BOOLEAN
      PROVE  /\ Retrying(job, due) \in Record
             /\ Retrying(job, due).status = "retrying"
             /\ Retrying(job, due).due = due
  BY DEF Record, JobStatus, Retrying
<1> QED BY <1>1, <1>2, <1>3, <1>4, <1>5

LEMMA NewType ==
  /\ Absent \in Record /\ Absent.status = "absent" /\ Absent.due
  /\ \A due \in BOOLEAN : /\ Fresh(due) \in Record /\ Fresh(due).status = "pending"
                          /\ Fresh(due).due = due
BY DEF Record, JobStatus, Queue, Absent, Fresh

\* The states of a process that the operations build are well formed.
LEMMA IdleType == Idle \in ProcState /\ Formed(Idle)
<1>1. Idle \in ProcState
  BY NewType DEF Idle, ProcState, PC, After
<1>2. Idle.pc = "idle"
  BY DEF Idle
<1> QED BY <1>1, <1>2 DEF Formed, Owning, Storing

LEMMA WritingType ==
  \A j \in Job, job \in Record, push \in BOOLEAN, next \in After :
    job.status # "absent" => Formed(Writing(j, job, push, next))
<1> SUFFICES ASSUME NEW j \in Job, NEW job \in Record, NEW push \in BOOLEAN, NEW next \in After,
                    job.status # "absent"
             PROVE  Formed(Writing(j, job, push, next))
  OBVIOUS
<1>1. Writing(j, job, push, next) \in ProcState
  BY IdleType DEF Writing, ProcState, PC
<1>2. Writing(j, job, push, next).job = j /\ Writing(j, job, push, next).held = job
  BY DEF Writing, Idle
<1> QED BY <1>1, <1>2 DEF Formed

LEMMA EnqueuingType ==
  \A j \in Job, job \in Record : job.status # "absent" => Formed(Enqueuing(j, job))
<1> SUFFICES ASSUME NEW j \in Job, NEW job \in Record, job.status # "absent"
             PROVE  Formed(Enqueuing(j, job))
  OBVIOUS
<1>1. CASE DependsOn[j] = {}
  <2>1. "look" \in After /\ TRUE \in BOOLEAN
    BY DEF After
  <2> QED BY <2>1, <1>1, WritingType DEF Enqueuing
<1>2. CASE DependsOn[j] # {}
  <2>1. Enqueuing(j, job) \in ProcState
    BY <1>2, IdleType DEF Enqueuing, ProcState, PC
  <2>2. Enqueuing(j, job).job = j /\ Enqueuing(j, job).held = job
    BY <1>2 DEF Enqueuing, Idle
  <2> QED BY <2>1, <2>2 DEF Formed
<1> QED BY <1>1, <1>2

LEMMA PromotingType ==
  \A todo \in SUBSET Job :
    /\ Formed(Promoting(todo)) /\ Promoting(todo).todo = todo /\ Promoting(todo).job = None
    /\ Promoting(todo).pc = (IF todo = {} THEN "idle" ELSE "promote")
<1> SUFFICES ASSUME NEW todo \in SUBSET Job
             PROVE  /\ Formed(Promoting(todo)) /\ Promoting(todo).todo = todo
                    /\ Promoting(todo).job = None
                    /\ Promoting(todo).pc = (IF todo = {} THEN "idle" ELSE "promote")
  OBVIOUS
<1>1. Promoting(todo).todo = todo /\ Promoting(todo).job = None
  BY DEF Promoting, Idle
<1>2. Promoting(todo).pc = (IF todo = {} THEN "idle" ELSE "promote")
  BY DEF Promoting, Idle
<1>3. Promoting(todo) \in ProcState
  BY IdleType DEF Promoting, ProcState, PC
<1> QED BY <1>1, <1>2, <1>3 DEF Formed, Owning, Storing

LEMMA ReapingType ==
  \A next \in After :
    /\ Formed(AfterReap(next)) /\ AfterReap(next).job = None
    /\ AfterReap(next).pc = (IF next = "list" THEN "list" ELSE "idle")
    /\ \A due \in SUBSET (Job \X Queue) :
         /\ Formed(Reaping(due, next)) /\ Reaping(due, next).job = None
         /\ Reaping(due, next).pc =
              (IF due # {} THEN "reap" ELSE IF next = "list" THEN "list" ELSE "idle")
<1> SUFFICES ASSUME NEW next \in After
             PROVE  /\ Formed(AfterReap(next)) /\ AfterReap(next).job = None
                    /\ AfterReap(next).pc = (IF next = "list" THEN "list" ELSE "idle")
                    /\ \A due \in SUBSET (Job \X Queue) :
                         /\ Formed(Reaping(due, next)) /\ Reaping(due, next).job = None
                         /\ Reaping(due, next).pc =
                              (IF due # {} THEN "reap"
                               ELSE IF next = "list" THEN "list" ELSE "idle")
  OBVIOUS
<1>1. /\ AfterReap(next).pc = (IF next = "list" THEN "list" ELSE "idle")
      /\ AfterReap(next).job = None
  BY DEF AfterReap, Idle
<1>2. AfterReap(next) \in ProcState
  BY IdleType DEF AfterReap, ProcState, PC
<1>3. Formed(AfterReap(next))
  BY <1>1, <1>2 DEF Formed, Owning, Storing
<1>4. ASSUME NEW due \in SUBSET (Job \X Queue)
      PROVE  /\ Formed(Reaping(due, next)) /\ Reaping(due, next).job = None
             /\ Reaping(due, next).pc =
                  (IF due # {} THEN "reap" ELSE IF next = "list" THEN "list" ELSE "idle")
  <2>1. CASE due = {}
    BY <2>1, <1>1, <1>3 DEF Reaping
  <2>2. CASE due # {}
    <3>1. Reaping(due, next) = [Idle EXCEPT !.pc = "reap", !.due = due, !.left = due,
                                            !.next = next]
      BY <2>2 DEF Reaping
    <3>2. Reaping(due, next) \in ProcState
      BY <3>1, IdleType DEF ProcState, PC
    <3>3. Reaping(due, next).pc = "reap" /\ Reaping(due, next).job = None
      BY <3>1 DEF Idle
    <3> QED BY <2>2, <3>2, <3>3 DEF Formed, Owning, Storing
  <2> QED BY <2>1, <2>2
<1> QED BY <1>1, <1>3, <1>4

LEMMA TierType == \A j \in Job : TierOf(j) \in Tier
BY DEF TierOf, Tier

\* A step of one process that leaves it well formed, and its store too.
LEMMA StepTypes ==
  ASSUME Types, NEW p \in Proc, NEW state, Formed(state), Become(p, state),
         record' \in [Job -> Record], pending' \in [Queue -> [Tier -> Seq(Job)]],
         deferred' \in [Queue -> [Job -> {"none", "later", "due"}]],
         dependents' \in [Job -> SUBSET Job], listed' \in [Job -> SUBSET JobStatus],
         filed' \in [Job -> SUBSET Queue], expiring' \subseteq Job \X Queue,
         submitted' \subseteq Job, calls' \in Nat, crashes' \in Nat
  PROVE  Types'
<1>1. /\ proc' = [proc EXCEPT ![p] = state]
      /\ proc \in [Proc -> ProcState] /\ state \in ProcState
  BY DEF Types, TypeOK, Become, Formed
<1>2. proc' \in [Proc -> ProcState]
  BY <1>1
<1>3. ASSUME NEW r \in Proc PROVE Formed(proc'[r])
  BY <1>1 DEF Types
<1>4. \A r \in Proc : Formed(proc[r])'
  BY <1>3 DEF Formed, ProcState, PC, After, Owning, Storing
<1>5. TypeOK'
  BY <1>2 DEF TypeOK
<1> QED BY <1>4, <1>5 DEF Types

\* The same for a step that touches nothing that Redis stores.
LEMMA LocalTypes ==
  ASSUME Types, NEW p \in Proc, NEW state, Formed(state), Become(p, state),
         UNCHANGED store, submitted' \subseteq Job, calls' \in Nat, crashes' \in Nat
  PROVE  Types'
<1>1. /\ record' = record /\ pending' = pending /\ deferred' = deferred
      /\ dependents' = dependents /\ listed' = listed /\ filed' = filed
      /\ expiring' = expiring
  BY DEF store, index
<1> QED BY <1>1, StepTypes DEF Types, TypeOK

\* What is known of a process that has a job.
LEMMA OwnerType ==
  ASSUME Types, NEW p \in Proc
  PROVE  /\ proc[p] \in ProcState
         /\ proc[p].pc \in Owning => proc[p].job \in Job
         /\ proc[p].pc \in Storing => proc[p].held.status # "absent"
         /\ proc[p].pc \in PC /\ proc[p].held \in Record /\ proc[p].old \in Record
         /\ proc[p].push \in BOOLEAN
         /\ proc[p].next \in After /\ proc[p].todo \in SUBSET Job
         /\ proc[p].deps \in SUBSET Job /\ proc[p].due \in SUBSET (Job \X Queue)
         /\ proc[p].left \in SUBSET (Job \X Queue)
<1>1. proc[p] \in ProcState /\ Formed(proc[p])
  BY DEF Types, TypeOK
<1> QED BY <1>1 DEF Formed, ProcState

\* An LPUSH puts the job before the others of its list.
LEMMA LPushType ==
  ASSUME Types, NEW j \in Job, NEW queue \in Queue, LPush(j, queue)
  PROVE  /\ pending' \in [Queue -> [Tier -> Seq(Job)]]
         /\ pending'[queue][TierOf(j)] = <<j>> \o pending[queue][TierOf(j)]
         /\ \A q \in Queue, t \in Tier : q # queue \/ t # TierOf(j) =>
              pending'[q][t] = pending[q][t]
<1>1. PICK t \in Tier : t = TierOf(j)
  BY TierType
<1>2. pending \in [Queue -> [Tier -> Seq(Job)]] /\ pending[queue][t] \in Seq(Job)
  BY DEF Types, TypeOK
<1>3. PICK longer \in Seq(Job) : longer = <<j>> \o pending[queue][t]
  <2>1. PICK list \in Seq(Job) : list = pending[queue][t]
    BY <1>2
  <2>2. <<j>> \o list \in Seq(Job)
    OBVIOUS
  <2> QED BY <2>1, <2>2
<1>4. PICK lists \in [Tier -> Seq(Job)] : lists = [pending[queue] EXCEPT ![t] = longer]
  BY <1>2
<1>5. pending' = [pending EXCEPT ![queue] = lists]
  BY <1>1, <1>3, <1>4 DEF LPush
<1>6. pending' \in [Queue -> [Tier -> Seq(Job)]]
  BY <1>2, <1>5
<1>7. pending'[queue][t] = longer
  BY <1>2, <1>4, <1>5
<1>8. ASSUME NEW q \in Queue, NEW u \in Tier, q # queue \/ u # t
      PROVE  pending'[q][u] = pending[q][u]
  BY <1>2, <1>4, <1>5, <1>8
<1> QED BY <1>1, <1>3, <1>6, <1>7, <1>8

-----------------------------------------------------------------------------

LEMMA OrdersType ==
  \A S \in SUBSET Job : \A order \in Orders(S) : order \in Seq(S) /\ order \in Seq(Job)
<1> SUFFICES ASSUME NEW S \in SUBSET Job, NEW order \in Orders(S)
             PROVE  order \in Seq(S) /\ order \in Seq(Job)
  OBVIOUS
<1>1. Cardinality(S) \in Nat
  BY JobAssumption, FS_Subset, FS_CardinalityType
<1>2. PICK n \in Nat : n = Cardinality(S)
  BY <1>1
<1>3. order \in [1 .. n -> S]
  BY <1>2 DEF Orders
<1> QED BY <1>2, <1>3

\* The script puts the ripe ids of a cell, each once, before its list.
LEMMA PromoteShape ==
  ASSUME Types, NEW s \in Slot, PromoteDeferred(s)
  PROVE  /\ pending' \in [Queue -> [Tier -> Seq(Job)]]
         /\ deferred' \in [Queue -> [Job -> {"none", "later", "due"}]]
         /\ \A q \in Queue, t \in Tier :
              IF <<q, t>> \in RipeCells(s)
              THEN \E order \in Orders(Ripe(q, t)) :
                      pending'[q][t] = order \o pending[q][t]
              ELSE pending'[q][t] = pending[q][t]
         /\ \A q \in Queue, j \in Job :
              deferred'[q][j] = IF <<q, TierOf(j)>> \in RipeCells(s) /\ deferred[q][j] = "due"
                                THEN "none" ELSE deferred[q][j]
<1> PICK cells : cells = RipeCells(s)
  OBVIOUS
<1>1. PICK pushed \in [cells -> UNION {Orders(Ripe(c[1], c[2])) : c \in cells}] :
        /\ \A c \in cells : pushed[c] \in Orders(Ripe(c[1], c[2]))
        /\ pending' = [q \in Queue |-> [t \in Tier |->
              IF <<q, t>> \in cells THEN pushed[<<q, t>>] \o pending[q][t] ELSE pending[q][t]]]
  BY DEF PromoteDeferred, PushRipe
<1>2. ASSUME NEW q \in Queue, NEW t \in Tier
      PROVE  /\ pending'[q][t] \in Seq(Job)
             /\ IF <<q, t>> \in cells
                THEN \E order \in Orders(Ripe(q, t)) : pending'[q][t] = order \o pending[q][t]
                ELSE pending'[q][t] = pending[q][t]
  <2>1. PICK list \in Seq(Job) : list = pending[q][t]
    BY DEF Types, TypeOK
  <2>2. CASE <<q, t>> \in cells
    <3>1. PICK order : order = pushed[<<q, t>>]
      OBVIOUS
    <3>2. order \in Orders(Ripe(q, t))
      BY <1>1, <2>2, <3>1
    <3>3. Ripe(q, t) \in SUBSET Job
      BY DEF Ripe
    <3>4. order \in Seq(Job)
      BY <3>2, <3>3, OrdersType
    <3>5. pending'[q][t] = order \o list
      BY <1>1, <2>1, <2>2, <3>1
    <3>6. order \o list \in Seq(Job)
      BY <3>4
    <3> QED BY <2>1, <2>2, <3>2, <3>5, <3>6
  <2>3. CASE <<q, t>> \notin cells
    <3>1. pending'[q][t] = list
      BY <1>1, <2>1, <2>3
    <3> QED BY <2>1, <2>3, <3>1
  <2> QED BY <2>2, <2>3
<1>3. pending' \in [Queue -> [Tier -> Seq(Job)]]
  <2>1. PICK f : f = pending'
    OBVIOUS
  <2>2. f = [q \in Queue |-> [t \in Tier |-> f[q][t]]]
    BY <1>1, <2>1
  <2>3. \A q \in Queue, t \in Tier : f[q][t] \in Seq(Job)
    BY <1>2, <2>1
  <2>4. f \in [Queue -> [Tier -> Seq(Job)]]
    BY <2>2, <2>3
  <2> QED BY <2>1, <2>4
<1>4. ASSUME NEW q \in Queue, NEW j \in Job
      PROVE  deferred'[q][j] = IF <<q, TierOf(j)>> \in RipeCells(s) /\ deferred[q][j] = "due"
                               THEN "none" ELSE deferred[q][j]
  BY DEF PromoteDeferred
<1>5. deferred' \in [Queue -> [Job -> {"none", "later", "due"}]]
  BY DEF PromoteDeferred, Types, TypeOK
<1> QED BY <1>2, <1>3, <1>4, <1>5

\* BRPOP takes the last id of a list that the slot's worker consumes.
Pops(s, q, t, list) ==
    /\ list = pending[q][t] /\ Len(list) \in Nat \ {0}
    /\ pending' \in [Queue -> [Tier -> Seq(Job)]]
    /\ pending'[q][t] = SubSeq(list, 1, Len(list) - 1)
    /\ \A r \in Queue, u \in Tier : r # q \/ u # t => pending'[r][u] = pending[r][u]
    /\ list[Len(list)] \in Job
    /\ \E state : /\ Formed(state) /\ Become(s, state) /\ state.pc = "popped"
                  /\ state.job = list[Len(list)] /\ state.held = Absent

LEMMA PopShape ==
  ASSUME Types, NEW s \in Slot, NEW i \in DOMAIN Queues[s], NEW t \in Tier, Pop(s, i, t)
  PROVE  \E q \in Queue, list \in Seq(Job) : Pops(s, q, t, list)
<1>1. PICK q \in Queue : q = Queues[s][i]
  BY QueuesAssumption
<1>2. PICK list \in Seq(Job) : list = pending[q][t]
  BY DEF Types, TypeOK
<1>3. list # <<>> /\ Len(list) \in Nat \ {0} /\ list[Len(list)] \in Job
  <2>1. list # <<>>
    BY <1>1, <1>2 DEF Pop
  <2>2. Len(list) \in Nat \ {0}
    BY <2>1
  <2> QED BY <2>1, <2>2
<1>4. PICK rest \in Seq(Job) : rest = SubSeq(list, 1, Len(list) - 1)
  <2>1. PICK n \in Nat \ {0} : n = Len(list)
    BY <1>3
  <2>2. n - 1 \in Int /\ 1 \in Int
    OBVIOUS
  <2>3. \A k \in 1 .. n - 1 : list[k] \in Job
    BY <2>1
  <2>4. SubSeq(list, 1, n - 1) \in Seq(Job)
    BY <2>2, <2>3, SubSeqProperties
  <2> QED BY <2>1, <2>4
<1>5. pending \in [Queue -> [Tier -> Seq(Job)]]
  BY DEF Types, TypeOK
<1>6. PICK lists \in [Tier -> Seq(Job)] : lists = [pending[q] EXCEPT ![t] = rest]
  BY <1>5
<1>7. pending' = [pending EXCEPT ![q] = lists]
  BY <1>1, <1>2, <1>4, <1>6 DEF Pop, Popped
<1>8. pending' \in [Queue -> [Tier -> Seq(Job)]] /\ pending'[q][t] = rest
  BY <1>5, <1>6, <1>7
<1>9. \A r \in Queue, u \in Tier : r # q \/ u # t => pending'[r][u] = pending[r][u]
  BY <1>5, <1>6, <1>7
<1>10. PICK j \in Job : j = list[Len(list)]
  BY <1>3
<1>11. PICK state : state = [Idle EXCEPT !.pc = "popped", !.job = j]
  OBVIOUS
<1>12. state \in ProcState
  BY <1>11, IdleType DEF ProcState, PC
<1>13. state.pc = "popped" /\ state.job = j /\ state.held = Absent
  BY <1>11 DEF Idle
<1>14. Formed(state)
  BY <1>12, <1>13 DEF Formed, Storing
<1>15. Become(s, state)
  BY <1>1, <1>2, <1>10, <1>11 DEF Pop
<1> QED BY <1>2, <1>3, <1>4, <1>8, <1>9, <1>10, <1>13, <1>14, <1>15 DEF Pops

LEMMA DequeueTypes ==
  ASSUME Types, NEW s \in Slot, Dequeue(s)
  PROVE  Types'
<1>0. s \in Proc
  BY DEF Proc
<1>1. ASSUME PromoteDeferred(s) PROVE Types'
  <2>1. /\ record' = record /\ dependents' = dependents /\ listed' = listed
        /\ filed' = filed /\ expiring' = expiring /\ proc' = proc
        /\ submitted' = submitted /\ calls' = calls /\ crashes' = crashes
    BY <1>1 DEF PromoteDeferred, index
  <2>2. /\ pending' \in [Queue -> [Tier -> Seq(Job)]]
        /\ deferred' \in [Queue -> [Job -> {"none", "later", "due"}]]
    BY <1>1, PromoteShape
  <2> QED BY <2>1, <2>2 DEF Types, TypeOK, Formed, ProcState, PC, After, Owning, Storing
<1>2. ASSUME NEW i \in DOMAIN Queues[s], NEW t \in Tier, Pop(s, i, t) PROVE Types'
  <2>1. /\ record' = record /\ dependents' = dependents /\ listed' = listed
        /\ filed' = filed /\ expiring' = expiring /\ deferred' = deferred
        /\ submitted' = submitted /\ calls' = calls /\ crashes' = crashes
    BY <1>2 DEF Pop, index
  <2>2. /\ pending' \in [Queue -> [Tier -> Seq(Job)]]
        /\ \E state : Formed(state) /\ Become(s, state)
    BY <1>2, PopShape DEF Pops
  <2> QED BY <1>0, <2>1, <2>2, StepTypes DEF Types, TypeOK
<1> QED BY <1>1, <1>2 DEF Dequeue

-----------------------------------------------------------------------------
(* What the steps of a worker's slot do.                                    *)

\* The GET that completes a claim.
LEMMA LoadShape ==
  ASSUME Types, NEW s \in Slot, Load(s)
  PROVE  /\ proc[s].pc = "popped" /\ UNCHANGED <<store, submitted, calls, crashes>>
         /\ \E state : /\ Formed(state) /\ Become(s, state) /\ state.job = proc[s].job
                       /\ IF Exists(proc[s].job)
                          THEN state.pc = "claimed" /\ state.held = record[proc[s].job]
                          ELSE state.pc = "gone"
<1>0. s \in Proc
  BY DEF Proc
<1>1. PICK j \in Job : j = proc[s].job
  BY <1>0, OwnerType DEF Load, Owning
<1>2. proc[s].pc = "popped" /\ UNCHANGED <<store, submitted, calls, crashes>>
  BY DEF Load
<1>3. proc[s] \in ProcState
  BY <1>0, OwnerType
<1>4. CASE Exists(j)
  <2>1. PICK job \in Record : job = record[j]
    BY DEF Types, TypeOK
  <2>2. PICK state : state = [proc[s] EXCEPT !.pc = "claimed", !.held = job]
    OBVIOUS
  <2>3. state \in ProcState /\ state.pc = "claimed" /\ state.held = job /\ state.job = j
    BY <1>1, <1>3, <2>2 DEF ProcState, PC
  <2>4. Become(s, state)
    BY <1>1, <1>4, <2>1, <2>2 DEF Load
  <2> QED BY <1>1, <1>2, <1>4, <2>1, <2>3, <2>4 DEF Formed, Storing
<1>5. CASE ~Exists(j)
  <2>1. PICK state : state = [proc[s] EXCEPT !.pc = "gone"]
    OBVIOUS
  <2>2. state \in ProcState /\ state.pc = "gone" /\ state.job = j
    BY <1>1, <1>3, <2>1 DEF ProcState, PC
  <2>3. Become(s, state)
    BY <1>1, <1>5, <2>1 DEF Load
  <2> QED BY <1>1, <1>2, <1>5, <2>2, <2>3 DEF Formed, Storing
<1> QED BY <1>4, <1>5

\* A process that enters enqueue with an object of its own.
LEMMA EnqueuingShape ==
  ASSUME Types, NEW p \in Proc, NEW j \in Job, NEW job \in Record, job.status # "absent",
         Become(p, Enqueuing(j, job))
  PROVE  \E state : /\ Formed(state) /\ Become(p, state) /\ state.job = j
                    /\ state.held = job /\ state.todo = {}
                    /\ IF DependsOn[j] = {}
                       THEN state.pc = "get" /\ state.push /\ state.next = "look"
                       ELSE state.pc = "register"
<1>1. PICK state : state = Enqueuing(j, job)
  OBVIOUS
<1>2. Formed(state)
  BY <1>1, EnqueuingType
<1>3. CASE DependsOn[j] = {}
  <2>1. /\ state.pc = "get" /\ state.job = j /\ state.held = job
        /\ state.push /\ state.next = "look" /\ state.todo = {}
    BY <1>1, <1>3 DEF Enqueuing, Writing, Idle
  <2> QED BY <1>1, <1>2, <1>3, <2>1
<1>4. CASE DependsOn[j] # {}
  <2>1. state.pc = "register" /\ state.job = j /\ state.held = job /\ state.todo = {}
    BY <1>1, <1>4 DEF Enqueuing, Idle
  <2> QED BY <1>1, <1>2, <1>4, <2>1
<1> QED BY <1>3, <1>4

\* An attempt that ends, or one that is given up: the outcome is about to be
\* written, under the status and by the continuation that belong together.
LEMMA ConcludeShape ==
  ASSUME Types, NEW s \in Slot,
         RejectUnknown(s) \/ Succeed(s) \/ MoveToDLQ(s) \/ Fail(s)
  PROVE  /\ proc[s].pc \in {"claimed", "invoke"}
         /\ UNCHANGED <<store, submitted, calls, crashes>>
         /\ \E state : /\ Formed(state) /\ Become(s, state) /\ state.job = proc[s].job
                       /\ state.pc = "get" /\ ~state.push /\ state.held.due = proc[s].held.due
                       /\ state.todo = {}
                       /\ \/ state.held.status \in {"failed", "dead"} /\ state.next = "return"
                          \/ state.held.status = "completed" /\ state.next = "resolve"
<1>0. s \in Proc 
  BY DEF Proc
<1>r. PICK return \in After : return = "return"
  BY DEF After
<1>c. PICK resolve \in After : resolve = "resolve"
  BY DEF After
<1>1. PICK j \in Job : j = proc[s].job
  BY <1>0, OwnerType DEF RejectUnknown, Succeed, MoveToDLQ, Fail, Owning
<1>2. PICK held \in Record : held = proc[s].held
  BY <1>0, OwnerType
<1>3. CASE RejectUnknown(s) \/ Fail(s)
  <2>a. PICK job : job = [held EXCEPT !.status = "failed"]
    OBVIOUS
  <2>b. job \in Record
    BY <1>2, <2>a DEF Record, JobStatus, Queue
  <2>1. job.status = "failed" /\ job.status # "absent" /\ job.due = held.due
    BY <1>2, <2>a DEF Record
  <2>2. /\ proc[s].pc \in {"claimed", "invoke"}
        /\ UNCHANGED <<store, submitted, calls, crashes>>
        /\ Become(s, Writing(j, job, FALSE, return))
    BY <1>r, <1>1, <1>2, <1>3, <2>a DEF RejectUnknown, Fail, Conclude
  <2>3. PICK state : state = Writing(j, job, FALSE, return)
    OBVIOUS
  <2>4. /\ state.pc = "get" /\ state.job = j /\ state.held = job
        /\ ~state.push /\ state.next = return /\ state.todo = {}
    BY <2>3 DEF Writing, Idle
  <2>5. Formed(state) /\ Become(s, state)
    BY <2>b, <2>1, <2>2, <2>3, WritingType
  <2> QED BY <1>r, <1>c, <1>1, <1>2, <2>1, <2>2, <2>4, <2>5
<1>4. CASE MoveToDLQ(s)
  <2>a. PICK job : job = [held EXCEPT !.status = "dead", !.queue = "dlq"]
    OBVIOUS
  <2>b. job \in Record
    BY <1>2, <2>a DEF Record, JobStatus, Queue
  <2>1. job.status = "dead" /\ job.status # "absent" /\ job.due = held.due
    BY <1>2, <2>a DEF Record
  <2>2. /\ proc[s].pc \in {"claimed", "invoke"}
        /\ UNCHANGED <<store, submitted, calls, crashes>>
        /\ Become(s, Writing(j, job, FALSE, return))
    BY <1>r, <1>1, <1>2, <1>4, <2>a DEF MoveToDLQ, Conclude
  <2>3. PICK state : state = Writing(j, job, FALSE, return)
    OBVIOUS
  <2>4. /\ state.pc = "get" /\ state.job = j /\ state.held = job
        /\ ~state.push /\ state.next = return /\ state.todo = {}
    BY <2>3 DEF Writing, Idle
  <2>5. Formed(state) /\ Become(s, state)
    BY <2>b, <2>1, <2>2, <2>3, WritingType
  <2> QED BY <1>r, <1>c, <1>1, <1>2, <2>1, <2>2, <2>4, <2>5
<1>5. CASE Succeed(s)
  <2>a. PICK job : job = [held EXCEPT !.status = "completed"]
    OBVIOUS
  <2>b. job \in Record
    BY <1>2, <2>a DEF Record, JobStatus, Queue
  <2>1. job.status = "completed" /\ job.status # "absent" /\ job.due = held.due
    BY <1>2, <2>a DEF Record
  <2>2. /\ proc[s].pc \in {"claimed", "invoke"}
        /\ UNCHANGED <<store, submitted, calls, crashes>>
        /\ Become(s, Writing(j, job, FALSE, resolve))
    BY <1>c, <1>1, <1>2, <1>5, <2>a DEF Succeed, Conclude
  <2>3. PICK state : state = Writing(j, job, FALSE, resolve)
    OBVIOUS
  <2>4. /\ state.pc = "get" /\ state.job = j /\ state.held = job
        /\ ~state.push /\ state.next = resolve /\ state.todo = {}
    BY <2>3 DEF Writing, Idle
  <2>5. Formed(state) /\ Become(s, state)
    BY <2>b, <2>1, <2>2, <2>3, WritingType
  <2> QED BY <1>r, <1>c, <1>1, <1>2, <2>1, <2>2, <2>4, <2>5
<1> QED BY <1>3, <1>4, <1>5

LEMMA CheckCancelledShape ==
  ASSUME Types, NEW s \in Slot, CheckCancelled(s)
  PROVE  /\ proc[s].pc = "claimed"
         /\ UNCHANGED <<store, submitted, calls, crashes>>
         /\ \/ Become(s, Idle)
            \/ \E state : /\ Formed(state) /\ Become(s, state) /\ state.job = proc[s].job
                          /\ state.pc = "get" /\ ~state.push /\ state.next = "invoke"
                          /\ state.held.due = proc[s].held.due
                          /\ state.held.status = "running" /\ state.todo = {}
<1>0. s \in Proc 
  BY DEF Proc
<1>n. PICK invoke \in After : invoke = "invoke"
  BY DEF After
<1>1. PICK j \in Job : j = proc[s].job
  BY <1>0, OwnerType DEF CheckCancelled, Owning
<1>2. PICK held \in Record : held = proc[s].held
  BY <1>0, OwnerType
<1>a. PICK job : job = [held EXCEPT !.status = "running"]
  OBVIOUS
<1>b. job \in Record
  BY <1>2, <1>a DEF Record, JobStatus, Queue
<1>3. job.status = "running" /\ job.status # "absent" /\ job.due = held.due
  BY <1>2, <1>a DEF Record
<1>4. /\ proc[s].pc = "claimed" /\ UNCHANGED <<store, submitted, calls, crashes>>
      /\ Become(s, Idle) \/ Become(s, Writing(j, job, FALSE, invoke))
  BY <1>n, <1>1, <1>2, <1>a DEF CheckCancelled
<1>5. PICK state : state = Writing(j, job, FALSE, invoke)
  OBVIOUS
<1>6. /\ state.pc = "get" /\ state.job = j /\ state.held = job
      /\ ~state.push /\ state.next = invoke /\ state.todo = {}
  BY <1>5 DEF Writing, Idle
<1>7. Formed(state)
  BY <1>b, <1>3, <1>5, WritingType
<1> QED BY <1>n, <1>1, <1>2, <1>3, <1>4, <1>5, <1>6, <1>7

LEMMA ScheduleRetryShape ==
  ASSUME Types, NEW s \in Slot, NEW due \in BOOLEAN, ScheduleRetry(s, due)
  PROVE  /\ proc[s].pc = "invoke"
         /\ UNCHANGED <<store, submitted, calls, crashes>>
         /\ \E state : /\ Formed(state) /\ Become(s, state) /\ state.job = proc[s].job
                       /\ state.held.due = due /\ state.held.status = "retrying"
                       /\ state.todo = {}
                       /\ IF DependsOn[proc[s].job] = {}
                          THEN state.pc = "get" /\ state.push /\ state.next = "look"
                          ELSE state.pc = "register"
<1>0. s \in Proc
  BY DEF Proc
<1>1. PICK j \in Job : j = proc[s].job
  BY <1>0, OwnerType DEF ScheduleRetry, Owning
<1>2. PICK held \in Record : held = proc[s].held
  BY <1>0, OwnerType
<1>a. PICK job : job = Retrying(held, due)
  OBVIOUS
<1>b. job \in Record
  BY <1>2, <1>a DEF Retrying, Record, JobStatus
<1>3. job.status = "retrying" /\ job.due = due
  BY <1>a DEF Retrying
<1>4. /\ proc[s].pc = "invoke" /\ UNCHANGED <<store, submitted, calls, crashes>>
      /\ Become(s, Enqueuing(j, job))
  BY <1>1, <1>2, <1>a DEF ScheduleRetry
<1>5. \E state : /\ Formed(state) /\ Become(s, state) /\ state.job = j
                 /\ state.held = job /\ state.todo = {}
                 /\ IF DependsOn[j] = {}
                    THEN state.pc = "get" /\ state.push /\ state.next = "look"
                    ELSE state.pc = "register"
  BY <1>0, <1>b, <1>3, <1>4, EnqueuingShape
<1> QED BY <1>1, <1>3, <1>4, <1>5

-----------------------------------------------------------------------------
(* What the round trips of _write_job, enqueue and the promotion do.        *)

LEMMA GetOldShape ==
  ASSUME Types, NEW p \in Proc, GetOld(p)
  PROVE  /\ proc[p].pc = "get" /\ UNCHANGED <<store, submitted, calls, crashes>>
         /\ \E state : /\ Formed(state) /\ Become(p, state) /\ state.pc = "write"
                       /\ state.job = proc[p].job /\ state.held = proc[p].held
                       /\ state.push = proc[p].push /\ state.next = proc[p].next
                       /\ state.todo = proc[p].todo
<1>1. PICK j \in Job : j = proc[p].job
  BY OwnerType DEF GetOld, Owning
<1>2. proc[p].pc = "get" /\ UNCHANGED <<store, submitted, calls, crashes>>
  BY DEF GetOld
<1>3. PICK before \in ProcState : before = proc[p]
  BY OwnerType
<1>4. before.held.status # "absent" /\ before.job = j
  BY <1>1, <1>2, <1>3, OwnerType DEF Storing
<1>5. PICK job \in Record : job = record[j]
  BY DEF Types, TypeOK
<1>6. PICK state : state = [before EXCEPT !.pc = "write", !.old = job]
  OBVIOUS
<1>7. /\ state \in ProcState /\ state.pc = "write" /\ state.job = before.job
      /\ state.held = before.held /\ state.push = before.push /\ state.next = before.next
      /\ state.todo = before.todo
  BY <1>6 DEF ProcState, PC
<1>8. Formed(state)
  BY <1>4, <1>7 DEF Formed, Storing
<1>9. Become(p, state)
  BY <1>1, <1>3, <1>5, <1>6 DEF GetOld
<1> QED BY <1>2, <1>3, <1>7, <1>8, <1>9

\* Where the process goes after the transaction of _write_job.
LEMMA ContinueShape ==
  ASSUME Types, NEW p \in Proc, proc[p].pc = "write", Continue(p)
  PROVE  \E state :
           /\ Formed(state) /\ Become(p, state)
           /\ proc[p].next = "invoke" =>
                state.pc = "invoke" /\ state.job = proc[p].job /\ state.held = proc[p].held
           /\ proc[p].next = "resolve" =>
                state.pc = "resolve" /\ state.job = proc[p].job /\ state.held = proc[p].held
           /\ proc[p].next = "enqueue" =>
                /\ state.job = proc[p].job /\ state.held = proc[p].held
                /\ IF DependsOn[proc[p].job] = {}
                   THEN state.pc = "get" /\ state.push /\ state.next = "look"
                   ELSE state.pc = "register"
           /\ proc[p].next = "look" =>
                /\ state.job = None
                /\ IF proc[p].held.status = "waiting"
                   THEN state.pc = "promote" /\ state.todo = {proc[p].job}
                   ELSE state.pc = "idle"
           /\ proc[p].next \notin {"invoke", "resolve", "enqueue", "look"} =>
                state.pc = "idle" /\ state.job = None
<1>1. PICK j \in Job : j = proc[p].job
  BY OwnerType DEF Owning
<1>2. PICK job \in Record : job = proc[p].held
  BY OwnerType
<1>3. job.status # "absent"
  BY <1>2, OwnerType DEF Storing
<1>4. PICK next \in After : next = proc[p].next
  BY OwnerType
<1>5. ASSUME NEW pc \in {"invoke", "resolve"}, next = pc
      PROVE  \E state : /\ Formed(state) /\ Become(p, state) /\ state.pc = pc
                        /\ state.job = j /\ state.held = job
  <2>1. PICK state : state = [Idle EXCEPT !.pc = pc, !.job = j, !.held = job]
    OBVIOUS
  <2>2. state \in ProcState
    BY <2>1, IdleType DEF ProcState, PC
  <2>3. state.pc = pc /\ state.job = j /\ state.held = job
    BY <2>1 DEF Idle
  <2>4. Become(p, state)
    BY <1>1, <1>2, <1>4, <1>5, <2>1 DEF Continue
  <2>5. Formed(state)
    BY <2>2, <2>3 DEF Formed, Storing
  <2> QED BY <2>3, <2>4, <2>5
<1>6. CASE next = "invoke"
  BY <1>1, <1>2, <1>4, <1>5, <1>6
<1>7. CASE next = "resolve"
  BY <1>1, <1>2, <1>4, <1>5, <1>7
<1>8. CASE next = "enqueue"
  <2>1. Become(p, Enqueuing(j, job))
    BY <1>1, <1>2, <1>4, <1>8 DEF Continue
  <2>2. \E state : /\ Formed(state) /\ Become(p, state) /\ state.job = j
                   /\ state.held = job /\ state.todo = {}
                   /\ IF DependsOn[j] = {}
                      THEN state.pc = "get" /\ state.push /\ state.next = "look"
                      ELSE state.pc = "register"
    BY <1>3, <2>1, EnqueuingShape
  <2> QED BY <1>1, <1>2, <1>4, <1>8, <2>2
<1>9. CASE next = "look"
  <2>1. PICK todo \in SUBSET Job : todo = LookAgain(j, job)
    BY DEF LookAgain
  <2>2. PICK state : state = Promoting(todo)
    OBVIOUS
  <2>3. Become(p, state)
    BY <1>1, <1>2, <1>4, <1>9, <2>1, <2>2 DEF Continue
  <2>4. /\ Formed(state) /\ state.todo = todo /\ state.job = None
        /\ state.pc = (IF todo = {} THEN "idle" ELSE "promote")
    BY <2>2, PromotingType
  <2>5. todo = IF job.status = "waiting" THEN {j} ELSE {}
    BY <2>1 DEF LookAgain
  <2> QED BY <1>1, <1>2, <1>4, <1>9, <2>3, <2>4, <2>5
<1>10. CASE next \notin {"invoke", "resolve", "enqueue", "look"}
  <2>1. Become(p, Idle)
    BY <1>4, <1>10 DEF Continue, Return
  <2>2. Idle.pc = "idle" /\ Idle.job = None
    BY DEF Idle
  <2> QED BY <1>4, <1>10, <2>1, <2>2, IdleType
<1> QED BY <1>6, <1>7, <1>8, <1>9, <1>10

\* The transaction: the record, its index entries, and where the id is put.
LEMMA WriteShape ==
  ASSUME Types, NEW p \in Proc, Write(p)
  PROVE  LET j == proc[p].job
             job == proc[p].held
         IN  /\ proc[p].pc = "write" /\ j \in Job /\ job \in Record /\ job.status # "absent"
             /\ Continue(p)
             /\ record' = [record EXCEPT ![j] = job]
             /\ listed' = [listed EXCEPT ![j] = Relist(j, proc[p].old, job)]
             /\ filed' = [filed EXCEPT ![j] = Refile(j, proc[p].old, job)]
             /\ expiring' = IF Expires(j, job) THEN expiring \cup {<<j, job.queue>>}
                            ELSE expiring
             /\ UNCHANGED <<dependents, submitted, calls, crashes>>
             /\ pending' \in [Queue -> [Tier -> Seq(Job)]]
             /\ deferred' \in [Queue -> [Job -> {"none", "later", "due"}]]
             /\ ~proc[p].push \/ job.status = "waiting" =>
                  pending' = pending /\ deferred' = deferred
             /\ proc[p].push /\ job.status # "waiting" /\ job.due =>
                  LPush(j, job.queue) /\ deferred' = deferred
             /\ proc[p].push /\ job.status # "waiting" /\ ~job.due =>
                  /\ pending' = pending
                  /\ deferred'[job.queue][j] = "later"
                  /\ \A q \in Queue, k \in Job : q # job.queue \/ k # j =>
                       deferred'[q][k] = deferred[q][k]
<1>1. PICK j \in Job : j = proc[p].job
  BY OwnerType DEF Write, Owning
<1>2. PICK job \in Record : job = proc[p].held
  BY OwnerType
<1>3. proc[p].pc = "write" /\ job.status # "absent"
  BY <1>2, OwnerType DEF Write, Storing
<1>4. /\ Continue(p)
      /\ record' = [record EXCEPT ![j] = job]
      /\ listed' = [listed EXCEPT ![j] = Relist(j, proc[p].old, job)]
      /\ filed' = [filed EXCEPT ![j] = Refile(j, proc[p].old, job)]
      /\ expiring' = IF Expires(j, job) THEN expiring \cup {<<j, job.queue>>} ELSE expiring
      /\ UNCHANGED <<dependents, submitted, calls, crashes>>
  BY <1>1, <1>2 DEF Write
<1>5. /\ pending \in [Queue -> [Tier -> Seq(Job)]]
      /\ deferred \in [Queue -> [Job -> {"none", "later", "due"}]]
  BY DEF Types, TypeOK
<1>6. job.queue \in Queue
  BY DEF Record
<1>7. CASE ~proc[p].push \/ job.status = "waiting"
  <2>1. pending' = pending /\ deferred' = deferred
    BY <1>2, <1>7 DEF Write
  <2> QED BY <1>1, <1>2, <1>3, <1>4, <1>5, <1>7, <2>1
<1>8. CASE proc[p].push /\ job.status # "waiting" /\ job.due
  <2>1. LPush(j, job.queue) /\ deferred' = deferred
    BY <1>1, <1>2, <1>8 DEF Write
  <2>2. pending' \in [Queue -> [Tier -> Seq(Job)]]
    BY <1>6, <2>1, LPushType
  <2> QED BY <1>1, <1>2, <1>3, <1>4, <1>5, <1>8, <2>1, <2>2
<1>9. CASE proc[p].push /\ job.status # "waiting" /\ ~job.due
  <2>1. PICK queue \in Queue : queue = job.queue
    BY <1>6
  <2>2. PICK entries \in [Job -> {"none", "later", "due"}] :
          entries = [deferred[queue] EXCEPT ![j] = "later"]
    BY <1>5
  <2>3. pending' = pending /\ deferred' = [deferred EXCEPT ![queue] = entries]
    BY <1>1, <1>2, <1>9, <2>1, <2>2 DEF Write
  <2>4. /\ deferred' \in [Queue -> [Job -> {"none", "later", "due"}]]
        /\ deferred'[queue][j] = "later"
        /\ \A q \in Queue, k \in Job : q # queue \/ k # j => deferred'[q][k] = deferred[q][k]
    BY <1>5, <2>2, <2>3
  <2> QED BY <1>1, <1>2, <1>3, <1>4, <1>5, <1>9, <2>1, <2>3, <2>4
<1> QED BY <1>7, <1>8, <1>9

LEMMA RegisterShape ==
  ASSUME Types, NEW p \in Proc, Register(p)
  PROVE  /\ proc[p].pc = "register" /\ proc[p].job \in Job
         /\ UNCHANGED <<record, pending, deferred, index, submitted, calls, crashes>>
         /\ dependents' \in [Job -> SUBSET Job]
         /\ \A d \in Job : dependents[d] \subseteq dependents'[d]
         /\ \A d \in DependsOn[proc[p].job] : proc[p].job \in dependents'[d]
         /\ \E state : /\ Formed(state) /\ Become(p, state) /\ state.pc = "check"
                       /\ state.job = proc[p].job /\ state.held = proc[p].held
                       /\ state.next = proc[p].next /\ state.push = proc[p].push
<1>1. PICK j \in Job : j = proc[p].job
  BY OwnerType DEF Register, Owning
<1>2. /\ proc[p].pc = "register"
      /\ UNCHANGED <<record, pending, deferred, index, submitted, calls, crashes>>
  BY DEF Register
<1>3. PICK before \in ProcState : before = proc[p]
  BY OwnerType
<1>4. before.held.status # "absent" /\ before.job = j
  BY <1>1, <1>2, <1>3, OwnerType DEF Storing
<1>5. PICK deps \in SUBSET Job : deps = DependsOn[j]
  BY DependsOnAssumption
<1>6. PICK state : state = [before EXCEPT !.pc = "check", !.deps = deps]
  OBVIOUS
<1>7. /\ state \in ProcState /\ state.pc = "check" /\ state.job = before.job
      /\ state.held = before.held /\ state.next = before.next /\ state.push = before.push
  BY <1>6 DEF ProcState, PC
<1>8. Formed(state)
  BY <1>4, <1>7 DEF Formed, Storing
<1>9. Become(p, state)
  BY <1>1, <1>3, <1>5, <1>6 DEF Register
<1>10. dependents' = [d \in Job |-> IF d \in deps THEN dependents[d] \cup {j}
                                    ELSE dependents[d]]
  BY <1>1, <1>5 DEF Register
<1>11. dependents \in [Job -> SUBSET Job]
  BY DEF Types, TypeOK
<1>12. /\ dependents' \in [Job -> SUBSET Job]
       /\ \A d \in Job : dependents[d] \subseteq dependents'[d]
       /\ \A d \in deps : j \in dependents'[d]
  BY <1>10, <1>11
<1> QED BY <1>1, <1>2, <1>3, <1>5, <1>7, <1>8, <1>9, <1>12

\* A dependency that is not completed makes the job wait.  The last one that is
\* lets it be written as it is.
LEMMA CheckDepShape ==
  ASSUME Types, NEW p \in Proc, NEW d \in Job, CheckDep(p, d)
  PROVE  /\ proc[p].pc = "check" /\ proc[p].job \in Job
         /\ UNCHANGED <<store, submitted, calls, crashes>>
         /\ \E state : /\ Formed(state) /\ Become(p, state) /\ state.job = proc[p].job
                       /\ \/ /\ state.pc = "get" /\ state.push /\ state.next = "look"
                             /\ state.held.status = "waiting"
                             /\ state.held.due = proc[p].held.due
                          \/ /\ state.pc = "get" /\ state.push /\ state.next = "look"
                             /\ state.held = proc[p].held
                          \/ /\ state.pc = "check" /\ state.held = proc[p].held
<1>1. PICK j \in Job : j = proc[p].job
  BY OwnerType DEF CheckDep, Owning
<1>2. /\ proc[p].pc = "check" /\ UNCHANGED <<store, submitted, calls, crashes>>
  BY DEF CheckDep
<1>3. PICK before \in ProcState : before = proc[p]
  BY OwnerType
<1>4. PICK held \in Record : held = before.held
  BY DEF ProcState
<1>5. held.status # "absent" /\ before.job = j
  BY <1>1, <1>2, <1>3, <1>4, OwnerType DEF Storing
<1>6. PICK rest \in SUBSET Job : rest = proc[p].deps \ {d}
  BY OwnerType
<1>7. "look" \in After
  BY DEF After
<1>8. CASE ~Completed(d)
  <2>1. PICK job : job = [held EXCEPT !.status = "waiting"]
    OBVIOUS
  <2>2. job \in Record
    BY <2>1 DEF Record, JobStatus
  <2>3. job.status = "waiting" /\ job.due = held.due
    BY <2>1 DEF Record
  <2>4. PICK state : state = Writing(j, job, TRUE, "look")
    OBVIOUS
  <2>5. /\ state.pc = "get" /\ state.job = j /\ state.held = job
        /\ state.push /\ state.next = "look"
    BY <2>4 DEF Writing, Idle
  <2>6. Formed(state)
    BY <1>7, <2>2, <2>3, <2>4, WritingType
  <2>7. Become(p, state)
    BY <1>1, <1>3, <1>4, <1>8, <2>1, <2>4 DEF CheckDep
  <2> QED BY <1>1, <1>2, <1>3, <1>4, <2>3, <2>5, <2>6, <2>7
<1>9. CASE Completed(d) /\ rest = {}
  <2>4. PICK state : state = Writing(j, held, TRUE, "look")
    OBVIOUS
  <2>5. /\ state.pc = "get" /\ state.job = j /\ state.held = held
        /\ state.push /\ state.next = "look"
    BY <2>4 DEF Writing, Idle
  <2>6. Formed(state)
    BY <1>5, <1>7, <2>4, WritingType
  <2>7. Become(p, state)
    BY <1>1, <1>3, <1>4, <1>6, <1>9, <2>4 DEF CheckDep
  <2> QED BY <1>1, <1>2, <1>3, <1>4, <2>5, <2>6, <2>7
<1>10. CASE Completed(d) /\ rest # {}
  <2>4. PICK state : state = [before EXCEPT !.deps = rest]
    OBVIOUS
  <2>5. /\ state \in ProcState /\ state.pc = "check" /\ state.job = j
        /\ state.held = held
    BY <1>2, <1>3, <1>4, <1>5, <2>4 DEF ProcState
  <2>6. Formed(state)
    BY <1>5, <2>5 DEF Formed
  <2>7. Become(p, state)
    BY <1>3, <1>6, <1>10, <2>4 DEF CheckDep
  <2> QED BY <1>1, <1>2, <1>3, <1>4, <2>5, <2>6, <2>7
<1> QED BY <1>8, <1>9, <1>10

LEMMA ResolveShape ==
  ASSUME Types, NEW p \in Proc, Resolve(p)
  PROVE  /\ proc[p].pc = "resolve" /\ proc[p].job \in Job
         /\ UNCHANGED <<store, submitted, calls, crashes>>
         /\ \E state : /\ Formed(state) /\ Become(p, state) /\ state.job = None
                       /\ state.todo = dependents[proc[p].job]
                       /\ state.pc = (IF state.todo = {} THEN "idle" ELSE "promote")
<1>1. PICK j \in Job : j = proc[p].job
  BY OwnerType DEF Resolve, Owning
<1>2. PICK todo \in SUBSET Job : todo = dependents[j]
  BY DEF Types, TypeOK
<1>3. PICK state : state = Promoting(todo)
  OBVIOUS
<1>4. /\ Formed(state) /\ state.job = None /\ state.todo = todo
      /\ state.pc = (IF todo = {} THEN "idle" ELSE "promote")
  BY <1>3, PromotingType
<1>5. /\ proc[p].pc = "resolve" /\ UNCHANGED <<store, submitted, calls, crashes>>
      /\ Become(p, state)
  BY <1>1, <1>2, <1>3 DEF Resolve
<1> QED BY <1>1, <1>2, <1>4, <1>5

LEMMA PromoteGetShape ==
  ASSUME Types, NEW p \in Proc, NEW j \in Job, PromoteGet(p, j)
  PROVE  /\ proc[p].pc = "promote" /\ j \in proc[p].todo
         /\ UNCHANGED <<store, submitted, calls, crashes>>
         /\ \E state : /\ Formed(state) /\ Become(p, state) /\ state.todo = proc[p].todo \ {j}
                       /\ IF record[j].status = "waiting"
                          THEN state.pc = "deps" /\ state.job = j /\ state.deps = DependsOn[j]
                          ELSE /\ state.job = None
                               /\ state.pc = (IF state.todo = {} THEN "idle" ELSE "promote")
<1>1. /\ proc[p].pc = "promote" /\ j \in proc[p].todo
      /\ UNCHANGED <<store, submitted, calls, crashes>>
  BY DEF PromoteGet
<1>2. PICK before \in ProcState : before = proc[p]
  BY OwnerType
<1>3. PICK job \in Record : job = record[j]
  BY DEF Types, TypeOK
<1>4. PICK rest \in SUBSET Job : rest = proc[p].todo \ {j}
  BY OwnerType
<1>5. CASE record[j].status = "waiting"
  <2>1. PICK deps \in SUBSET Job : deps = DependsOn[j]
    BY DependsOnAssumption
  <2>2. PICK state : state = [before EXCEPT !.pc = "deps", !.job = j, !.held = job,
                                            !.todo = rest, !.deps = deps]
    OBVIOUS
  <2>3. state \in ProcState
    BY <2>2 DEF ProcState, PC
  <2>4. state.pc = "deps" /\ state.job = j /\ state.todo = rest /\ state.deps = deps
    BY <2>2 DEF ProcState
  <2>5. Become(p, state)
    BY <1>2, <1>3, <1>4, <1>5, <2>1, <2>2 DEF PromoteGet
  <2>6. Formed(state)
    BY <2>3, <2>4 DEF Formed, Storing
  <2> QED BY <1>1, <1>4, <1>5, <2>1, <2>4, <2>5, <2>6
<1>6. CASE record[j].status # "waiting"
  <2>1. PICK state : state = Promoting(rest)
    OBVIOUS
  <2>2. /\ Formed(state) /\ state.job = None /\ state.todo = rest
        /\ state.pc = (IF rest = {} THEN "idle" ELSE "promote")
    BY <2>1, PromotingType
  <2>3. Become(p, state)
    BY <1>4, <1>6, <2>1 DEF PromoteGet
  <2> QED BY <1>1, <1>4, <1>6, <2>2, <2>3
<1> QED BY <1>5, <1>6

LEMMA PromoteDepShape ==
  ASSUME Types, NEW p \in Proc, NEW d \in Job, PromoteDep(p, d)
  PROVE  /\ proc[p].pc = "deps" /\ d \in proc[p].deps
         /\ UNCHANGED <<store, submitted, calls, crashes>>
         /\ \E state : /\ Formed(state) /\ Become(p, state) /\ state.todo = proc[p].todo
                       /\ IF Completed(d)
                          THEN /\ state.pc \in {"deps", "wake"} /\ state.job = proc[p].job
                               /\ state.deps = proc[p].deps \ {d}
                          ELSE /\ state.job = None
                               /\ state.pc = (IF state.todo = {} THEN "idle" ELSE "promote")
<1>1. /\ proc[p].pc = "deps" /\ d \in proc[p].deps
      /\ UNCHANGED <<store, submitted, calls, crashes>>
  BY DEF PromoteDep
<1>2. PICK before \in ProcState : before = proc[p]
  BY OwnerType
<1>3. before.job \in Job
  BY <1>1, <1>2, OwnerType DEF Owning
<1>4. PICK rest \in SUBSET Job : rest = proc[p].deps \ {d}
  BY OwnerType
<1>5. CASE Completed(d)
  <2>1. PICK pc \in {"deps", "wake"} : pc = IF rest = {} THEN "wake" ELSE "deps"
    OBVIOUS
  <2>2. PICK state : state = [before EXCEPT !.pc = pc, !.deps = rest]
    OBVIOUS
  <2>3. state \in ProcState
    BY <2>2 DEF ProcState, PC
  <2>4. state.pc = pc /\ state.job = before.job /\ state.todo = before.todo
        /\ state.deps = rest
    BY <2>2 DEF ProcState
  <2>5. Become(p, state)
    BY <1>2, <1>4, <1>5, <2>1, <2>2 DEF PromoteDep
  <2>6. Formed(state)
    BY <1>3, <2>3, <2>4 DEF Formed, Storing
  <2> QED BY <1>1, <1>2, <1>4, <1>5, <2>4, <2>5, <2>6
<1>6. CASE ~Completed(d)
  <2>1. PICK todo \in SUBSET Job : todo = proc[p].todo
    BY OwnerType
  <2>2. PICK state : state = Promoting(todo)
    OBVIOUS
  <2>3. /\ Formed(state) /\ state.job = None /\ state.todo = todo
        /\ state.pc = (IF todo = {} THEN "idle" ELSE "promote")
    BY <2>2, PromotingType
  <2>4. Become(p, state)
    BY <1>6, <2>1, <2>2 DEF PromoteDep
  <2> QED BY <1>1, <1>6, <2>1, <2>3, <2>4
<1> QED BY <1>5, <1>6

LEMMA WakeShape ==
  ASSUME Types, NEW p \in Proc, Wake(p)
  PROVE  /\ proc[p].pc = "wake" /\ proc[p].job \in Job
         /\ UNCHANGED <<deferred, dependents, filed, expiring, submitted, calls, crashes>>
         /\ pending' \in [Queue -> [Tier -> Seq(Job)]]
         /\ LPush(proc[p].job, proc[p].held.queue) /\ proc[p].held.queue \in Queue
         /\ listed' \in [Job -> SUBSET JobStatus]
         /\ \E job \in Record : /\ job.status = "pending"
                                /\ record' = [record EXCEPT ![proc[p].job] = job]
         /\ \E state : /\ Formed(state) /\ Become(p, state) /\ state.job = None
                       /\ state.todo = proc[p].todo
                       /\ state.pc = (IF state.todo = {} THEN "idle" ELSE "promote")
<1>1. PICK j \in Job : j = proc[p].job
  BY OwnerType DEF Wake, Owning
<1>2. PICK held \in Record : held = proc[p].held
  BY OwnerType
<1>3. PICK job : job = [held EXCEPT !.status = "pending"]
  OBVIOUS
<1>4. job \in Record
  BY <1>3 DEF Record, JobStatus
<1>5. job.status = "pending"
  BY <1>3 DEF Record
<1>6. /\ proc[p].pc = "wake" /\ record' = [record EXCEPT ![j] = job]
      /\ UNCHANGED <<deferred, dependents, filed, expiring, submitted, calls, crashes>>
      /\ LPush(j, held.queue)
      /\ listed' = [listed EXCEPT ![j] = (listed[j] \ {"waiting"}) \cup {"pending"}]
  BY <1>1, <1>2, <1>3 DEF Wake
<1>7. held.queue \in Queue
  BY DEF Record
<1>8. pending' \in [Queue -> [Tier -> Seq(Job)]]
  BY <1>6, <1>7, LPushType
<1>9. listed' \in [Job -> SUBSET JobStatus]
  BY <1>6 DEF Types, TypeOK, JobStatus
<1>10. PICK todo \in SUBSET Job : todo = proc[p].todo
  BY OwnerType
<1>11. PICK state : state = Promoting(todo)
  OBVIOUS
<1>12. /\ Formed(state) /\ state.job = None /\ state.todo = todo
       /\ state.pc = (IF todo = {} THEN "idle" ELSE "promote")
  BY <1>11, PromotingType
<1>13. Become(p, state)
  BY <1>10, <1>11 DEF Wake
<1> QED BY <1>1, <1>2, <1>4, <1>5, <1>6, <1>7, <1>8, <1>9, <1>10, <1>12, <1>13

-----------------------------------------------------------------------------
(* What the client operations do.                                           *)

LEMMA EnqueueShape ==
  ASSUME Types, NEW c \in Client, NEW j \in Job, NEW due \in BOOLEAN, Enqueue(c, j, due)
  PROVE  /\ proc[c].pc = "idle" /\ j \notin submitted /\ submitted' = submitted \cup {j}
         /\ UNCHANGED <<store, calls, crashes>>
         /\ \E state : /\ Formed(state) /\ Become(c, state) /\ state.job = j
                       /\ state.held.status = "pending" /\ state.held.due = due
                       /\ IF DependsOn[j] = {}
                          THEN state.pc = "get" /\ state.push /\ state.next = "look"
                          ELSE state.pc = "register"
<1>0. c \in Proc
  BY DEF Proc
<1>1. PICK job : job = Fresh(due)
  OBVIOUS
<1>2. job \in Record /\ job.status = "pending" /\ job.due = due
  BY <1>1, NewType
<1>3. /\ proc[c].pc = "idle" /\ j \notin submitted /\ submitted' = submitted \cup {j}
      /\ UNCHANGED <<store, calls, crashes>>
      /\ Become(c, Enqueuing(j, job))
  BY <1>1 DEF Enqueue
<1>4. job.status # "absent"
  BY <1>2
<1>5. \E state : /\ Formed(state) /\ Become(c, state) /\ state.job = j
                 /\ state.held = job /\ state.todo = {}
                 /\ IF DependsOn[j] = {}
                    THEN state.pc = "get" /\ state.push /\ state.next = "look"
                    ELSE state.pc = "register"
  BY <1>0, <1>2, <1>3, <1>4, EnqueuingShape
<1> QED BY <1>2, <1>3, <1>5

\* The operations that read a job and write it begin with an object of theirs.
LEMMA RetryShape ==
  ASSUME Types, NEW c \in Client, NEW j \in Job, RetryJob(c, j)
  PROVE  /\ proc[c].pc = "idle" /\ record[j].status \in RETRIABLE_STATUSES
         /\ calls' = calls + 1 /\ UNCHANGED <<store, submitted, crashes>>
         /\ \E state : /\ Formed(state) /\ Become(c, state) /\ state.job = j
                       /\ state.held.status = "pending" /\ state.held.due
                       /\ state.pc = "get" /\ state.push /\ state.next = "return"
<1>1. PICK before \in Record : before = record[j]
  BY DEF Types, TypeOK
<1>2. PICK job : job = Reset(before)
  OBVIOUS
<1>3. job \in Record /\ job.status = "pending" /\ job.due
  BY <1>2, ObjectType
<1>4. PICK state : state = Writing(j, job, TRUE, "return")
  OBVIOUS
<1>5. /\ state.pc = "get" /\ state.job = j /\ state.held = job
      /\ state.push /\ state.next = "return"
  BY <1>4 DEF Writing, Idle
<1>6. "return" \in After
  BY DEF After
<1>7. Formed(state)
  BY <1>3, <1>4, <1>6, WritingType
<1>8. /\ proc[c].pc = "idle" /\ record[j].status \in RETRIABLE_STATUSES
      /\ calls' = calls + 1 /\ UNCHANGED <<store, submitted, crashes>>
      /\ Become(c, state)
  BY <1>1, <1>2, <1>4 DEF RetryJob, Called
<1> QED BY <1>3, <1>5, <1>7, <1>8

LEMMA CancelShape ==
  ASSUME Types, NEW c \in Client, NEW j \in Job, CancelJob(c, j)
  PROVE  /\ proc[c].pc = "idle" /\ record[j].status \in CANCELLABLE_STATUSES
         /\ calls' = calls + 1 /\ UNCHANGED <<store, submitted, crashes>>
         /\ \E state : /\ Formed(state) /\ Become(c, state) /\ state.job = j
                       /\ state.held.status = "cancelled" /\ state.held.due = record[j].due
                       /\ state.pc = "get" /\ ~state.push /\ state.next = "return"
<1>1. PICK before \in Record : before = record[j]
  BY DEF Types, TypeOK
<1>2. PICK job : job = [before EXCEPT !.status = "cancelled"]
  OBVIOUS
<1>3. job \in Record
  BY <1>2 DEF Record, JobStatus
<1>a. job.status = "cancelled" /\ job.due = before.due
  BY <1>2 DEF Record
<1>4. PICK state : state = Writing(j, job, FALSE, "return")
  OBVIOUS
<1>5. /\ state.pc = "get" /\ state.job = j /\ state.held = job
      /\ ~state.push /\ state.next = "return"
  BY <1>4 DEF Writing, Idle
<1>6. "return" \in After
  BY DEF After
<1>7. Formed(state)
  BY <1>3, <1>a, <1>4, <1>6, WritingType
<1>8. /\ proc[c].pc = "idle" /\ record[j].status \in CANCELLABLE_STATUSES
      /\ calls' = calls + 1 /\ UNCHANGED <<store, submitted, crashes>>
      /\ Become(c, state)
  BY <1>1, <1>2, <1>4 DEF CancelJob, Called
<1> QED BY <1>1, <1>a, <1>5, <1>7, <1>8

LEMMA ReplayShape ==
  ASSUME Types, NEW c \in Client, NEW j \in Job, ReplayDeadJob(c, j)
  PROVE  /\ proc[c].pc = "idle" /\ record[j].status = "dead"
         /\ calls' = calls + 1 /\ UNCHANGED <<store, submitted, crashes>>
         /\ \E state : /\ Formed(state) /\ Become(c, state) /\ state.job = j
                       /\ state.held.status = "pending" /\ state.held.due
                       /\ state.pc = "get" /\ ~state.push /\ state.next = "enqueue"
<1>1. PICK before \in Record : before = record[j]
  BY DEF Types, TypeOK
<1>2. PICK job : job = Reset(before)
  OBVIOUS
<1>3. job \in Record /\ job.status = "pending" /\ job.due
  BY <1>2, ObjectType
<1>4. PICK state : state = Writing(j, job, FALSE, "enqueue")
  OBVIOUS
<1>5. /\ state.pc = "get" /\ state.job = j /\ state.held = job
      /\ ~state.push /\ state.next = "enqueue"
  BY <1>4 DEF Writing, Idle
<1>6. "enqueue" \in After
  BY DEF After
<1>7. Formed(state)
  BY <1>3, <1>4, <1>6, WritingType
<1>8. /\ proc[c].pc = "idle" /\ record[j].status = "dead"
      /\ calls' = calls + 1 /\ UNCHANGED <<store, submitted, crashes>>
      /\ Become(c, state)
  BY <1>1, <1>2, <1>4 DEF ReplayDeadJob, Called
<1> QED BY <1>3, <1>5, <1>7, <1>8

\* The calls that begin with a reap.
LEMMA QueryShape ==
  ASSUME Types, NEW c \in Client, Query(c)
  PROVE  /\ proc[c].pc = "idle"
         /\ "purge" \in Ops \/ expiring # {}
         /\ calls' = calls + 1 /\ UNCHANGED <<store, submitted, crashes>>
         /\ \E state : /\ Formed(state) /\ Become(c, state) /\ state.job = None
                       /\ state.pc \in {"idle", "list", "reap"}
<1>1. PICK due \in SUBSET expiring :
        \/ "stats" \in Ops /\ due # {} /\ Reap(c, due, "return")
        \/ "purge" \in Ops /\ Reap(c, due, "list")
  BY DEF Query
<1>2. PICK next \in After : Reap(c, due, next)
  BY <1>1 DEF After
<1>3. due \in SUBSET (Job \X Queue)
  BY DEF Types, TypeOK
<1>4. PICK state : state = Reaping(due, next)
  OBVIOUS
<1>5. /\ Formed(state) /\ state.job = None
      /\ state.pc = (IF due # {} THEN "reap" ELSE IF next = "list" THEN "list" ELSE "idle")
  BY <1>3, <1>4, ReapingType
<1>6. /\ proc[c].pc = "idle" /\ Become(c, state)
      /\ calls' = calls + 1 /\ UNCHANGED <<store, submitted, crashes>>
  BY <1>2, <1>4 DEF Reap, Called
<1> QED BY <1>1, <1>5, <1>6

\* _forget removes the record and the dependents, and entries of the indexes.
LEMMA ForgetShape ==
  ASSUME Types, NEW j \in Job, NEW queues, NEW statuses, Forget(j, queues, statuses)
  PROVE  /\ record' = [record EXCEPT ![j] = Absent] /\ record' \in [Job -> Record]
         /\ dependents' \in [Job -> SUBSET Job]
         /\ listed' \in [Job -> SUBSET JobStatus] /\ filed' \in [Job -> SUBSET Queue]
         /\ listed' = [listed EXCEPT ![j] = listed[j] \ statuses]
         /\ filed' = [filed EXCEPT ![j] = filed[j] \ queues]
         /\ pending' = pending /\ deferred' = deferred /\ expiring' = expiring
<1>1. /\ record' = [record EXCEPT ![j] = Absent]
      /\ dependents' = [dependents EXCEPT ![j] = {}]
      /\ listed' = [listed EXCEPT ![j] = listed[j] \ statuses]
      /\ filed' = [filed EXCEPT ![j] = filed[j] \ queues]
      /\ pending' = pending /\ deferred' = deferred /\ expiring' = expiring
  BY DEF Forget
<1>2. record' \in [Job -> Record]
  BY <1>1, NewType DEF Types, TypeOK
<1>3. dependents' \in [Job -> SUBSET Job]
  BY <1>1 DEF Types, TypeOK
<1>4. listed' \in [Job -> SUBSET JobStatus]
  <2>1. PICK rest \in SUBSET JobStatus : rest = listed[j] \ statuses
    BY DEF Types, TypeOK
  <2>2. listed' = [listed EXCEPT ![j] = rest]
    BY <1>1, <2>1
  <2> QED BY <2>2 DEF Types, TypeOK
<1>5. filed' \in [Job -> SUBSET Queue]
  <2>1. PICK rest \in SUBSET Queue : rest = filed[j] \ queues
    BY DEF Types, TypeOK
  <2>2. filed' = [filed EXCEPT ![j] = rest]
    BY <1>1, <2>1
  <2> QED BY <2>2 DEF Types, TypeOK
<1> QED BY <1>1, <1>2, <1>3, <1>4, <1>5

\* What is deleted, by whom, and what the process does next.
LEMMA DropShape ==
  ASSUME Types, NEW s \in Slot, Drop(s)
  PROVE  /\ proc[s].pc = "gone" /\ proc[s].job \in Job /\ Become(s, Idle)
         /\ Forget(proc[s].job, {}, JobStatus) /\ UNCHANGED <<submitted, calls, crashes>>
<1>1. s \in Proc
  BY DEF Proc
<1> QED BY <1>1, OwnerType DEF Drop, Return, Owning

LEMMA ReapForgetShape ==
  ASSUME Types, NEW c \in Client, NEW m \in proc[c].left, ReapForget(c, m)
  PROVE  /\ proc[c].pc = "reap" /\ m[1] \in Job /\ m[2] \in Queue
         /\ Forget(m[1], {m[2]}, {"completed"}) /\ UNCHANGED <<submitted, calls, crashes>>
         /\ \E state : /\ Formed(state) /\ Become(c, state) /\ state.pc = "reap"
                       /\ state.job = proc[c].job
<1>0. c \in Proc
  BY DEF Proc
<1>1. PICK before \in ProcState : before = proc[c]
  BY <1>0, OwnerType
<1>2. m[1] \in Job /\ m[2] \in Queue
  BY <1>0, OwnerType
<1>3. PICK rest \in SUBSET (Job \X Queue) : rest = before.left \ {m}
  BY DEF ProcState
<1>4. PICK state : state = [before EXCEPT !.left = rest]
  OBVIOUS
<1>5. before.pc = "reap"
  BY <1>1 DEF ReapForget
<1>6. state \in ProcState /\ state.pc = "reap" /\ state.job = before.job
  BY <1>4, <1>5 DEF ProcState
<1>7. Formed(state)
  BY <1>6 DEF Formed, Owning, Storing
<1>8. /\ Become(c, state) /\ Forget(m[1], {m[2]}, {"completed"})
      /\ UNCHANGED <<submitted, calls, crashes>>
  BY <1>1, <1>3, <1>4 DEF ReapForget
<1> QED BY <1>1, <1>2, <1>5, <1>6, <1>7, <1>8

LEMMA ReapRemoveShape ==
  ASSUME Types, NEW c \in Client, ReapRemove(c)
  PROVE  /\ proc[c].pc = "reap" /\ expiring' \subseteq expiring
         /\ UNCHANGED <<record, pending, deferred, dependents, listed, filed,
                        submitted, calls, crashes>>
         /\ \E state : /\ Formed(state) /\ Become(c, state) /\ state.job = None
                       /\ state.pc \in {"idle", "list"}
<1>0. c \in Proc
  BY DEF Proc
<1>1. PICK next \in After : next = proc[c].next
  BY <1>0, OwnerType
<1>2. PICK state : state = AfterReap(next)
  OBVIOUS
<1>3. Formed(state) /\ state.job = None /\ state.pc \in {"idle", "list"}
  BY <1>2, ReapingType
<1>4. /\ proc[c].pc = "reap" /\ expiring' \subseteq expiring
      /\ UNCHANGED <<record, pending, deferred, dependents, listed, filed,
                     submitted, calls, crashes>>
      /\ Become(c, state)
  BY <1>1, <1>2 DEF ReapRemove
<1> QED BY <1>3, <1>4

LEMMA PurgeListShape ==
  ASSUME Types, NEW c \in Client, PurgeList(c)
  PROVE  /\ proc[c].pc = "list" /\ UNCHANGED <<store, submitted, calls, crashes>>
         /\ \E state : /\ Formed(state) /\ Become(c, state) /\ state.pc \in {"idle", "fetch"}
<1>1. proc[c].pc = "list" /\ UNCHANGED <<store, submitted, calls, crashes>>
  BY DEF PurgeList
<1>2. CASE Return(c)
  BY <1>1, <1>2, IdleType DEF Return, Idle
<1>3. CASE \E j \in Job : Become(c, [Idle EXCEPT !.pc = "fetch", !.job = j])
  <2>1. PICK j \in Job : Become(c, [Idle EXCEPT !.pc = "fetch", !.job = j])
    BY <1>3
  <2>2. PICK state : state = [Idle EXCEPT !.pc = "fetch", !.job = j]
    OBVIOUS
  <2>3. state \in ProcState
    BY <2>2, IdleType DEF ProcState, PC
  <2>4. state.pc = "fetch" /\ state.job = j
    BY <2>2 DEF Idle
  <2>5. Formed(state)
    BY <2>3, <2>4 DEF Formed, Storing
  <2>6. Become(c, state)
    BY <2>1, <2>2
  <2> QED BY <1>1, <2>4, <2>5, <2>6
<1> QED BY <1>2, <1>3 DEF PurgeList

LEMMA PurgeFetchShape ==
  ASSUME Types, NEW c \in Client, NEW old \in BOOLEAN, PurgeFetch(c, old)
  PROVE  /\ proc[c].pc = "fetch" /\ UNCHANGED <<store, submitted, calls, crashes>>
         /\ \E state : /\ Formed(state) /\ Become(c, state)
                       /\ state.pc \in {"idle", "forget"}
<1>0. c \in Proc
  BY DEF Proc
<1>1. proc[c].pc = "fetch" /\ UNCHANGED <<store, submitted, calls, crashes>>
  BY DEF PurgeFetch
<1>2. PICK before \in ProcState : before = proc[c]
  BY <1>0, OwnerType
<1>3. before.job \in Job
  BY <1>0, <1>1, <1>2, OwnerType DEF Owning
<1>4. PICK job \in Record : job = record[before.job]
  BY <1>3 DEF Types, TypeOK
<1>5. PICK state : state = [before EXCEPT !.pc = "forget", !.held = job]
  OBVIOUS
<1>6. state \in ProcState
  BY <1>5 DEF ProcState, PC
<1>7. state.pc = "forget" /\ state.job = before.job
  BY <1>5 DEF ProcState
<1>8. Formed(state)
  BY <1>3, <1>6, <1>7 DEF Formed, Storing
<1>9. Become(c, state) \/ Become(c, Idle)
  BY <1>2, <1>4, <1>5 DEF PurgeFetch
<1>10. Idle.pc = "idle"
  BY DEF Idle
<1> QED BY <1>1, <1>7, <1>8, <1>9, <1>10, IdleType

LEMMA PurgeForgetShape ==
  ASSUME Types, NEW c \in Client, PurgeForget(c)
  PROVE  /\ proc[c].pc = "forget" /\ proc[c].job \in Job /\ Become(c, Idle)
         /\ Forget(proc[c].job, {proc[c].held.queue}, {proc[c].held.status})
         /\ UNCHANGED <<submitted, calls, crashes>>
<1>1. c \in Proc
  BY DEF Proc
<1> QED BY <1>1, OwnerType DEF PurgeForget, Return, Owning

\* Time passes run_at: every copy of the job is due, and nothing else changes.
LEMMA RunAtPassesShape ==
  ASSUME Types, NEW j \in Job, RunAtPasses(j)
  PROVE  /\ UNCHANGED <<pending, dependents, index, submitted, calls, crashes>>
         /\ \A k \in Job : /\ record'[k] \in Record
                           /\ record'[k].status = record[k].status
                           /\ record'[k].queue = record[k].queue
                           /\ k # j => record'[k] = record[k]
         /\ record' \in [Job -> Record] /\ record'[j].due
         /\ deferred' \in [Queue -> [Job -> {"none", "later", "due"}]]
         /\ \A q \in Queue, k \in Job :
              /\ deferred'[q][k] = "none" <=> deferred[q][k] = "none"
              /\ k # j => deferred'[q][k] = deferred[q][k]
         /\ proc' \in [Proc -> ProcState]
         /\ \A p \in Proc :
              /\ proc'[p].pc = proc[p].pc /\ proc'[p].job = proc[p].job
              /\ proc'[p].push = proc[p].push /\ proc'[p].next = proc[p].next
              /\ proc'[p].todo = proc[p].todo /\ proc'[p].deps = proc[p].deps
              /\ proc'[p].held \in Record /\ proc'[p].held.status = proc[p].held.status
              /\ IF proc[p].job = j THEN proc'[p].held.due ELSE proc'[p] = proc[p]
<1>1. UNCHANGED <<pending, dependents, index, submitted, calls, crashes>>
  BY DEF RunAtPasses
<1>2. /\ \A k \in Job : /\ record'[k] \in Record
                        /\ record'[k].status = record[k].status
                        /\ record'[k].queue = record[k].queue
                        /\ k # j => record'[k] = record[k]
      /\ record' \in [Job -> Record] /\ record'[j].due
  <2>1. PICK before \in Record : before = record[j]
    BY DEF Types, TypeOK
  <2>2. PICK job : job = [before EXCEPT !.due = TRUE]
    OBVIOUS
  <2>3. job \in Record /\ job.status = before.status /\ job.queue = before.queue /\ job.due
    BY <2>2 DEF Record
  <2>4. record' = [record EXCEPT ![j] = job]
    BY <2>1, <2>2 DEF RunAtPasses
  <2>5. record \in [Job -> Record]
    BY DEF Types, TypeOK
  <2> QED BY <2>1, <2>3, <2>4, <2>5
<1>3. ASSUME NEW q \in Queue
      PROVE  /\ deferred'[q] \in [Job -> {"none", "later", "due"}]
             /\ \A k \in Job : /\ deferred'[q][k] = "none" <=> deferred[q][k] = "none"
                               /\ k # j => deferred'[q][k] = deferred[q][k]
  <2>1. PICK entries \in [Job -> {"none", "later", "due"}] : entries = deferred[q]
    BY DEF Types, TypeOK
  <2>2. deferred'[q] = IF entries[j] = "later" THEN [entries EXCEPT ![j] = "due"] ELSE entries
    BY <2>1 DEF RunAtPasses
  <2> QED BY <2>1, <2>2
<1>4. deferred' \in [Queue -> [Job -> {"none", "later", "due"}]]
  <2>1. deferred' = [q \in Queue |-> IF deferred[q][j] = "later"
                                     THEN [deferred[q] EXCEPT ![j] = "due"] ELSE deferred[q]]
    BY DEF RunAtPasses
  <2> QED BY <1>3, <2>1
<1>5. ASSUME NEW p \in Proc
      PROVE  /\ proc'[p] \in ProcState
             /\ proc'[p].pc = proc[p].pc /\ proc'[p].job = proc[p].job
             /\ proc'[p].push = proc[p].push /\ proc'[p].next = proc[p].next
             /\ proc'[p].todo = proc[p].todo /\ proc'[p].deps = proc[p].deps
             /\ proc'[p].held \in Record /\ proc'[p].held.status = proc[p].held.status
             /\ IF proc[p].job = j THEN proc'[p].held.due ELSE proc'[p] = proc[p]
  <2>1. PICK before \in ProcState : before = proc[p]
    BY OwnerType
  <2>2. PICK held \in Record : held = before.held
    BY DEF ProcState
  <2>3. PICK job : job = [held EXCEPT !.due = TRUE]
    OBVIOUS
  <2>4. job \in Record /\ job.status = held.status /\ job.due
    BY <2>3 DEF Record
  <2>5. PICK state : state = [before EXCEPT !.held = job]
    OBVIOUS
  <2>6. /\ state \in ProcState /\ state.pc = before.pc /\ state.job = before.job
        /\ state.push = before.push /\ state.next = before.next
        /\ state.todo = before.todo /\ state.deps = before.deps /\ state.held = job
    BY <2>4, <2>5 DEF ProcState
  <2>7. proc'[p] = IF before.job = j THEN state ELSE before
    BY <2>1, <2>2, <2>3, <2>5 DEF RunAtPasses
  <2>8. CASE before.job = j
    BY <2>1, <2>2, <2>4, <2>6, <2>7, <2>8
  <2>9. CASE before.job # j
    BY <2>1, <2>2, <2>7, <2>9
  <2> QED BY <2>8, <2>9
<1>6. proc' \in [Proc -> ProcState]
  <2>1. PICK f : f = proc'
    OBVIOUS
  <2>2. f = [p \in Proc |-> f[p]]
    BY <2>1 DEF RunAtPasses
  <2>3. \A p \in Proc : f[p] \in ProcState
    BY <2>1, <1>5
  <2> QED BY <2>1, <2>2, <2>3
<1> QED BY <1>1, <1>2, <1>3, <1>4, <1>5, <1>6

-----------------------------------------------------------------------------
(* TypeOK.                                                                  *)

LEMMA WorkTypes ==
  ASSUME Types, NEW s \in Slot, Work(s)
  PROVE  Types'
<1>0. s \in Proc
  BY DEF Proc
<1>1. ASSUME UNCHANGED <<store, submitted, calls, crashes>>,
             \E state : Formed(state) /\ Become(s, state)
      PROVE  Types'
  BY <1>0, <1>1, LocalTypes DEF Types, TypeOK
<1>2. CASE Load(s)
  BY <1>1, <1>2, LoadShape
<1>3. CASE Drop(s)
  <2>1. /\ proc[s].job \in Job /\ Become(s, Idle) /\ Forget(proc[s].job, {}, JobStatus)
        /\ UNCHANGED <<submitted, calls, crashes>>
    BY <1>3, DropShape
  <2>2. /\ record' \in [Job -> Record] /\ dependents' \in [Job -> SUBSET Job]
        /\ listed' \in [Job -> SUBSET JobStatus] /\ filed' \in [Job -> SUBSET Queue]
        /\ pending' = pending /\ deferred' = deferred /\ expiring' = expiring
    BY <2>1, ForgetShape
  <2> QED BY <1>0, <2>1, <2>2, IdleType, StepTypes DEF Types, TypeOK
<1>4. CASE RejectUnknown(s) \/ Succeed(s) \/ MoveToDLQ(s) \/ Fail(s)
  BY <1>1, <1>4, ConcludeShape
<1>5. CASE CheckCancelled(s)
  BY <1>1, <1>5, CheckCancelledShape, IdleType
<1>6. ASSUME NEW due \in BOOLEAN, ScheduleRetry(s, due) PROVE Types'
  BY <1>1, <1>6, ScheduleRetryShape
<1> QED BY <1>2, <1>3, <1>4, <1>5, <1>6 DEF Work

LEMMA BrokerTypes ==
  ASSUME Types, NEW p \in Proc, Broker(p)
  PROVE  Types'
<1>1. ASSUME UNCHANGED <<store, submitted, calls, crashes>>,
             \E state : Formed(state) /\ Become(p, state)
      PROVE  Types'
  BY <1>1, LocalTypes DEF Types, TypeOK
<1>2. CASE GetOld(p)
  BY <1>1, <1>2, GetOldShape
<1>3. CASE Write(p)
  <2>1. PICK j \in Job : j = proc[p].job
    BY <1>3, WriteShape
  <2>2. PICK job \in Record : job = proc[p].held
    BY <1>3, WriteShape
  <2>3. /\ proc[p].pc = "write" /\ job.status # "absent" /\ Continue(p)
        /\ record' = [record EXCEPT ![j] = job]
        /\ listed' = [listed EXCEPT ![j] = Relist(j, proc[p].old, job)]
        /\ filed' = [filed EXCEPT ![j] = Refile(j, proc[p].old, job)]
        /\ expiring' = IF Expires(j, job) THEN expiring \cup {<<j, job.queue>>} ELSE expiring
        /\ UNCHANGED <<dependents, submitted, calls, crashes>>
        /\ pending' \in [Queue -> [Tier -> Seq(Job)]]
        /\ deferred' \in [Queue -> [Job -> {"none", "later", "due"}]]
    BY <1>3, <2>1, <2>2, WriteShape
  <2>4. job.status \in JobStatus /\ job.queue \in Queue
    BY <2>3 DEF Record
  <2>5. record' \in [Job -> Record]
    BY <2>3 DEF Types, TypeOK
  <2>6. listed' \in [Job -> SUBSET JobStatus]
    <3>1. PICK statuses : statuses = Relist(j, proc[p].old, job)
      OBVIOUS
    <3>2. statuses \in SUBSET JobStatus
      BY <2>4, <3>1 DEF Relist, Types, TypeOK
    <3> QED BY <2>3, <3>1, <3>2 DEF Types, TypeOK
  <2>7. filed' \in [Job -> SUBSET Queue]
    <3>1. PICK queues : queues = Refile(j, proc[p].old, job)
      OBVIOUS
    <3>2. queues \in SUBSET Queue
      BY <2>4, <3>1 DEF Refile, Types, TypeOK
    <3> QED BY <2>3, <3>1, <3>2 DEF Types, TypeOK
  <2>8. expiring' \subseteq Job \X Queue
    BY <2>3, <2>4 DEF Types, TypeOK
  <2>9. \E state : Formed(state) /\ Become(p, state)
    BY <2>3, ContinueShape
  <2>10. /\ dependents' \in [Job -> SUBSET Job] /\ submitted' \subseteq Job
         /\ calls' \in Nat /\ crashes' \in Nat
    BY <2>3 DEF Types, TypeOK
  <2> QED BY <2>3, <2>5, <2>6, <2>7, <2>8, <2>9, <2>10, StepTypes
<1>4. CASE Register(p)
  <2>1. /\ UNCHANGED <<record, pending, deferred, index, submitted, calls, crashes>>
        /\ dependents' \in [Job -> SUBSET Job]
        /\ \E state : Formed(state) /\ Become(p, state)
    BY <1>4, RegisterShape
  <2> QED BY <2>1, StepTypes DEF Types, TypeOK, index
<1>5. CASE Resolve(p)
  BY <1>1, <1>5, ResolveShape
<1>6. CASE Wake(p)
  <2>1. /\ proc[p].job \in Job
        /\ UNCHANGED <<deferred, dependents, filed, expiring, submitted, calls, crashes>>
        /\ pending' \in [Queue -> [Tier -> Seq(Job)]]
        /\ listed' \in [Job -> SUBSET JobStatus]
        /\ \E job \in Record : record' = [record EXCEPT ![proc[p].job] = job]
        /\ \E state : Formed(state) /\ Become(p, state)
    BY <1>6, WakeShape
  <2>2. record' \in [Job -> Record]
    BY <2>1 DEF Types, TypeOK
  <2> QED BY <2>1, <2>2, StepTypes DEF Types, TypeOK
<1>7. ASSUME NEW j \in Job, CheckDep(p, j) PROVE Types'
  BY <1>1, <1>7, CheckDepShape
<1>8. ASSUME NEW j \in Job, PromoteGet(p, j) PROVE Types'
  BY <1>1, <1>8, PromoteGetShape
<1>9. ASSUME NEW j \in Job, PromoteDep(p, j) PROVE Types'
  BY <1>1, <1>9, PromoteDepShape
<1> QED BY <1>2, <1>3, <1>4, <1>5, <1>6, <1>7, <1>8, <1>9 DEF Broker

LEMMA MaintainTypes ==
  ASSUME Types, NEW c \in Client, Maintain(c)
  PROVE  Types'
<1>0. c \in Proc
  BY DEF Proc
<1>1. ASSUME UNCHANGED <<store, submitted, calls, crashes>>,
             \E state : Formed(state) /\ Become(c, state)
      PROVE  Types'
  BY <1>0, <1>1, LocalTypes DEF Types, TypeOK
<1>f. ASSUME NEW j \in Job, NEW queues, NEW statuses, Forget(j, queues, statuses),
             UNCHANGED <<submitted, calls, crashes>>,
             \E state : Formed(state) /\ Become(c, state)
      PROVE  Types'
  <2>2. /\ record' \in [Job -> Record] /\ dependents' \in [Job -> SUBSET Job]
        /\ listed' \in [Job -> SUBSET JobStatus] /\ filed' \in [Job -> SUBSET Queue]
        /\ pending' = pending /\ deferred' = deferred /\ expiring' = expiring
    BY <1>f, ForgetShape
  <2> QED BY <1>0, <1>f, <2>2, StepTypes DEF Types, TypeOK
<1>2. ASSUME NEW m \in proc[c].left, ReapForget(c, m) PROVE Types'
  <2>1. /\ m[1] \in Job /\ Forget(m[1], {m[2]}, {"completed"})
        /\ UNCHANGED <<submitted, calls, crashes>>
        /\ \E state : Formed(state) /\ Become(c, state)
    BY <1>2, ReapForgetShape
  <2> QED BY <1>f, <2>1
<1>3. CASE ReapRemove(c)
  <2>1. /\ expiring' \subseteq expiring
        /\ UNCHANGED <<record, pending, deferred, dependents, listed, filed,
                       submitted, calls, crashes>>
        /\ \E state : Formed(state) /\ Become(c, state)
    BY <1>3, ReapRemoveShape
  <2> QED BY <1>0, <2>1, StepTypes DEF Types, TypeOK
<1>4. CASE PurgeList(c)
  BY <1>1, <1>4, PurgeListShape
<1>5. ASSUME NEW old \in BOOLEAN, PurgeFetch(c, old) PROVE Types'
  BY <1>1, <1>5, PurgeFetchShape
<1>6. CASE PurgeForget(c)
  <2>1. /\ proc[c].job \in Job /\ Become(c, Idle)
        /\ Forget(proc[c].job, {proc[c].held.queue}, {proc[c].held.status})
        /\ UNCHANGED <<submitted, calls, crashes>>
    BY <1>6, PurgeForgetShape
  <2> QED BY <1>f, <2>1, IdleType
<1> QED BY <1>2, <1>3, <1>4, <1>5, <1>6 DEF Maintain

LEMMA ClientTypes ==
  ASSUME Types, NEW c \in Client, Query(c) \/ \E j \in Job : Call(c, j)
  PROVE  Types'
<1>0. c \in Proc
  BY DEF Proc
<1>1. ASSUME UNCHANGED <<store, crashes>>, submitted' \subseteq Job, calls' \in Nat,
             \E state : Formed(state) /\ Become(c, state)
      PROVE  Types'
  BY <1>0, <1>1, LocalTypes DEF Types, TypeOK
<1>2. ASSUME UNCHANGED <<store, submitted, crashes>>, calls' = calls + 1,
             \E state : Formed(state) /\ Become(c, state)
      PROVE  Types'
  <2>1. submitted' \subseteq Job /\ calls' \in Nat
    BY <1>2 DEF Types, TypeOK
  <2> QED BY <1>1, <1>2, <2>1
<1>3. CASE Query(c)
  BY <1>2, <1>3, QueryShape
<1>4. ASSUME NEW j \in Job, NEW due \in BOOLEAN, Enqueue(c, j, due) PROVE Types'
  <2>1. /\ submitted' = submitted \cup {j} /\ UNCHANGED <<store, calls, crashes>>
        /\ \E state : Formed(state) /\ Become(c, state)
    BY <1>4, EnqueueShape
  <2>2. submitted' \subseteq Job /\ calls' \in Nat
    BY <2>1 DEF Types, TypeOK
  <2> QED BY <1>1, <2>1, <2>2
<1>5. ASSUME NEW j \in Job, CancelJob(c, j) PROVE Types'
  BY <1>2, <1>5, CancelShape
<1>6. ASSUME NEW j \in Job, RetryJob(c, j) PROVE Types'
  BY <1>2, <1>6, RetryShape
<1>7. ASSUME NEW j \in Job, ReplayDeadJob(c, j) PROVE Types'
  BY <1>2, <1>7, ReplayShape
<1>8. ASSUME NEW j \in Job, Call(c, j) PROVE Types'
  BY <1>4, <1>5, <1>6, <1>7, <1>8 DEF Call
<1> QED BY <1>3, <1>8

LEMMA ClockTypes ==
  ASSUME Types, NEW j \in Job, RunAtPasses(j) \/ ResultExpires(j)
  PROVE  Types'
<1>1. CASE RunAtPasses(j)
  <2>1. /\ UNCHANGED <<pending, dependents, index, submitted, calls, crashes>>
        /\ record' \in [Job -> Record]
        /\ deferred' \in [Queue -> [Job -> {"none", "later", "due"}]]
        /\ proc' \in [Proc -> ProcState]
    BY <1>1, RunAtPassesShape
  <2>2. TypeOK'
    BY <2>1 DEF Types, TypeOK, index
  <2>3. ASSUME NEW p \in Proc PROVE Formed(proc'[p])
    <3>1. /\ proc'[p].pc = proc[p].pc /\ proc'[p].job = proc[p].job
          /\ proc'[p].held.status = proc[p].held.status
      BY <1>1, RunAtPassesShape
    <3> QED BY <2>1, <3>1, OwnerType DEF Formed
  <2>4. \A p \in Proc : Formed(proc[p])'
    BY <2>3 DEF Formed, ProcState, PC, After, Owning, Storing
  <2> QED BY <2>2, <2>4 DEF Types
<1>2. CASE ResultExpires(j)
  <2>1. /\ record' = [record EXCEPT ![j] = Absent]
        /\ pending' = pending /\ deferred' = deferred /\ dependents' = dependents
        /\ listed' = listed /\ filed' = filed /\ expiring' = expiring /\ proc' = proc
        /\ submitted' = submitted /\ calls' = calls /\ crashes' = crashes
    BY <1>2 DEF ResultExpires, index
  <2>2. record' \in [Job -> Record]
    BY <2>1, NewType DEF Types, TypeOK
  <2> QED BY <2>1, <2>2 DEF Types, TypeOK, Formed, ProcState, PC, After, Owning, Storing
<1> QED BY <1>1, <1>2

LEMMA CrashTypes ==
  ASSUME Types, NEW p \in Proc, Crash(p)
  PROVE  Types'
<1>1. /\ Become(p, Idle) /\ UNCHANGED <<store, submitted, calls>> /\ crashes' = crashes + 1
  BY DEF Crash, Return
<1>2. submitted' \subseteq Job /\ calls' \in Nat /\ crashes' \in Nat
  BY <1>1 DEF Types, TypeOK
<1> QED BY <1>1, <1>2, IdleType, LocalTypes

LEMMA TypesHold ==
  /\ Init => Types
  /\ Types /\ [Next]_vars => Types'
<1>1. Init => Types
  <2> SUFFICES ASSUME Init PROVE Types
    OBVIOUS
  <2>1. TypeOK
    BY NewType, IdleType DEF Init, TypeOK
  <2>2. \A p \in Proc : Formed(proc[p])
    BY IdleType DEF Init
  <2> QED BY <2>1, <2>2 DEF Types
<1>2. ASSUME Types, [Next]_vars PROVE Types'
  <2>1. CASE UNCHANGED vars
    BY <1>2, <2>1 DEF vars, store, index, Types, TypeOK, Formed, ProcState, PC, After, Owning,
                      Storing
  <2>2. CASE Next
    BY <1>2, <2>2, DequeueTypes, WorkTypes, BrokerTypes, MaintainTypes, ClientTypes,
       ClockTypes, CrashTypes DEF Next
  <2> QED BY <1>2, <2>1, <2>2
<1> QED BY <1>1, <1>2

\* What Redis stores under each kind of key, and what a process holds between
\* two round trips, are always of their types, whatever interleaves or crashes.
THEOREM TypeCorrect == Spec => []TypeOK
<1>1. Types => TypeOK
  BY DEF Types
<1> QED BY <1>1, TypesHold, PTL DEF Spec

-----------------------------------------------------------------------------
(* No lost wake-up.                                                         *)

\* A crash between the write of a completed job and the promotion of its
\* dependents loses their wake-up, and a purge or an expiry that deletes a job on
\* its way to complete deletes the list of its dependents.
NothingLost == MaxCrashes = 0 /\ "purge" \notin Ops /\ Kept = {}

\* Every dependency of the job has it among its dependents.
Registered(j) == \A d \in DependsOn[j] : j \in dependents[d]

\* An id in a list, in a deferred set or with a slot has a record.
ListsBacked == \A q \in Queue, t \in Tier :
              \A i \in DOMAIN pending[q][t] : Exists(pending[q][t][i])
Backed ==
    /\ ListsBacked
    /\ \A q \in Queue, j \in Job : deferred[q][j] # "none" => Exists(j)
    /\ \A p \in Proc : proc[p].pc = "popped" => Exists(proc[p].job)

Undeleted == /\ expiring = {}
             /\ \A p \in Proc : proc[p].pc \notin {"gone", "reap", "list", "fetch", "forget"}

\* A job is registered before its dependencies are looked at, and a process about
\* to store it as waiting will look again.  One about to store it as completed
\* will resolve its dependents.  A promotion looks at dependencies of its job.
Ready(p) ==
    /\ proc[p].pc = "check" => Registered(proc[p].job)
    /\ proc[p].pc \in {"register", "check"} => proc[p].held.status # "completed"
    /\ proc[p].pc \in {"get", "write"} =>
         /\ proc[p].held.status = "waiting" =>
              Registered(proc[p].job) /\ proc[p].next = "look"
         /\ proc[p].held.status = "completed" => proc[p].next = "resolve"
         /\ proc[p].next = "enqueue" => proc[p].held.status = "pending"
    /\ proc[p].pc = "deps" => proc[p].deps \subseteq DependsOn[proc[p].job]

\* The inductive invariant of NoLostWakeup.
Wakes == /\ Undeleted /\ Backed
         /\ \A p \in Proc : Ready(p)
         /\ \A j \in Job : record[j].status = "waiting" => Registered(j)
         /\ NoLostWakeup

\* What Ready says of a process that is in a given state after a step.
ReadyAs(state) ==
    /\ state.pc = "check" => Registered(state.job)
    /\ state.pc \in {"register", "check"} => state.held.status # "completed"
    /\ state.pc \in {"get", "write"} =>
         /\ state.held.status = "waiting" => Registered(state.job) /\ state.next = "look"
         /\ state.held.status = "completed" => state.next = "resolve"
         /\ state.next = "enqueue" => state.held.status = "pending"
    /\ state.pc = "deps" => state.deps \subseteq DependsOn[state.job]

\* After a step of p the others are where they were.
LEMMA Moved ==
  ASSUME Types, NEW p \in Proc, NEW state, Become(p, state)
  PROVE  proc'[p] = state /\ \A r \in Proc \ {p} : proc'[r] = proc[r]
BY DEF Types, TypeOK, Become

\* A step of p that deletes nothing keeps the parts of the invariant that are not
\* about waiting jobs, and what is registered.
LEMMA WakeFrame ==
  ASSUME Types, Wakes, NEW p \in Proc, NEW state, Become(p, state),
         expiring' = {},
         \A j \in Job : Exists(j) => Exists(j)',
         \A d \in Job : dependents[d] \subseteq dependents'[d],
         ListsBacked',
         \A q \in Queue, j \in Job : deferred'[q][j] # "none" => Exists(j)',
         state.pc \notin {"popped", "gone", "reap", "list", "fetch", "forget"},
         ReadyAs(state)',
         \A j \in Job : record'[j].status = "waiting" => Registered(j)',
         NoLostWakeup'
  PROVE  Wakes'
<1>1. proc'[p] = state /\ \A r \in Proc \ {p} : proc'[r] = proc[r]
  BY Moved
<1>2. \A j \in Job : Registered(j) => Registered(j)'
  BY DependsOnAssumption DEF Registered
<1>3. Undeleted'
  BY <1>1 DEF Wakes, Undeleted
<1>4. Backed'
  <2>2. ASSUME NEW r \in Proc, proc'[r].pc = "popped" PROVE Exists(proc[r].job)'
    <3>1. r # p /\ proc'[r] = proc[r] /\ proc[r].pc = "popped"
      BY <1>1, <2>2
    <3>2. Exists(proc[r].job) /\ proc[r].job \in Job
      BY <3>1, OwnerType DEF Wakes, Backed, Owning
    <3>3. PICK j \in Job : j = proc[r].job
      BY <3>2
    <3>4. Exists(j)'
      BY <3>2, <3>3
    <3>5. proc'[r].job = j
      BY <3>1, <3>3
    <3> QED BY <3>4, <3>5 DEF Exists
  <2> QED BY <2>2 DEF Backed
<1>5. ASSUME NEW r \in Proc PROVE Ready(r)'
  <2>1. CASE r = p
    BY <1>1, <2>1 DEF Ready, ReadyAs, Registered
  <2>2. CASE r # p
    <3>1. proc'[r] = proc[r] /\ Ready(r)
      BY <1>1, <2>2 DEF Wakes
    <3>2. proc[r].pc \in {"check", "get", "write"} => proc[r].job \in Job
      BY OwnerType DEF Owning
    <3>3. proc[r].pc \in {"check", "get", "write"} /\ Registered(proc[r].job) =>
            Registered(proc[r].job)'
      <4>1. SUFFICES ASSUME proc[r].job \in Job, Registered(proc[r].job)
                     PROVE  Registered(proc[r].job)'
        BY <3>2
      <4>2. PICK j \in Job : j = proc[r].job
        BY <4>1
      <4>3. Registered(j)'
        BY <1>2, <4>1, <4>2
      <4>4. proc'[r].job = j
        BY <3>1, <4>2
      <4> QED BY <4>3, <4>4 DEF Registered
    <3> QED BY <3>1, <3>3 DEF Ready
  <2> QED BY <2>1, <2>2
<1> QED BY <1>3, <1>4, <1>5 DEF Wakes

\* A step of p that changes no status keeps the wake-ups, if p keeps its own
\* promises.
LEMMA WakeupsKept ==
  ASSUME Types, NoLostWakeup, NEW p \in Proc, NEW state, Become(p, state),
         \A d \in Job : dependents[d] \subseteq dependents'[d],
         \A j \in Job : record'[j].status = record[j].status,
         \A j \in Job : /\ WillPromote(p, j) /\ record[j].status = "waiting"
                        /\ \A d \in DependsOn[j] : Completed(d)
                        => WillPromote(p, j)'
  PROVE  NoLostWakeup'
<1>1. SUFFICES ASSUME NEW j \in Job, record'[j].status = "waiting",
                      \A d \in DependsOn[j] : Completed(d)'
               PROVE  \E r \in Proc : WillPromote(r, j)'
  BY DEF NoLostWakeup
<1>2. record[j].status = "waiting" /\ \A d \in DependsOn[j] : Completed(d)
  BY <1>1, DependsOnAssumption DEF Completed
<1>3. PICK r \in Proc : WillPromote(r, j)
  BY <1>2 DEF NoLostWakeup
<1>4. CASE r = p
  BY <1>2, <1>3, <1>4
<1>5. CASE r # p
  <2>1. proc'[r] = proc[r]
    BY <1>5, Moved
  <2>2. proc[r].pc = "resolve" => proc[r].job \in Job
    BY OwnerType DEF Owning
  <2>3. PICK before : before = proc[r]
    OBVIOUS
  <2>4. proc[r] = before /\ proc'[r] = before
    BY <2>1, <2>3
  <2>5. \/ before.pc = "resolve" /\ j \in dependents[before.job]
        \/ before.pc \in {"promote", "deps", "wake"} /\ j \in before.todo
        \/ before.pc \in {"deps", "wake"} /\ before.job = j
    BY <1>3, <2>4 DEF WillPromote
  <2>6. before.pc = "resolve" => before.job \in Job
    BY <2>2, <2>4
  <2>7. \/ before.pc = "resolve" /\ j \in dependents'[before.job]
        \/ before.pc \in {"promote", "deps", "wake"} /\ j \in before.todo
        \/ before.pc \in {"deps", "wake"} /\ before.job = j
    BY <2>5, <2>6
  <2>8. WillPromote(r, j)'
    BY <2>4, <2>7 DEF WillPromote
  <2> QED BY <2>8
<1> QED BY <1>4, <1>5

\* A step of p that stores nothing.
LEMMA WakeLocal ==
  ASSUME Types, Wakes, NEW p \in Proc, NEW state, Become(p, state), UNCHANGED store,
         state.pc \notin {"popped", "gone", "reap", "list", "fetch", "forget"},
         ReadyAs(state),
         \A j \in Job : /\ WillPromote(p, j) /\ record[j].status = "waiting"
                        /\ \A d \in DependsOn[j] : Completed(d)
                        => WillPromote(p, j)'
  PROVE  Wakes'
<1>1. /\ record' = record /\ pending' = pending /\ deferred' = deferred
      /\ dependents' = dependents /\ expiring' = expiring
  BY DEF store, index
<1>2. NoLostWakeup'
  BY <1>1, WakeupsKept DEF Wakes
<1>3. expiring' = {}
  BY <1>1 DEF Wakes, Undeleted
<1>4. ReadyAs(state)'
  BY <1>1 DEF ReadyAs, Registered
<1>5. \A j \in Job : record'[j].status = "waiting" => Registered(j)'
  BY <1>1 DEF Wakes, Registered
<1>6. /\ \A j \in Job : Exists(j) => Exists(j)'
      /\ \A d \in Job : dependents[d] \subseteq dependents'[d]
  BY <1>1 DEF Exists
<1>7. /\ ListsBacked'
      /\ \A q \in Queue, j \in Job : deferred'[q][j] # "none" => Exists(j)'
  BY <1>1 DEF Wakes, Backed, ListsBacked, Exists
<1> QED BY <1>2, <1>3, <1>4, <1>5, <1>6, <1>7, WakeFrame

\* The same, of a process that has nothing to promote.
LEMMA WakeQuiet ==
  ASSUME Types, Wakes, NEW p \in Proc, NEW state, Become(p, state), UNCHANGED store,
         proc[p].pc \notin {"resolve", "promote", "deps", "wake"},
         state.pc \notin {"popped", "gone", "reap", "list", "fetch", "forget"},
         ReadyAs(state)
  PROVE  Wakes'
<1>1. \A j \in Job : ~WillPromote(p, j)
  BY DEF WillPromote
<1> QED BY <1>1, WakeLocal

LEMMA DequeueWakes ==
  ASSUME Types, Wakes, NEW s \in Slot, Dequeue(s)
  PROVE  Wakes'
<1>0. s \in Proc
  BY DEF Proc
<1>1. ASSUME PromoteDeferred(s) PROVE Wakes'
  <2>1. /\ record' = record /\ dependents' = dependents /\ expiring' = expiring /\ proc' = proc
    BY <1>1 DEF PromoteDeferred, index
  <2>2. ListsBacked'
    <3>1. SUFFICES ASSUME NEW q \in Queue, NEW t \in Tier, NEW i \in DOMAIN pending'[q][t]
                   PROVE  Exists(pending[q][t][i])'
      BY DEF ListsBacked
    <3>2. PICK list \in Seq(Job) : list = pending[q][t]
      BY DEF Types, TypeOK
    <3>3. \A k \in DOMAIN list : Exists(list[k])
      BY <3>2 DEF Wakes, Backed, ListsBacked
    <3>4. CASE <<q, t>> \in RipeCells(s)
      <4>1. PICK order \in Orders(Ripe(q, t)) : pending'[q][t] = order \o list
        BY <1>1, <3>2, <3>4, PromoteShape
      <4>2. Ripe(q, t) \in SUBSET Job
        BY DEF Ripe
      <4>3. order \in Seq(Ripe(q, t)) /\ order \in Seq(Job)
        BY <4>2, OrdersType
      <4>4. \A k \in DOMAIN order : Exists(order[k])
        <5>1. SUFFICES ASSUME NEW k \in DOMAIN order PROVE Exists(order[k])
          OBVIOUS
        <5>2. PICK j \in Ripe(q, t) : j = order[k]
          BY <4>3
        <5>3. j \in Job /\ deferred[q][j] = "due"
          BY <5>2 DEF Ripe
        <5>4. Exists(j)
          BY <5>3 DEF Wakes, Backed
        <5> QED BY <5>2, <5>4
      <4>5. PICK k : \/ k \in DOMAIN order /\ pending'[q][t][i] = order[k]
                     \/ k \in DOMAIN list /\ pending'[q][t][i] = list[k]
        <5>1. PICK longer : longer = order \o list
          OBVIOUS
        <5>2. i \in 1 .. Len(order) + Len(list)
          BY <4>1, <4>3, <5>1
        <5>3. CASE i <= Len(order)
          BY <4>1, <4>3, <5>2, <5>3
        <5>4. CASE i > Len(order)
          <6>1. i - Len(order) \in DOMAIN list
            BY <4>3, <5>2, <5>4
          <6>2. pending'[q][t][i] = list[i - Len(order)]
            BY <4>1, <4>3, <5>2, <5>4
          <6> QED BY <6>1, <6>2
        <5> QED BY <4>3, <5>2, <5>3, <5>4
      <4> QED BY <2>1, <3>3, <4>4, <4>5 DEF Exists
    <3>5. CASE <<q, t>> \notin RipeCells(s)
      <4>1. pending'[q][t] = list
        BY <1>1, <3>2, <3>5, PromoteShape
      <4> QED BY <2>1, <3>3, <4>1 DEF Exists
    <3> QED BY <3>4, <3>5
  <2>3. \A q \in Queue, j \in Job : deferred'[q][j] # "none" => Exists(j)'
    <3>1. SUFFICES ASSUME NEW q \in Queue, NEW j \in Job, deferred'[q][j] # "none"
                   PROVE  Exists(j)'
      OBVIOUS
    <3>2. deferred[q][j] # "none"
      BY <1>1, <3>1, PromoteShape
    <3> QED BY <2>1, <3>2 DEF Wakes, Backed, Exists
  <2>4. Undeleted' /\ (\A p \in Proc : Ready(p)')
    BY <2>1 DEF Wakes, Undeleted, Ready, Registered
  <2>5. Backed'
    BY <2>1, <2>2, <2>3 DEF Wakes, Backed, Exists
  <2>6. NoLostWakeup' /\ \A j \in Job : record'[j].status = "waiting" => Registered(j)'
    BY <2>1 DEF Wakes, NoLostWakeup, Completed, WillPromote, Registered
  <2> QED BY <2>4, <2>5, <2>6 DEF Wakes
<1>2. ASSUME NEW i \in DOMAIN Queues[s], NEW t \in Tier, Pop(s, i, t) PROVE Wakes'
  <2>1. /\ proc[s].pc = "idle" /\ record' = record /\ dependents' = dependents
        /\ expiring' = expiring /\ deferred' = deferred
    BY <1>2 DEF Pop, index
  <2>0. PICK q \in Queue, list \in Seq(Job) :
           /\ list = pending[q][t] /\ Len(list) \in Nat \ {0}
           /\ pending' \in [Queue -> [Tier -> Seq(Job)]]
           /\ pending'[q][t] = SubSeq(list, 1, Len(list) - 1)
           /\ \A r \in Queue, u \in Tier : r # q \/ u # t => pending'[r][u] = pending[r][u]
           /\ list[Len(list)] \in Job
           /\ \E state : /\ Formed(state) /\ Become(s, state) /\ state.pc = "popped"
                         /\ state.job = list[Len(list)] /\ state.held = Absent
    <3>1. PICK q \in Queue, list \in Seq(Job) : Pops(s, q, t, list)
      BY <1>2, PopShape
    <3> QED BY <3>1 DEF Pops
  <2>2. PICK state : /\ Formed(state) /\ Become(s, state) /\ state.pc = "popped"
                     /\ state.job = list[Len(list)] /\ state.held = Absent
    BY <2>0
  <2>3. PICK n \in Nat \ {0} : n = Len(list)
    BY <2>0
  <2>4. \A k \in 1 .. n : Exists(list[k])
    BY <2>0, <2>2, <2>3 DEF Wakes, Backed, ListsBacked
  <2>5. ASSUME NEW r \in Queue, NEW u \in Tier, NEW k \in DOMAIN pending'[r][u]
        PROVE  Exists(pending[r][u][k])'
    <3>1. CASE r = q /\ u = t
      <4>1. k \in 1 .. n - 1 /\ pending'[q][t][k] = list[k]
        BY <2>0, <2>2, <2>3, <2>5, <3>1
      <4> QED BY <2>1, <2>4, <3>1, <4>1 DEF Exists
    <3>2. CASE r # q \/ u # t
      <4>1. pending'[r][u] = pending[r][u]
        BY <2>0, <2>2, <3>2
      <4> QED BY <2>1, <2>5, <4>1 DEF Wakes, Backed, ListsBacked, Exists
    <3> QED BY <3>1, <3>2
  <2>6. ListsBacked'
    BY <2>5 DEF ListsBacked
  <2>7. proc'[s] = state /\ \A r \in Proc \ {s} : proc'[r] = proc[r]
    BY <1>0, <2>0, <2>2, Moved
  <2>8. Exists(state.job)'
    <3>1. PICK j \in Job : j = list[n]
      BY <2>0, <2>2, <2>3
    <3>2. record[j].status # "absent"
      BY <2>3, <2>4, <3>1 DEF Exists
    <3>3. state.job = j
      BY <2>0, <2>2, <2>3, <3>1
    <3> QED BY <2>1, <3>2, <3>3 DEF Exists
  <2>9. \A r \in Proc : proc'[r].pc = "popped" => Exists(proc[r].job)'
    BY <2>1, <2>7, <2>8 DEF Wakes, Backed, Exists
  <2>10. Backed'
    BY <2>1, <2>6, <2>9 DEF Wakes, Backed, Exists
  <2>11. Undeleted'
    BY <2>1, <2>0, <2>2, <2>7 DEF Wakes, Undeleted
  <2>12. ASSUME NEW r \in Proc PROVE Ready(r)'
    <3>1. CASE r = s
      <4>1. proc'[r].pc = "popped"
        BY <2>2, <2>7, <3>1
      <4> QED BY <4>1 DEF Ready
    <3>2. CASE r # s
      <4>1. proc'[r] = proc[r] /\ Ready(r)
        BY <2>7, <3>2 DEF Wakes
      <4> QED BY <2>1, <4>1 DEF Ready, Registered
    <3> QED BY <3>1, <3>2
  <2>13. NoLostWakeup'
    <3>1. \A j \in Job : ~WillPromote(s, j)
      BY <2>1 DEF WillPromote
    <3> QED BY <1>0, <2>1, <2>0, <2>2, <3>1, WakeupsKept DEF Wakes
  <2> QED BY <2>1, <2>10, <2>11, <2>12, <2>13 DEF Wakes, Registered
<1> QED BY <1>1, <1>2 DEF Dequeue

LEMMA WorkWakes ==
  ASSUME Types, Wakes, NEW s \in Slot, Work(s)
  PROVE  Wakes'
<1>0. s \in Proc
  BY DEF Proc
<1>1. CASE Load(s)
  <2>1. /\ proc[s].pc = "popped" /\ UNCHANGED store
        /\ Exists(proc[s].job)
    BY <1>0, <1>1, LoadShape DEF Wakes, Backed
  <2>2. PICK state : Formed(state) /\ Become(s, state) /\ state.pc = "claimed"
    BY <1>1, <2>1, LoadShape
  <2>3. ReadyAs(state)
    BY <2>2 DEF ReadyAs
  <2> QED BY <1>0, <2>1, <2>2, <2>3, WakeQuiet
<1>2. CASE Drop(s)
  BY <1>0, <1>2, DropShape DEF Wakes, Undeleted
<1>3. CASE RejectUnknown(s) \/ Succeed(s) \/ MoveToDLQ(s) \/ Fail(s)
  <2>1. proc[s].pc \in {"claimed", "invoke"} /\ UNCHANGED store
    BY <1>3, ConcludeShape
  <2>2. PICK state : /\ Formed(state) /\ Become(s, state) /\ state.pc = "get"
                     /\ \/ state.held.status \in {"failed", "dead"} /\ state.next = "return"
                        \/ state.held.status = "completed" /\ state.next = "resolve"
    BY <1>3, ConcludeShape
  <2>3. ReadyAs(state)
    BY <2>2 DEF ReadyAs
  <2> QED BY <1>0, <2>1, <2>2, <2>3, WakeQuiet
<1>4. CASE CheckCancelled(s)
  <2>1. proc[s].pc = "claimed" /\ UNCHANGED store
    BY <1>4, CheckCancelledShape
  <2>2. PICK state : /\ Become(s, state)
                     /\ \/ state.pc = "idle"
                        \/ /\ state.pc = "get" /\ state.next = "invoke"
                           /\ state.held.status = "running"
    BY <1>4, CheckCancelledShape DEF Idle
  <2>3. ReadyAs(state)
    BY <2>2 DEF ReadyAs
  <2> QED BY <1>0, <2>1, <2>2, <2>3, WakeQuiet
<1>5. ASSUME NEW due \in BOOLEAN, ScheduleRetry(s, due) PROVE Wakes'
  <2>1. proc[s].pc = "invoke" /\ UNCHANGED store
    BY <1>5, ScheduleRetryShape
  <2>2. PICK state : /\ Become(s, state) /\ state.held.status = "retrying"
                     /\ \/ state.pc = "get" /\ state.next = "look"
                        \/ state.pc = "register"
    BY <1>5, ScheduleRetryShape
  <2>3. ReadyAs(state)
    BY <2>2 DEF ReadyAs
  <2> QED BY <1>0, <2>1, <2>2, <2>3, WakeQuiet
<1> QED BY <1>1, <1>2, <1>3, <1>4, <1>5 DEF Work

LEMMA ClientWakes ==
  ASSUME NothingLost, Types, Wakes, NEW c \in Client, Query(c) \/ \E j \in Job : Call(c, j)
  PROVE  Wakes'
<1>0. c \in Proc
  BY DEF Proc
<1>q. ASSUME UNCHANGED store, proc[c].pc = "idle",
             \E state : /\ Become(c, state) /\ state.held.status \in {"pending", "cancelled"}
                        /\ \/ state.pc = "get"
                           \/ state.pc = "register"
                        /\ state.pc = "get" /\ state.next = "enqueue" =>
                             state.held.status = "pending"
      PROVE  Wakes'
  <2>1. PICK state : /\ Become(c, state) /\ state.held.status \in {"pending", "cancelled"}
                     /\ \/ state.pc = "get"
                        \/ state.pc = "register"
                     /\ state.pc = "get" /\ state.next = "enqueue" =>
                          state.held.status = "pending"
    BY <1>q
  <2>2. ReadyAs(state)
    BY <2>1 DEF ReadyAs
  <2> QED BY <1>0, <1>q, <2>1, <2>2, WakeQuiet
<1>1. CASE Query(c)
  BY <1>1, QueryShape DEF NothingLost, Wakes, Undeleted
<1>2. ASSUME NEW j \in Job, NEW due \in BOOLEAN, Enqueue(c, j, due) PROVE Wakes'
  BY <1>2, <1>q, EnqueueShape
<1>3. ASSUME NEW j \in Job, CancelJob(c, j) PROVE Wakes'
  BY <1>3, <1>q, CancelShape
<1>4. ASSUME NEW j \in Job, RetryJob(c, j) PROVE Wakes'
  BY <1>4, <1>q, RetryShape
<1>5. ASSUME NEW j \in Job, ReplayDeadJob(c, j) PROVE Wakes'
  BY <1>5, <1>q, ReplayShape
<1>6. ASSUME NEW j \in Job, Call(c, j) PROVE Wakes'
  BY <1>2, <1>3, <1>4, <1>5, <1>6 DEF Call
<1> QED BY <1>1, <1>6

\* The entries of the lists after an LPUSH.
LEMMA LPushEntries ==
  ASSUME Types, NEW j \in Job, NEW queue \in Queue, LPush(j, queue),
         NEW q \in Queue, NEW t \in Tier, NEW i \in DOMAIN pending'[q][t]
  PROVE  \/ pending'[q][t][i] = j /\ q = queue /\ t = TierOf(j) /\ i = 1
         \/ \E k \in DOMAIN pending[q][t] :
              /\ pending'[q][t][i] = pending[q][t][k]
              /\ i = IF q = queue /\ t = TierOf(j) THEN k + 1 ELSE k
<1>1. PICK list \in Seq(Job) : list = pending[q][t]
  BY DEF Types, TypeOK
<1>2. CASE q = queue /\ t = TierOf(j)
  <2>1. PICK longer : longer = <<j>> \o list
    OBVIOUS
  <2>2. pending'[q][t] = longer
    BY <1>1, <1>2, <2>1, LPushType
  <2>3. i \in 1 .. Len(list) + 1
    BY <2>1, <2>2
  <2>4. CASE i = 1
    BY <1>2, <2>1, <2>2, <2>4
  <2>5. CASE i > 1
    <3>1. i - 1 \in DOMAIN list /\ longer[i] = list[i - 1]
      BY <2>1, <2>3, <2>5
    <3>2. PICK k \in DOMAIN list : k = i - 1
      BY <3>1
    <3>3. longer[i] = list[k] /\ i = k + 1
      BY <2>3, <3>1, <3>2
    <3> QED BY <1>1, <1>2, <2>2, <3>3
  <2> QED BY <2>3, <2>4, <2>5
<1>3. CASE ~(q = queue /\ t = TierOf(j))
  <2>1. pending'[q][t] = list
    BY <1>1, <1>3, LPushType
  <2> QED BY <1>1, <1>3, <2>1
<1> QED BY <1>2, <1>3

LEMMA WriteWakes ==
  ASSUME NothingLost, Types, Wakes, NEW p \in Proc, Write(p)
  PROVE  Wakes'
<1>1. PICK j \in Job : j = proc[p].job
  BY WriteShape
<1>2. PICK job \in Record : job = proc[p].held
  BY WriteShape
<1>3. /\ proc[p].pc = "write" /\ job.status # "absent" /\ Continue(p)
      /\ record' = [record EXCEPT ![j] = job]
      /\ expiring' = IF Expires(j, job) THEN expiring \cup {<<j, job.queue>>} ELSE expiring
      /\ dependents' = dependents
      /\ \/ pending' = pending
         \/ LPush(j, job.queue)
      /\ \A q \in Queue, k \in Job : k # j => deferred'[q][k] = deferred[q][k]
  <2>1. /\ proc[p].pc = "write" /\ job.status # "absent" /\ Continue(p)
        /\ record' = [record EXCEPT ![j] = job]
        /\ expiring' = IF Expires(j, job) THEN expiring \cup {<<j, job.queue>>} ELSE expiring
        /\ dependents' = dependents
    BY <1>1, <1>2, WriteShape
  <2>2. /\ ~proc[p].push \/ job.status = "waiting" => pending' = pending /\ deferred' = deferred
        /\ proc[p].push /\ job.status # "waiting" /\ job.due =>
             LPush(j, job.queue) /\ deferred' = deferred
        /\ proc[p].push /\ job.status # "waiting" /\ ~job.due =>
             /\ pending' = pending
             /\ \A q \in Queue, k \in Job : q # job.queue \/ k # j =>
                  deferred'[q][k] = deferred[q][k]
    BY <1>1, <1>2, WriteShape
  <2> QED BY <2>1, <2>2
<1>4. Ready(p)
  BY DEF Wakes
<1>5. /\ job.status = "waiting" => Registered(j) /\ proc[p].next = "look"
      /\ job.status = "completed" => proc[p].next = "resolve"
      /\ proc[p].next = "enqueue" => job.status = "pending"
  BY <1>1, <1>2, <1>3, <1>4 DEF Ready
<1>6. record \in [Job -> Record]
  BY DEF Types, TypeOK
<1>7. record'[j] = job /\ \A k \in Job : k # j => record'[k] = record[k]
  BY <1>3, <1>6
<1>8. \A k \in Job : Exists(k) => Exists(k)'
  BY <1>3, <1>7 DEF Exists
<1>9. Exists(j)'
  BY <1>3, <1>7 DEF Exists
<1>10. ListsBacked'
  <2>1. SUFFICES ASSUME NEW q \in Queue, NEW t \in Tier, NEW i \in DOMAIN pending'[q][t]
                 PROVE  Exists(pending[q][t][i])'
    BY DEF ListsBacked
  <2>2. \A k \in DOMAIN pending[q][t] : pending[q][t][k] \in Job /\ Exists(pending[q][t][k])
    BY DEF Wakes, Backed, ListsBacked, Types, TypeOK
  <2>3. CASE pending' = pending
    <3>1. PICK k \in Job : k = pending[q][t][i] /\ Exists(k)
      BY <2>1, <2>2, <2>3
    <3>2. Exists(k)'
      BY <1>8, <3>1
    <3> QED BY <2>3, <3>1, <3>2 DEF Exists
  <2>4. CASE LPush(j, job.queue)
    <3>1. job.queue \in Queue
      BY DEF Record
    <3>2. \/ pending'[q][t][i] = j
          \/ \E k \in DOMAIN pending[q][t] : pending'[q][t][i] = pending[q][t][k]
      BY <2>1, <2>4, <3>1, LPushEntries
    <3>3. PICK k \in Job : k = pending'[q][t][i] /\ Exists(k)'
      BY <1>8, <1>9, <2>2, <3>2
    <3> QED BY <3>3 DEF Exists
  <2> QED BY <1>3, <2>3, <2>4
<1>11. \A q \in Queue, k \in Job : deferred'[q][k] # "none" => Exists(k)'
  BY <1>3, <1>8, <1>9 DEF Wakes, Backed
<1>12. expiring' = {}
  BY <1>3 DEF NothingLost, Expires, Wakes, Undeleted
<1>13. PICK state :
           /\ Formed(state) /\ Become(p, state)
           /\ proc[p].next = "invoke" => state.pc = "invoke"
           /\ proc[p].next = "resolve" => state.pc = "resolve" /\ state.job = proc[p].job
           /\ proc[p].next = "enqueue" =>
                /\ state.held = proc[p].held
                /\ \/ state.pc = "get" /\ state.next = "look"
                   \/ state.pc = "register"
           /\ proc[p].next = "look" =>
                IF proc[p].held.status = "waiting"
                THEN state.pc = "promote" /\ state.todo = {proc[p].job}
                ELSE state.pc = "idle"
           /\ proc[p].next \notin {"invoke", "resolve", "enqueue", "look"} => state.pc = "idle"
  BY <1>3, ContinueShape
<1>14. /\ state.pc \in {"invoke", "resolve", "get", "register", "promote", "idle"}
       /\ state.pc \in {"get", "register"} => /\ state.held.status = "pending"
                                              /\ state.pc = "get" => state.next = "look"
  BY <1>2, <1>5, <1>13
<1>15. ReadyAs(state)'
  BY <1>14 DEF ReadyAs
<1>16. \A k \in Job : record'[k].status = "waiting" => Registered(k)'
  BY <1>3, <1>5, <1>7 DEF Wakes, Registered
<1>17. proc'[p] = state /\ \A r \in Proc \ {p} : proc'[r] = proc[r]
  BY <1>13, Moved
<1>18. NoLostWakeup'
  <2>1. SUFFICES ASSUME NEW k \in Job, record'[k].status = "waiting",
                        \A d \in DependsOn[k] : Completed(d)'
                 PROVE  \E r \in Proc : WillPromote(r, k)'
    BY DEF NoLostWakeup
  <2>2. CASE k = j
    <3>1. proc[p].next = "look" /\ job.status = "waiting"
      BY <1>5, <1>7, <2>1, <2>2
    <3>2. state.pc = "promote" /\ state.todo = {j}
      BY <1>1, <1>2, <1>13, <3>1
    <3>3. WillPromote(p, k)'
      BY <1>17, <2>2, <3>2 DEF WillPromote
    <3> QED BY <3>3
  <2>3. CASE k # j /\ \A d \in DependsOn[k] : Completed(d)
    <3>1. PICK r \in Proc : WillPromote(r, k)
      BY <1>7, <2>1, <2>3 DEF Wakes, NoLostWakeup
    <3>2. proc'[r] = proc[r]
      BY <1>3, <1>17, <3>1 DEF WillPromote
    <3>3. WillPromote(r, k)'
      BY <1>3, <3>1, <3>2 DEF WillPromote
    <3> QED BY <3>3
  <2>4. ASSUME k # j, NEW d \in DependsOn[k], ~Completed(d)
        PROVE  \E r \in Proc : WillPromote(r, k)'
    <3>1. d \in Job /\ Completed(d)'
      BY <2>1, <2>4, DependsOnAssumption
    <3>2. d = j /\ job.status = "completed"
      BY <1>7, <2>4, <3>1 DEF Completed
    <3>3. state.pc = "resolve" /\ state.job = j
      BY <1>1, <1>5, <1>13, <3>2
    <3>4. k \in dependents[j]
      BY <1>7, <2>1, <2>4, <3>2 DEF Wakes, Registered
    <3>5. WillPromote(p, k)'
      BY <1>3, <1>17, <3>3, <3>4 DEF WillPromote
    <3> QED BY <3>5
  <2> QED BY <2>2, <2>3, <2>4
<1>19. \A d \in Job : dependents[d] \subseteq dependents'[d]
  BY <1>3
<1> QED BY <1>8, <1>10, <1>11, <1>12, <1>13, <1>14, <1>15, <1>16, <1>18, <1>19, WakeFrame

LEMMA WakeWakes ==
  ASSUME Types, Wakes, NEW p \in Proc, Wake(p)
  PROVE  Wakes'
<1>1. PICK j \in Job : j = proc[p].job
  BY WakeShape
<1>2. PICK queue \in Queue : queue = proc[p].held.queue
  BY WakeShape
<1>3. PICK job \in Record : job.status = "pending" /\ record' = [record EXCEPT ![j] = job]
  BY <1>1, WakeShape
<1>4. /\ proc[p].pc = "wake" /\ deferred' = deferred /\ dependents' = dependents
      /\ expiring' = expiring /\ LPush(j, queue)
  BY <1>1, <1>2, WakeShape
<1>5. PICK state : /\ Formed(state) /\ Become(p, state) /\ state.todo = proc[p].todo
                   /\ state.pc = (IF state.todo = {} THEN "idle" ELSE "promote")
  BY WakeShape
<1>6. record \in [Job -> Record]
  BY DEF Types, TypeOK
<1>7. record'[j] = job /\ \A k \in Job : k # j => record'[k] = record[k]
  BY <1>3, <1>6
<1>8. Exists(j)' /\ \A k \in Job : Exists(k) => Exists(k)'
  BY <1>3, <1>7 DEF Exists
<1>10. ListsBacked'
  <2>1. SUFFICES ASSUME NEW q \in Queue, NEW t \in Tier, NEW i \in DOMAIN pending'[q][t]
                 PROVE  Exists(pending[q][t][i])'
    BY DEF ListsBacked
  <2>2. \A k \in DOMAIN pending[q][t] : pending[q][t][k] \in Job /\ Exists(pending[q][t][k])
    BY DEF Wakes, Backed, ListsBacked, Types, TypeOK
  <2>3. \/ pending'[q][t][i] = j
        \/ \E k \in DOMAIN pending[q][t] : pending'[q][t][i] = pending[q][t][k]
    BY <1>4, <2>1, LPushEntries
  <2>4. PICK k \in Job : k = pending'[q][t][i] /\ Exists(k)'
    BY <1>8, <2>2, <2>3
  <2> QED BY <2>4 DEF Exists
<1>11. \A q \in Queue, k \in Job : deferred'[q][k] # "none" => Exists(k)'
  BY <1>4, <1>8 DEF Wakes, Backed
<1>12. expiring' = {} /\ (\A d \in Job : dependents[d] \subseteq dependents'[d])
  BY <1>4 DEF Wakes, Undeleted
<1>13. state.pc \in {"idle", "promote"}
  BY <1>5
<1>14. ReadyAs(state)'
  BY <1>13 DEF ReadyAs
<1>15. \A k \in Job : record'[k].status = "waiting" => Registered(k)'
  BY <1>3, <1>4, <1>7 DEF Wakes, Registered
<1>16. proc'[p] = state /\ \A r \in Proc \ {p} : proc'[r] = proc[r]
  BY <1>5, Moved
<1>17. NoLostWakeup'
  <2>1. SUFFICES ASSUME NEW k \in Job, record'[k].status = "waiting",
                        \A d \in DependsOn[k] : Completed(d)'
                 PROVE  \E r \in Proc : WillPromote(r, k)'
    BY DEF NoLostWakeup
  <2>2. k # j /\ record[k].status = "waiting"
    BY <1>3, <1>7, <2>1
  <2>3. ASSUME NEW d \in DependsOn[k] PROVE Completed(d)
    <3>1. d \in Job /\ record'[d].status = "completed"
      BY <2>1, DependsOnAssumption DEF Completed
    <3>2. d # j
      BY <1>3, <1>7, <3>1
    <3> QED BY <1>7, <3>1, <3>2 DEF Completed
  <2>4. PICK r \in Proc : WillPromote(r, k)
    BY <2>2, <2>3 DEF Wakes, NoLostWakeup
  <2>5. CASE r = p
    <3>1. k \in proc[p].todo
      BY <1>1, <1>4, <2>2, <2>4, <2>5 DEF WillPromote
    <3>2. state.pc = "promote" /\ k \in state.todo
      BY <1>5, <3>1
    <3>3. WillPromote(p, k)'
      BY <1>16, <3>2 DEF WillPromote
    <3> QED BY <3>3
  <2>6. CASE r # p
    <3>1. proc'[r] = proc[r]
      BY <1>16, <2>6
    <3>2. WillPromote(r, k)'
      BY <1>4, <2>4, <3>1 DEF WillPromote
    <3> QED BY <3>2
  <2> QED BY <2>5, <2>6
<1> QED BY <1>5, <1>8, <1>10, <1>11, <1>12, <1>13, <1>14, <1>15, <1>17, WakeFrame

LEMMA BrokerWakes ==
  ASSUME NothingLost, Types, Wakes, NEW p \in Proc, Broker(p)
  PROVE  Wakes'
<1>1. CASE GetOld(p)
  <2>1. proc[p].pc = "get" /\ UNCHANGED store
    BY <1>1, GetOldShape
  <2>2. PICK state : /\ Formed(state) /\ Become(p, state) /\ state.pc = "write"
                     /\ state.job = proc[p].job /\ state.held = proc[p].held
                     /\ state.next = proc[p].next
    BY <1>1, GetOldShape
  <2>3. ReadyAs(state)
    <3>1. Ready(p)
      BY DEF Wakes
    <3> QED BY <2>1, <2>2, <3>1 DEF Ready, ReadyAs
  <2> QED BY <2>1, <2>2, <2>3, WakeQuiet
<1>2. CASE Write(p)
  BY <1>2, WriteWakes
<1>3. CASE Register(p)
  <2>1. /\ proc[p].pc = "register" /\ proc[p].job \in Job
        /\ UNCHANGED <<record, pending, deferred, index, submitted, calls, crashes>>
        /\ \A d \in Job : dependents[d] \subseteq dependents'[d]
        /\ \A d \in DependsOn[proc[p].job] : proc[p].job \in dependents'[d]
    BY <1>3, RegisterShape
  <2>2. PICK state : /\ Formed(state) /\ Become(p, state) /\ state.pc = "check"
                     /\ state.job = proc[p].job /\ state.held = proc[p].held
    BY <1>3, RegisterShape
  <2>3. Ready(p)
    BY DEF Wakes
  <2>4. ReadyAs(state)'
    <3>1. \A d \in DependsOn[state.job] : state.job \in dependents'[d]
      BY <2>1, <2>2
    <3>2. state.held.status # "completed"
      BY <2>1, <2>2, <2>3 DEF Ready
    <3> QED BY <2>2, <3>1, <3>2 DEF ReadyAs, Registered
  <2>5. /\ record' = record /\ pending' = pending /\ deferred' = deferred
        /\ expiring' = expiring
    BY <2>1 DEF index
  <2>6. NoLostWakeup'
    <3>1. \A j \in Job : ~WillPromote(p, j)
      BY <2>1 DEF WillPromote
    <3> QED BY <2>1, <2>2, <2>5, <3>1, WakeupsKept DEF Wakes
  <2>7. \A j \in Job : record'[j].status = "waiting" => Registered(j)'
    BY <2>1, <2>5, DependsOnAssumption DEF Wakes, Registered
  <2>8. /\ ListsBacked' /\ expiring' = {}
        /\ \A j \in Job : Exists(j) => Exists(j)'
        /\ \A q \in Queue, j \in Job : deferred'[q][j] # "none" => Exists(j)'
    BY <2>5 DEF Wakes, Backed, ListsBacked, Undeleted, Exists
  <2> QED BY <2>1, <2>2, <2>4, <2>6, <2>7, <2>8, WakeFrame
<1>4. ASSUME NEW d \in Job, CheckDep(p, d) PROVE Wakes'
  <2>1. proc[p].pc = "check" /\ UNCHANGED store
    BY <1>4, CheckDepShape
  <2>2. PICK state : /\ Formed(state) /\ Become(p, state) /\ state.job = proc[p].job
                     /\ \/ /\ state.pc = "get" /\ state.next = "look"
                           /\ state.held.status = "waiting"
                        \/ /\ state.pc = "get" /\ state.next = "look"
                           /\ state.held = proc[p].held
                        \/ /\ state.pc = "check" /\ state.held = proc[p].held
    BY <1>4, CheckDepShape
  <2>3. Ready(p)
    BY DEF Wakes
  <2>4. ReadyAs(state)
    BY <2>1, <2>2, <2>3 DEF Ready, ReadyAs
  <2>5. state.pc \in {"get", "check"}
    BY <2>2
  <2> QED BY <2>1, <2>2, <2>4, <2>5, WakeQuiet
<1>5. CASE Resolve(p)
  <2>1. proc[p].pc = "resolve" /\ UNCHANGED store
    BY <1>5, ResolveShape
  <2>2. PICK state : /\ Formed(state) /\ Become(p, state)
                     /\ state.todo = dependents[proc[p].job]
                     /\ state.pc = (IF state.todo = {} THEN "idle" ELSE "promote")
    BY <1>5, ResolveShape
  <2>3. ReadyAs(state) /\ state.pc \in {"idle", "promote"}
    BY <2>2 DEF ReadyAs
  <2>4. proc'[p] = state
    BY <2>2, Moved
  <2>5. \A j \in Job : WillPromote(p, j) => WillPromote(p, j)'
    BY <2>1, <2>2, <2>4 DEF WillPromote
  <2> QED BY <2>1, <2>2, <2>3, <2>5, WakeLocal
<1>6. ASSUME NEW k \in Job, PromoteGet(p, k) PROVE Wakes'
  <2>1. proc[p].pc = "promote" /\ UNCHANGED store
    BY <1>6, PromoteGetShape
  <2>2. PICK state : /\ Formed(state) /\ Become(p, state) /\ state.todo = proc[p].todo \ {k}
                     /\ IF record[k].status = "waiting"
                        THEN state.pc = "deps" /\ state.job = k /\ state.deps = DependsOn[k]
                        ELSE state.pc = (IF state.todo = {} THEN "idle" ELSE "promote")
    BY <1>6, PromoteGetShape
  <2>3. ReadyAs(state) /\ state.pc \in {"idle", "promote", "deps"}
    BY <2>2 DEF ReadyAs
  <2>4. proc'[p] = state
    BY <2>2, Moved
  <2>5. \A j \in Job : WillPromote(p, j) /\ record[j].status = "waiting" => WillPromote(p, j)'
    BY <2>1, <2>2, <2>4 DEF WillPromote
  <2> QED BY <2>1, <2>2, <2>3, <2>5, WakeLocal
<1>7. ASSUME NEW d \in Job, PromoteDep(p, d) PROVE Wakes'
  <2>1. proc[p].pc = "deps" /\ UNCHANGED store /\ d \in proc[p].deps
    BY <1>7, PromoteDepShape
  <2>2. PICK state : /\ Formed(state) /\ Become(p, state) /\ state.todo = proc[p].todo
                     /\ IF Completed(d)
                        THEN /\ state.pc \in {"deps", "wake"} /\ state.job = proc[p].job
                             /\ state.deps = proc[p].deps \ {d}
                        ELSE state.pc = (IF state.todo = {} THEN "idle" ELSE "promote")
    BY <1>7, PromoteDepShape
  <2>3. proc[p].deps \subseteq DependsOn[proc[p].job]
    BY <2>1 DEF Wakes, Ready
  <2>4. ReadyAs(state) /\ state.pc \in {"idle", "promote", "deps", "wake"}
    BY <2>2, <2>3 DEF ReadyAs
  <2>5. proc'[p] = state
    BY <2>2, Moved
  <2>6. \A j \in Job : /\ WillPromote(p, j) /\ record[j].status = "waiting"
                       /\ \A e \in DependsOn[j] : Completed(e)
                       => WillPromote(p, j)'
    BY <2>1, <2>2, <2>3, <2>5 DEF WillPromote
  <2> QED BY <2>1, <2>2, <2>4, <2>6, WakeLocal
<1>8. CASE Wake(p)
  BY <1>8, WakeWakes
<1> QED BY <1>1, <1>2, <1>3, <1>4, <1>5, <1>6, <1>7, <1>8 DEF Broker

LEMMA MaintainWakes ==
  ASSUME Types, Wakes, NEW c \in Client, Maintain(c)
  PROVE  Wakes'
<1>1. proc[c].pc \in {"reap", "list", "fetch", "forget"}
  BY DEF Maintain, ReapForget, ReapRemove, PurgeList, PurgeFetch, PurgeForget
<1> QED BY <1>1 DEF Wakes, Undeleted, Proc

LEMMA RunAtPassesWakes ==
  ASSUME Types, Wakes, NEW j \in Job, RunAtPasses(j)
  PROVE  Wakes'
<1>1. pending' = pending /\ dependents' = dependents /\ expiring' = expiring
  BY RunAtPassesShape DEF index
<1>2. \A k \in Job : record'[k].status = record[k].status
  BY RunAtPassesShape
<1>3. \A q \in Queue, k \in Job : deferred'[q][k] = "none" <=> deferred[q][k] = "none"
  BY RunAtPassesShape
<1>4. \A p \in Proc :
        /\ proc'[p].pc = proc[p].pc /\ proc'[p].job = proc[p].job
        /\ proc'[p].next = proc[p].next /\ proc'[p].todo = proc[p].todo
        /\ proc'[p].deps = proc[p].deps /\ proc'[p].held.status = proc[p].held.status
  BY RunAtPassesShape
<1>5. Undeleted'
  BY <1>1, <1>4 DEF Wakes, Undeleted
<1>6. \A k \in Job : Exists(k)' <=> Exists(k)
  BY <1>2 DEF Exists
<1>7. ListsBacked'
  <2>1. SUFFICES ASSUME NEW q \in Queue, NEW t \in Tier, NEW i \in DOMAIN pending[q][t]
                 PROVE  Exists(pending[q][t][i])'
    BY <1>1 DEF ListsBacked
  <2>2. PICK k \in Job : k = pending[q][t][i] /\ Exists(k)
    BY DEF Wakes, Backed, ListsBacked, Types, TypeOK
  <2>3. Exists(k)'
    BY <1>6, <2>2
  <2> QED BY <1>1, <2>2, <2>3 DEF Exists
<1>8. ASSUME NEW p \in Proc, proc'[p].pc = "popped" PROVE Exists(proc[p].job)'
  <2>1. proc[p].pc = "popped"
    BY <1>4, <1>8
  <2>2. PICK k \in Job : k = proc[p].job /\ Exists(k)
    BY <2>1, OwnerType DEF Wakes, Backed, Owning
  <2>3. Exists(k)' /\ proc'[p].job = k
    BY <1>4, <1>6, <2>2
  <2> QED BY <2>3 DEF Exists
<1>9. Backed'
  BY <1>3, <1>6, <1>7, <1>8 DEF Wakes, Backed
<1>10. ASSUME NEW p \in Proc PROVE Ready(p)'
  <2>1. Ready(p)
    BY DEF Wakes
  <2> QED BY <1>1, <1>4, <2>1 DEF Ready, Registered
<1>11. \A k \in Job : record'[k].status = "waiting" => Registered(k)'
  BY <1>1, <1>2 DEF Wakes, Registered
<1>12. NoLostWakeup'
  <2>1. SUFFICES ASSUME NEW k \in Job, record'[k].status = "waiting",
                        \A d \in DependsOn[k] : Completed(d)'
                 PROVE  \E p \in Proc : WillPromote(p, k)'
    BY DEF NoLostWakeup
  <2>2. record[k].status = "waiting" /\ \A d \in DependsOn[k] : Completed(d)
    BY <1>2, <2>1, DependsOnAssumption DEF Completed
  <2>3. PICK p \in Proc : WillPromote(p, k)
    BY <2>2 DEF Wakes, NoLostWakeup
  <2>4. WillPromote(p, k)'
    BY <1>1, <1>4, <2>3 DEF WillPromote
  <2> QED BY <2>4
<1> QED BY <1>5, <1>9, <1>10, <1>11, <1>12 DEF Wakes

LEMMA WakesHolds ==
  ASSUME NothingLost
  PROVE  /\ Init => Wakes
         /\ Types /\ Wakes /\ [Next]_vars => Wakes'
<1>1. ASSUME Init PROVE Wakes
  <2>1. \A p \in Proc : proc[p].pc = "idle"
    BY <1>1 DEF Init, Idle
  <2>2. \A j \in Job : record[j].status = "absent"
    BY <1>1 DEF Init, Absent
  <2>3. Undeleted /\ (\A p \in Proc : Ready(p)) /\ NoLostWakeup
    BY <1>1, <2>1, <2>2 DEF Init, Undeleted, Ready, NoLostWakeup
  <2>4. ListsBacked
    <3>1. \A q \in Queue, t \in Tier : pending[q][t] = <<>>
      BY <1>1 DEF Init
    <3>2. \A q \in Queue, t \in Tier : DOMAIN pending[q][t] = {}
      BY <3>1
    <3> QED BY <3>2 DEF ListsBacked
  <2>5. Backed
    BY <1>1, <2>1, <2>4 DEF Init, Backed
  <2> QED BY <2>2, <2>3, <2>5 DEF Wakes
<1>2. ASSUME Types, Wakes, [Next]_vars PROVE Wakes'
  <2>1. CASE UNCHANGED vars
    BY <1>2, <2>1 DEF vars, store, index, Wakes, Undeleted, Backed, ListsBacked, Exists, Ready,
                      Registered, NoLostWakeup, Completed, WillPromote
  <2>2. ASSUME NEW s \in Slot, Dequeue(s) \/ Work(s) PROVE Wakes'
    BY <1>2, <2>2, DequeueWakes, WorkWakes
  <2>3. ASSUME NEW p \in Proc, Broker(p) \/ Crash(p) PROVE Wakes'
    <3>1. CASE Broker(p)
      BY <1>2, <3>1, BrokerWakes
    <3>2. CASE Crash(p)
      BY <1>2, <3>2 DEF Crash, NothingLost, Types, TypeOK
    <3> QED BY <2>3, <3>1, <3>2
  <2>4. ASSUME NEW c \in Client, Maintain(c) \/ Query(c) \/ \E j \in Job : Call(c, j)
        PROVE  Wakes'
    BY <1>2, <2>4, MaintainWakes, ClientWakes
  <2>5. ASSUME NEW j \in Job, RunAtPasses(j) \/ ResultExpires(j) PROVE Wakes'
    <3>1. CASE RunAtPasses(j)
      BY <1>2, <3>1, RunAtPassesWakes
    <3>2. CASE ResultExpires(j)
      BY <3>2 DEF ResultExpires, Expires, NothingLost
    <3> QED BY <2>5, <3>1, <3>2
  <2>6. CASE Next
    BY <2>2, <2>3, <2>4, <2>5, <2>6 DEF Next
  <2> QED BY <1>2, <2>1, <2>6
<1> QED BY <1>1, <1>2

\* While no process dies in the middle of an operation and no record is deleted, no
\* wake-up is lost, however many workers and callers there are and however the
\* round trips of enqueue, of a completion and of a promotion interleave.
THEOREM WakeUps == ASSUME NothingLost PROVE Spec => []NoLostWakeup
<1>1. Wakes => NoLostWakeup
  BY DEF Wakes
<1> QED BY <1>1, TypesHold, WakesHolds, PTL DEF Spec

-----------------------------------------------------------------------------
(* The wake-ups that deletions leave.                                       *)

\* A purge, an expired result or a reap deletes what is known of a job, with the
\* set of its dependents.  What is promised of a job that waits is then about the
\* dependencies that have completed and still know it.
Linked(j) == \A d \in DependsOn[j] : Completed(d) /\ j \in dependents[d]

\* Process p is in enqueue with the job, registered already, and looks at its
\* dependencies, or looks again once it has written it.
Enqueues(p, j) ==
    /\ proc[p].job = j
    /\ \/ proc[p].pc = "check"
       \/ proc[p].pc \in {"get", "write"} /\ proc[p].next = "look"

Attends(p, j) == WillPromote(p, j) \/ Enqueues(p, j)

\* No job waits for dependencies that have all completed and know of it without a
\* process that is about to promote it or to look again.
NoKnownWaitsInVain ==
    \A j \in Job : record[j].status = "waiting" /\ Linked(j) => \E p \in Proc : Attends(p, j)

\* What follows a write is what its status calls for.
Honest(state) ==
    /\ state.pc \in {"register", "check"} => state.held.status # "completed"
    /\ state.pc \in {"get", "write"} =>
         /\ state.held.status = "waiting" => state.next = "look"
         /\ state.held.status = "completed" => state.next = "resolve"
         /\ state.next = "enqueue" => state.held.status = "pending"
    /\ state.pc = "deps" => state.deps \subseteq DependsOn[state.job]

\* Nobody but a job's own dependents is registered with it.
RightlyKnown == \A d \in Job : \A j \in dependents[d] : d \in DependsOn[j]

\* The inductive invariant of NoKnownWaitsInVain.
Attended == /\ \A p \in Proc : Honest(proc[p])
            /\ RightlyKnown
            /\ NoKnownWaitsInVain

\* A step of p after which each linked job that waits is attended by p, or was
\* linked and waiting before and attended by another.
LEMMA AttendKept ==
  ASSUME Types, Attended, NEW p \in Proc, NEW state, Become(p, state), Honest(state),
         RightlyKnown',
         \A j \in Job : record'[j].status = "waiting" /\ Linked(j)' =>
            \/ Attends(p, j)'
            \/ record[j].status = "waiting" /\ Linked(j) /\ ~Attends(p, j)
  PROVE  Attended'
<1>1. proc'[p] = state /\ \A r \in Proc \ {p} : proc'[r] = proc[r]
  BY Moved
<1>2. \A r \in Proc : Honest(proc'[r])
  BY <1>1 DEF Attended
<1>3. ASSUME NEW j \in Job, record'[j].status = "waiting", Linked(j)'
      PROVE  \E r \in Proc : Attends(r, j)'
  <2>1. CASE Attends(p, j)'
    BY <2>1
  <2>2. CASE record[j].status = "waiting" /\ Linked(j) /\ ~Attends(p, j)
    <3>1. PICK r \in Proc : Attends(r, j)
      BY <2>2 DEF Attended, NoKnownWaitsInVain
    <3>2. proc'[r] = proc[r]
      BY <1>1, <2>2, <3>1
    <3>3. PICK before : before = proc[r]
      OBVIOUS
    <3>4. proc[r] = before /\ proc'[r] = before
      BY <3>2, <3>3
    <3>5. CASE before.pc = "resolve" /\ j \in dependents[before.job]
      <4>1. before.job \in Job
        BY <3>4, <3>5, OwnerType DEF Owning
      <4>2. before.job \in DependsOn[j]
        BY <3>5, <4>1 DEF Attended, RightlyKnown
      <4>3. j \in dependents'[before.job]
        BY <1>3, <4>2 DEF Linked
      <4>4. WillPromote(r, j)'
        BY <3>4, <3>5, <4>3 DEF WillPromote
      <4> QED BY <4>4 DEF Attends
    <3>6. CASE \/ before.pc \in {"promote", "deps", "wake"} /\ j \in before.todo
               \/ before.pc \in {"deps", "wake"} /\ before.job = j
      <4>1. WillPromote(r, j)'
        BY <3>4, <3>6 DEF WillPromote
      <4> QED BY <4>1 DEF Attends
    <3>7. CASE /\ before.job = j
               /\ \/ before.pc = "check"
                  \/ before.pc \in {"get", "write"} /\ before.next = "look"
      <4>1. Enqueues(r, j)'
        BY <3>4, <3>7 DEF Enqueues
      <4> QED BY <4>1 DEF Attends
    <3> QED BY <3>1, <3>4, <3>5, <3>6, <3>7 DEF Attends, WillPromote, Enqueues
  <2> QED BY <1>3, <2>1, <2>2
<1>4. NoKnownWaitsInVain'
  BY <1>3 DEF NoKnownWaitsInVain
<1> QED BY <1>2, <1>4 DEF Attended

\* A step of p that stores nothing and goes on with what p attends.
LEMMA AttendLocal ==
  ASSUME Types, Attended, NEW p \in Proc, NEW state, Become(p, state), Honest(state),
         record' = record, dependents' = dependents,
         \A j \in Job : Attends(p, j) /\ record[j].status = "waiting" /\ Linked(j)
                          => Attends(p, j)'
  PROVE  Attended'
<1>1. \A j \in Job : Linked(j)' <=> Linked(j)
  BY DEF Linked, Completed
<1>2. RightlyKnown'
  BY DEF Attended, RightlyKnown
<1> QED BY <1>1, <1>2, AttendKept

\* The same of a process that attends nobody.
LEMMA AttendQuiet ==
  ASSUME Types, Attended, NEW p \in Proc, NEW state, Become(p, state), Honest(state),
         record' = record, dependents' = dependents,
         proc[p].pc \notin {"check", "get", "write", "resolve", "promote", "deps", "wake"}
  PROVE  Attended'
<1>1. \A j \in Job : ~Attends(p, j)
  BY DEF Attends, WillPromote, Enqueues
<1> QED BY <1>1, AttendLocal

\* A deletion: a job that is linked after it does not depend on the deleted one.
LEMMA ForgetAttends ==
  ASSUME Types, Attended, NEW p \in Proc, NEW state, Become(p, state), Honest(state),
         proc[p].pc \notin {"check", "get", "write", "resolve", "promote", "deps", "wake"},
         NEW k \in Job, record' = [record EXCEPT ![k] = Absent],
         dependents' = [dependents EXCEPT ![k] = {}] \/ dependents' = dependents
  PROVE  Attended'
<1>1. record \in [Job -> Record] /\ dependents \in [Job -> SUBSET Job]
  BY DEF Types, TypeOK
<1>2. record'[k].status = "absent" /\ \A j \in Job : j # k => record'[j] = record[j]
  BY <1>1 DEF Absent
<1>3. \A d \in Job : dependents'[d] \subseteq dependents[d]
  BY <1>1
<1>4. \A j \in Job : ~Attends(p, j)
  BY DEF Attends, WillPromote, Enqueues
<1>5. ASSUME NEW j \in Job, record'[j].status = "waiting", Linked(j)'
      PROVE  record[j].status = "waiting" /\ Linked(j)
  <2>1. record[j].status = "waiting"
    BY <1>2, <1>5
  <2>2. ASSUME NEW d \in DependsOn[j] PROVE Completed(d) /\ j \in dependents[d]
    <3>1. d \in Job /\ record'[d].status = "completed" /\ j \in dependents'[d]
      BY <1>5, DependsOnAssumption DEF Linked, Completed
    <3>2. record[d].status = "completed"
      BY <1>2, <3>1
    <3> QED BY <1>3, <3>1, <3>2 DEF Completed
  <2> QED BY <2>1, <2>2 DEF Linked
<1>6. RightlyKnown'
  BY <1>3 DEF Attended, RightlyKnown
<1> QED BY <1>4, <1>5, <1>6, AttendKept

LEMMA WorkAttends ==
  ASSUME Types, Attended, NEW s \in Slot, Dequeue(s) \/ Work(s)
  PROVE  Attended'
<1>0. s \in Proc
  BY DEF Proc
<1>q. ASSUME NEW state, Become(s, state), Honest(state), UNCHANGED store,
             proc[s].pc \in {"idle", "popped", "claimed", "invoke"}
      PROVE  Attended'
  BY <1>0, <1>q, AttendQuiet DEF store
<1>1. CASE PromoteDeferred(s)
  BY <1>1 DEF PromoteDeferred, Attended, RightlyKnown, NoKnownWaitsInVain, Linked, Completed,
              Attends, WillPromote, Enqueues
<1>2. ASSUME NEW i \in DOMAIN Queues[s], NEW t \in Tier, Pop(s, i, t) PROVE Attended'
  <2>1. PICK state : Become(s, state) /\ state.pc = "popped"
    BY <1>2, PopShape DEF Pops
  <2>2. Honest(state)
    BY <2>1 DEF Honest
  <2>3. record' = record /\ dependents' = dependents /\ proc[s].pc = "idle"
    BY <1>2 DEF Pop
  <2> QED BY <1>0, <2>1, <2>2, <2>3, AttendQuiet
<1>3. CASE Load(s)
  <2>1. PICK state : Become(s, state) /\ state.pc \in {"claimed", "gone"}
    BY <1>3, LoadShape
  <2>2. Honest(state)
    BY <2>1 DEF Honest
  <2> QED BY <1>3, <1>q, <2>1, <2>2, LoadShape
<1>4. CASE Drop(s)
  <2>1. Honest(Idle)
    BY DEF Honest, Idle
  <2>2. /\ proc[s].pc = "gone" /\ proc[s].job \in Job /\ Become(s, Idle)
        /\ Forget(proc[s].job, {}, JobStatus)
    BY <1>0, <1>4, DropShape
  <2>3. PICK k \in Job : k = proc[s].job
    BY <2>2
  <2>4. record' = [record EXCEPT ![k] = Absent] /\ dependents' = [dependents EXCEPT ![k] = {}]
    BY <2>2, <2>3 DEF Forget
  <2> QED BY <1>0, <2>1, <2>2, <2>4, ForgetAttends
<1>5. CASE RejectUnknown(s) \/ Succeed(s) \/ MoveToDLQ(s) \/ Fail(s)
  <2>1. PICK state : /\ Become(s, state) /\ state.pc = "get"
                     /\ \/ state.held.status \in {"failed", "dead"} /\ state.next = "return"
                        \/ state.held.status = "completed" /\ state.next = "resolve"
    BY <1>5, ConcludeShape
  <2>2. Honest(state)
    BY <2>1 DEF Honest
  <2> QED BY <1>5, <1>q, <2>1, <2>2, ConcludeShape
<1>6. CASE CheckCancelled(s)
  <2>1. PICK state : /\ Become(s, state)
                     /\ \/ state.pc = "idle"
                        \/ /\ state.pc = "get" /\ state.next = "invoke"
                           /\ state.held.status = "running"
    BY <1>6, CheckCancelledShape DEF Idle
  <2>2. Honest(state)
    BY <2>1 DEF Honest
  <2> QED BY <1>6, <1>q, <2>1, <2>2, CheckCancelledShape
<1>7. ASSUME NEW due \in BOOLEAN, ScheduleRetry(s, due) PROVE Attended'
  <2>1. PICK state : /\ Become(s, state) /\ state.held.status = "retrying"
                     /\ \/ state.pc = "get" /\ state.next = "look"
                        \/ state.pc = "register"
    BY <1>7, ScheduleRetryShape
  <2>2. Honest(state)
    BY <2>1 DEF Honest
  <2> QED BY <1>7, <1>q, <2>1, <2>2, ScheduleRetryShape
<1> QED BY <1>1, <1>2, <1>3, <1>4, <1>5, <1>6, <1>7 DEF Dequeue, Work

LEMMA ClientAttends ==
  ASSUME Types, Attended, NEW c \in Client,
         Maintain(c) \/ Query(c) \/ \E j \in Job : Call(c, j)
  PROVE  Attended'
<1>0. c \in Proc
  BY DEF Proc
<1>q. ASSUME NEW state, Become(c, state), Honest(state), UNCHANGED store,
             proc[c].pc \in {"idle", "reap", "list", "fetch", "forget"}
      PROVE  Attended'
  BY <1>0, <1>q, AttendQuiet DEF store
<1>m. ASSUME NEW state, Become(c, state), UNCHANGED store,
             proc[c].pc \in {"idle", "reap", "list", "fetch", "forget"},
             state.pc \in {"idle", "reap", "list", "fetch", "forget"}
      PROVE  Attended'
  <2>1. Honest(state)
    BY <1>m DEF Honest
  <2> QED BY <1>q, <1>m, <2>1
<1>c. ASSUME UNCHANGED store, proc[c].pc = "idle",
             \E state : /\ Become(c, state) /\ state.held.status \in {"pending", "cancelled"}
                        /\ \/ state.pc = "get"
                           \/ state.pc = "register"
                        /\ state.pc = "get" /\ state.next = "enqueue" =>
                             state.held.status = "pending"
      PROVE  Attended'
  <2>1. PICK state : /\ Become(c, state) /\ state.held.status \in {"pending", "cancelled"}
                     /\ \/ state.pc = "get"
                        \/ state.pc = "register"
                     /\ state.pc = "get" /\ state.next = "enqueue" =>
                          state.held.status = "pending"
    BY <1>c
  <2>2. Honest(state)
    BY <2>1 DEF Honest
  <2> QED BY <1>q, <1>c, <2>1, <2>2
<1>f. ASSUME NEW j \in Job, NEW queues, NEW statuses, Forget(j, queues, statuses),
             NEW state, Become(c, state), state.pc \in {"idle", "reap"},
             proc[c].pc \in {"reap", "forget"}
      PROVE  Attended'
  <2>1. Honest(state)
    BY <1>f DEF Honest
  <2>2. record' = [record EXCEPT ![j] = Absent] /\ dependents' = [dependents EXCEPT ![j] = {}]
    BY <1>f DEF Forget
  <2> QED BY <1>0, <1>f, <2>1, <2>2, ForgetAttends
<1>1. CASE Query(c)
  BY <1>m, <1>1, QueryShape
<1>2. ASSUME NEW j \in Job, NEW due \in BOOLEAN, Enqueue(c, j, due) PROVE Attended'
  BY <1>2, <1>c, EnqueueShape
<1>3. ASSUME NEW j \in Job, CancelJob(c, j) PROVE Attended'
  BY <1>3, <1>c, CancelShape
<1>4. ASSUME NEW j \in Job, RetryJob(c, j) PROVE Attended'
  BY <1>4, <1>c, RetryShape
<1>5. ASSUME NEW j \in Job, ReplayDeadJob(c, j) PROVE Attended'
  BY <1>5, <1>c, ReplayShape
<1>6. ASSUME NEW j \in Job, Call(c, j) PROVE Attended'
  BY <1>2, <1>3, <1>4, <1>5, <1>6 DEF Call
<1>7. ASSUME NEW m \in proc[c].left, ReapForget(c, m) PROVE Attended'
  BY <1>f, <1>7, ReapForgetShape
<1>8. CASE ReapRemove(c)
  <2>1. PICK state : Become(c, state) /\ state.pc \in {"idle", "list"}
    BY <1>8, ReapRemoveShape
  <2>2. Honest(state)
    BY <2>1 DEF Honest
  <2>3. proc[c].pc = "reap" /\ record' = record /\ dependents' = dependents
    BY <1>8 DEF ReapRemove
  <2> QED BY <1>0, <2>1, <2>2, <2>3, AttendQuiet
<1>9. CASE PurgeList(c)
  BY <1>m, <1>9, PurgeListShape
<1>10. ASSUME NEW old \in BOOLEAN, PurgeFetch(c, old) PROVE Attended'
  BY <1>m, <1>10, PurgeFetchShape
<1>11. CASE PurgeForget(c)
  <2>1. Idle.pc = "idle"
    BY DEF Idle
  <2> QED BY <1>f, <1>11, <2>1, PurgeForgetShape
<1> QED BY <1>1, <1>6, <1>7, <1>8, <1>9, <1>10, <1>11 DEF Maintain

\* A job stored as waiting is looked at again by its writer; one stored as completed
\* is about to be resolved for the jobs that are registered with it.
LEMMA WriteAttends ==
  ASSUME Types, Attended, NEW p \in Proc, Write(p)
  PROVE  Attended'
<1>1. PICK j \in Job : j = proc[p].job
  BY WriteShape
<1>2. PICK job \in Record : job = proc[p].held
  BY WriteShape
<1>3. /\ proc[p].pc = "write" /\ Continue(p) /\ dependents' = dependents
      /\ record' = [record EXCEPT ![j] = job]
  BY <1>1, <1>2, WriteShape
<1>4. record'[j] = job /\ \A k \in Job : k # j => record'[k] = record[k]
  BY <1>3 DEF Types, TypeOK
<1>5. /\ job.status = "waiting" => proc[p].next = "look"
      /\ job.status = "completed" => proc[p].next = "resolve"
      /\ proc[p].next = "enqueue" => job.status = "pending"
  BY <1>2, <1>3 DEF Attended, Honest
<1>6. PICK state :
        /\ Become(p, state)
        /\ proc[p].next = "invoke" => state.pc = "invoke"
        /\ proc[p].next = "resolve" => state.pc = "resolve" /\ state.job = j
        /\ proc[p].next = "enqueue" =>
             /\ state.held = job
             /\ \/ state.pc = "get" /\ state.next = "look"
                \/ state.pc = "register"
        /\ proc[p].next = "look" =>
             IF job.status = "waiting" THEN state.pc = "promote" /\ state.todo = {j}
             ELSE state.pc = "idle"
        /\ proc[p].next \notin {"invoke", "resolve", "enqueue", "look"} => state.pc = "idle"
  BY <1>1, <1>2, <1>3, ContinueShape
<1>7. Honest(state)
  BY <1>5, <1>6 DEF Honest
<1>8. proc'[p] = state
  BY <1>6, Moved
<1>9. ASSUME NEW k \in Job, record'[k].status = "waiting", Linked(k)'
      PROVE  \/ Attends(p, k)'
             \/ record[k].status = "waiting" /\ Linked(k) /\ ~Attends(p, k)
  <2>1. CASE k = j
    <3>1. state.pc = "promote" /\ state.todo = {j}
      BY <1>4, <1>5, <1>6, <1>9, <2>1
    <3>2. WillPromote(p, k)'
      BY <1>8, <2>1, <3>1 DEF WillPromote
    <3> QED BY <3>2 DEF Attends
  <2>2. CASE k # j /\ \A d \in DependsOn[k] : Completed(d)
    <3>1. record[k].status = "waiting"
      BY <1>4, <1>9, <2>2
    <3>2. Linked(k)
      BY <1>3, <1>9, <2>2 DEF Linked
    <3>3. ~Attends(p, k)
      BY <1>1, <1>3, <2>2 DEF Attends, WillPromote, Enqueues
    <3> QED BY <3>1, <3>2, <3>3
  <2>3. ASSUME k # j, NEW d \in DependsOn[k], ~Completed(d)
        PROVE  Attends(p, k)'
    <3>1. d \in Job /\ Completed(d)' /\ k \in dependents'[d]
      BY <1>9, <2>3, DependsOnAssumption DEF Linked
    <3>2. d = j /\ job.status = "completed"
      BY <1>4, <2>3, <3>1 DEF Completed
    <3>3. state.pc = "resolve" /\ state.job = j
      BY <1>5, <1>6, <3>2
    <3>4. WillPromote(p, k)'
      BY <1>8, <3>1, <3>2, <3>3 DEF WillPromote
    <3> QED BY <3>4 DEF Attends
  <2> QED BY <2>1, <2>2, <2>3
<1>10. RightlyKnown'
  BY <1>3 DEF Attended, RightlyKnown
<1> QED BY <1>6, <1>7, <1>9, <1>10, AttendKept

LEMMA RegisterAttends ==
  ASSUME Types, Attended, NEW p \in Proc, Register(p)
  PROVE  Attended'
<1>1. PICK j \in Job : j = proc[p].job
  BY RegisterShape
<1>2. /\ proc[p].pc = "register" /\ record' = record
      /\ dependents' = [d \in Job |-> IF d \in DependsOn[j] THEN dependents[d] \cup {j}
                                      ELSE dependents[d]]
  BY <1>1 DEF Register
<1>3. PICK state : /\ Become(p, state) /\ state.pc = "check" /\ state.job = j
                   /\ state.held = proc[p].held
  BY <1>1, RegisterShape
<1>4. Honest(proc[p])
  BY DEF Attended
<1>5. Honest(state)
  BY <1>2, <1>3, <1>4 DEF Honest
<1>6. proc'[p] = state
  BY <1>3, Moved
<1>7. ASSUME NEW d \in Job, NEW k \in dependents'[d] PROVE d \in DependsOn[k]
  <2>1. (k = j /\ d \in DependsOn[j]) \/ k \in dependents[d]
    BY <1>2, <1>7
  <2> QED BY <2>1 DEF Attended, RightlyKnown
<1>8. ASSUME NEW k \in Job, record'[k].status = "waiting", Linked(k)'
      PROVE  \/ Attends(p, k)'
             \/ record[k].status = "waiting" /\ Linked(k) /\ ~Attends(p, k)
  <2>1. CASE k = j
    <3>1. Enqueues(p, k)'
      BY <1>3, <1>6, <2>1 DEF Enqueues
    <3> QED BY <3>1 DEF Attends
  <2>2. CASE k # j
    <3>1. ASSUME NEW d \in DependsOn[k] PROVE Completed(d) /\ k \in dependents[d]
      <4>1. d \in Job /\ Completed(d)' /\ k \in dependents'[d]
        BY <1>8, DependsOnAssumption DEF Linked
      <4>2. k \in dependents[d]
        BY <1>2, <2>2, <4>1
      <4> QED BY <1>2, <4>1, <4>2 DEF Completed
    <3>2. ~Attends(p, k)
      BY <1>2 DEF Attends, WillPromote, Enqueues
    <3> QED BY <1>2, <1>8, <3>1, <3>2 DEF Linked
  <2> QED BY <2>1, <2>2
<1>9. RightlyKnown'
  BY <1>7 DEF RightlyKnown
<1> QED BY <1>3, <1>5, <1>8, <1>9, AttendKept

LEMMA WakeAttends ==
  ASSUME Types, Attended, NEW p \in Proc, Wake(p)
  PROVE  Attended'
<1>1. PICK j \in Job : j = proc[p].job
  BY WakeShape
<1>2. PICK job \in Record : job.status = "pending" /\ record' = [record EXCEPT ![j] = job]
  BY <1>1, WakeShape
<1>3. proc[p].pc = "wake" /\ dependents' = dependents
  BY WakeShape
<1>4. PICK state : /\ Become(p, state) /\ state.todo = proc[p].todo
                   /\ state.pc = (IF state.todo = {} THEN "idle" ELSE "promote")
  BY WakeShape
<1>5. record'[j].status = "pending" /\ \A k \in Job : k # j => record'[k] = record[k]
  BY <1>2 DEF Types, TypeOK
<1>6. Honest(state)
  BY <1>4 DEF Honest
<1>7. proc'[p] = state
  BY <1>4, Moved
<1>8. ASSUME NEW k \in Job, record'[k].status = "waiting", Linked(k)'
      PROVE  \/ Attends(p, k)'
             \/ record[k].status = "waiting" /\ Linked(k) /\ ~Attends(p, k)
  <2>1. k # j /\ record[k].status = "waiting"
    BY <1>5, <1>8
  <2>2. ASSUME NEW d \in DependsOn[k] PROVE Completed(d) /\ k \in dependents[d]
    <3>1. d \in Job /\ record'[d].status = "completed" /\ k \in dependents[d]
      BY <1>3, <1>8, DependsOnAssumption DEF Linked, Completed
    <3>2. d # j
      BY <1>5, <3>1
    <3> QED BY <1>5, <3>1, <3>2 DEF Completed
  <2>3. CASE k \in proc[p].todo
    <3>1. state.pc = "promote" /\ k \in state.todo
      BY <1>4, <2>3
    <3>2. WillPromote(p, k)'
      BY <1>7, <3>1 DEF WillPromote
    <3> QED BY <3>2 DEF Attends
  <2>4. CASE k \notin proc[p].todo
    <3>1. ~Attends(p, k)
      BY <1>1, <1>3, <2>1, <2>4 DEF Attends, WillPromote, Enqueues
    <3> QED BY <2>1, <2>2, <3>1 DEF Linked
  <2> QED BY <2>3, <2>4
<1>9. RightlyKnown'
  BY <1>3 DEF Attended, RightlyKnown
<1> QED BY <1>4, <1>6, <1>8, <1>9, AttendKept

LEMMA BrokerAttends ==
  ASSUME Types, Attended, NEW p \in Proc, Broker(p)
  PROVE  Attended'
<1>0. Honest(proc[p])
  BY DEF Attended
<1>1. CASE GetOld(p)
  <2>1. proc[p].pc = "get" /\ record' = record /\ dependents' = dependents
    BY <1>1, GetOldShape DEF store
  <2>2. PICK state : /\ Become(p, state) /\ state.pc = "write" /\ state.job = proc[p].job
                     /\ state.held = proc[p].held /\ state.next = proc[p].next
    BY <1>1, GetOldShape
  <2>3. Honest(state)
    BY <1>0, <2>1, <2>2 DEF Honest
  <2>4. proc'[p] = state
    BY <2>2, Moved
  <2>5. \A j \in Job : Attends(p, j) => Attends(p, j)'
    BY <2>1, <2>2, <2>4 DEF Attends, WillPromote, Enqueues
  <2> QED BY <2>1, <2>2, <2>3, <2>5, AttendLocal
<1>2. ASSUME NEW d \in Job, CheckDep(p, d) PROVE Attended'
  <2>1. proc[p].pc = "check" /\ record' = record /\ dependents' = dependents
    BY <1>2, CheckDepShape DEF store
  <2>2. PICK state : /\ Become(p, state) /\ state.job = proc[p].job
                     /\ \/ /\ state.pc = "get" /\ state.next = "look"
                           /\ state.held.status = "waiting"
                        \/ /\ state.pc = "get" /\ state.next = "look"
                           /\ state.held = proc[p].held
                        \/ /\ state.pc = "check" /\ state.held = proc[p].held
    BY <1>2, CheckDepShape
  <2>3. Honest(state)
    BY <1>0, <2>1, <2>2 DEF Honest
  <2>4. proc'[p] = state
    BY <2>2, Moved
  <2>5. \A j \in Job : Attends(p, j) => Attends(p, j)'
    BY <2>1, <2>2, <2>4 DEF Attends, WillPromote, Enqueues
  <2> QED BY <2>1, <2>2, <2>3, <2>5, AttendLocal
<1>3. CASE Resolve(p)
  <2>1. proc[p].pc = "resolve" /\ record' = record /\ dependents' = dependents
    BY <1>3, ResolveShape DEF store
  <2>2. PICK state : /\ Become(p, state) /\ state.todo = dependents[proc[p].job]
                     /\ state.pc = (IF state.todo = {} THEN "idle" ELSE "promote")
    BY <1>3, ResolveShape
  <2>3. Honest(state)
    BY <2>2 DEF Honest
  <2>4. proc'[p] = state
    BY <2>2, Moved
  <2>5. \A j \in Job : Attends(p, j) => Attends(p, j)'
    BY <2>1, <2>2, <2>4 DEF Attends, WillPromote, Enqueues
  <2> QED BY <2>1, <2>2, <2>3, <2>5, AttendLocal
<1>4. ASSUME NEW k \in Job, PromoteGet(p, k) PROVE Attended'
  <2>1. proc[p].pc = "promote" /\ record' = record /\ dependents' = dependents
    BY <1>4, PromoteGetShape DEF store
  <2>2. PICK state : /\ Become(p, state) /\ state.todo = proc[p].todo \ {k}
                     /\ IF record[k].status = "waiting"
                        THEN state.pc = "deps" /\ state.job = k /\ state.deps = DependsOn[k]
                        ELSE state.pc = (IF state.todo = {} THEN "idle" ELSE "promote")
    BY <1>4, PromoteGetShape
  <2>3. Honest(state)
    BY <2>2 DEF Honest
  <2>4. proc'[p] = state
    BY <2>2, Moved
  <2>5. \A j \in Job : Attends(p, j) /\ record[j].status = "waiting" => Attends(p, j)'
    BY <2>1, <2>2, <2>4 DEF Attends, WillPromote, Enqueues
  <2> QED BY <2>1, <2>2, <2>3, <2>5, AttendLocal
<1>5. ASSUME NEW d \in Job, PromoteDep(p, d) PROVE Attended'
  <2>1. /\ proc[p].pc = "deps" /\ record' = record /\ dependents' = dependents
        /\ d \in proc[p].deps
    BY <1>5, PromoteDepShape DEF store
  <2>2. PICK state : /\ Become(p, state) /\ state.todo = proc[p].todo
                     /\ IF Completed(d)
                        THEN /\ state.pc \in {"deps", "wake"} /\ state.job = proc[p].job
                             /\ state.deps = proc[p].deps \ {d}
                        ELSE state.pc = (IF state.todo = {} THEN "idle" ELSE "promote")
    BY <1>5, PromoteDepShape
  <2>3. proc[p].deps \subseteq DependsOn[proc[p].job]
    BY <1>0, <2>1 DEF Honest
  <2>4. Honest(state)
    BY <2>2, <2>3 DEF Honest
  <2>5. proc'[p] = state
    BY <2>2, Moved
  <2>6. ASSUME NEW j \in Job, Attends(p, j), Linked(j) PROVE Attends(p, j)'
    <3>1. j \in proc[p].todo \/ proc[p].job = j
      BY <2>1, <2>6 DEF Attends, WillPromote, Enqueues
    <3>2. CASE Completed(d)
      <4>1. WillPromote(p, j)'
        BY <2>2, <2>5, <3>1, <3>2 DEF WillPromote
      <4> QED BY <4>1 DEF Attends
    <3>3. CASE ~Completed(d)
      <4>1. proc[p].job # j
        BY <2>1, <2>3, <2>6, <3>3 DEF Linked
      <4>2. state.pc = "promote" /\ j \in state.todo
        BY <2>2, <3>1, <3>3, <4>1
      <4>3. WillPromote(p, j)'
        BY <2>5, <4>2 DEF WillPromote
      <4> QED BY <4>3 DEF Attends
    <3> QED BY <3>2, <3>3
  <2> QED BY <2>1, <2>2, <2>4, <2>6, AttendLocal
<1>6. CASE Write(p)
  BY <1>6, WriteAttends
<1>7. CASE Register(p)
  BY <1>7, RegisterAttends
<1>8. CASE Wake(p)
  BY <1>8, WakeAttends
<1> QED BY <1>1, <1>2, <1>3, <1>4, <1>5, <1>6, <1>7, <1>8 DEF Broker

LEMMA ClockAttends ==
  ASSUME Types, Attended, NEW k \in Job, RunAtPasses(k) \/ ResultExpires(k)
  PROVE  Attended'
<1>1. CASE RunAtPasses(k)
  <2>1. dependents' = dependents /\ \A j \in Job : record'[j].status = record[j].status
    BY <1>1, RunAtPassesShape
  <2>2. \A p \in Proc :
          /\ proc'[p].pc = proc[p].pc /\ proc'[p].job = proc[p].job
          /\ proc'[p].next = proc[p].next /\ proc'[p].todo = proc[p].todo
          /\ proc'[p].deps = proc[p].deps /\ proc'[p].held.status = proc[p].held.status
    BY <1>1, RunAtPassesShape
  <2>3. \A p \in Proc : Honest(proc'[p])
    BY <2>2 DEF Attended, Honest
  <2>4. ASSUME NEW j \in Job, record'[j].status = "waiting", Linked(j)'
        PROVE  \E p \in Proc : Attends(p, j)'
    <3>1. record[j].status = "waiting" /\ Linked(j)
      BY <2>1, <2>4, DependsOnAssumption DEF Linked, Completed
    <3>2. PICK p \in Proc : Attends(p, j)
      BY <3>1 DEF Attended, NoKnownWaitsInVain
    <3>3. Attends(p, j)'
      BY <2>1, <2>2, <3>2 DEF Attends, WillPromote, Enqueues
    <3> QED BY <3>3
  <2>5. RightlyKnown'
    BY <2>1 DEF Attended, RightlyKnown
  <2> QED BY <2>3, <2>4, <2>5 DEF Attended, NoKnownWaitsInVain
<1>2. CASE ResultExpires(k)
  <2>1. /\ record' = [record EXCEPT ![k] = Absent] /\ dependents' = dependents
        /\ proc' = proc
    BY <1>2 DEF ResultExpires
  <2>2. record'[k].status = "absent" /\ \A j \in Job : j # k => record'[j] = record[j]
    BY <2>1 DEF Types, TypeOK, Absent
  <2>3. ASSUME NEW j \in Job, record'[j].status = "waiting", Linked(j)'
        PROVE  \E p \in Proc : Attends(p, j)'
    <3>1. record[j].status = "waiting"
      BY <2>2, <2>3
    <3>2. ASSUME NEW d \in DependsOn[j] PROVE Completed(d) /\ j \in dependents[d]
      <4>1. d \in Job /\ record'[d].status = "completed" /\ j \in dependents[d]
        BY <2>1, <2>3, DependsOnAssumption DEF Linked, Completed
      <4> QED BY <2>2, <4>1 DEF Completed
    <3>3. PICK p \in Proc : Attends(p, j)
      BY <3>1, <3>2 DEF Attended, NoKnownWaitsInVain, Linked
    <3>4. Attends(p, j)'
      BY <2>1, <3>3 DEF Attends, WillPromote, Enqueues
    <3> QED BY <3>4
  <2> QED BY <2>1, <2>3 DEF Attended, NoKnownWaitsInVain, RightlyKnown
<1> QED BY <1>1, <1>2

LEMMA AttendedHolds ==
  ASSUME MaxCrashes = 0
  PROVE  /\ Init => Attended
         /\ Types /\ Attended /\ [Next]_vars => Attended'
<1>1. ASSUME Init PROVE Attended
  <2>1. \A p \in Proc : Honest(proc[p])
    BY <1>1 DEF Init, Idle, Honest
  <2>2. RightlyKnown
    BY <1>1 DEF Init, RightlyKnown
  <2>3. NoKnownWaitsInVain
    BY <1>1 DEF Init, Absent, NoKnownWaitsInVain
  <2> QED BY <2>1, <2>2, <2>3 DEF Attended
<1>2. ASSUME Types, Attended, [Next]_vars PROVE Attended'
  <2>1. CASE UNCHANGED vars
    BY <1>2, <2>1 DEF vars, store, Attended, RightlyKnown, NoKnownWaitsInVain, Linked,
                      Completed, Attends, WillPromote, Enqueues
  <2>2. ASSUME NEW s \in Slot, Dequeue(s) \/ Work(s) PROVE Attended'
    BY <1>2, <2>2, WorkAttends
  <2>3. ASSUME NEW p \in Proc, Broker(p) \/ Crash(p) PROVE Attended'
    <3>1. CASE Broker(p)
      BY <1>2, <3>1, BrokerAttends
    <3>2. CASE Crash(p)
      BY <1>2, <3>2 DEF Crash, Types, TypeOK
    <3> QED BY <2>3, <3>1, <3>2
  <2>4. ASSUME NEW c \in Client, Maintain(c) \/ Query(c) \/ \E j \in Job : Call(c, j)
        PROVE  Attended'
    BY <1>2, <2>4, ClientAttends
  <2>5. ASSUME NEW j \in Job, RunAtPasses(j) \/ ResultExpires(j) PROVE Attended'
    BY <1>2, <2>5, ClockAttends
  <2>6. CASE Next
    BY <2>2, <2>3, <2>4, <2>5, <2>6 DEF Next
  <2> QED BY <1>2, <2>1, <2>6
<1> QED BY <1>1, <1>2

\* While no process dies in the middle of an operation, whatever is purged, expires
\* or is reaped and whoever cancels, retries and replays: a job that waits although
\* its dependencies have all completed, and have it among their dependents, is
\* attended to.  A deletion loses a wake-up by deleting that set and in no other way.
THEOREM NoneWaitsInVain == ASSUME MaxCrashes = 0 PROVE Spec => []NoKnownWaitsInVain
<1>1. Attended => NoKnownWaitsInVain
  BY DEF Attended
<1> QED BY <1>1, TypesHold, AttendedHolds, PTL DEF Spec
===============================================================================
