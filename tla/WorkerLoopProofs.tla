--------------------------- MODULE WorkerLoopProofs ---------------------------
(***************************************************************************)
(* The concurrency slots of a worker are conserved, a worker drains before  *)
(* it deregisters, and its heartbeat never brings it back afterwards, for   *)
(* any jobs, crons, concurrency and failures.                               *)
(***************************************************************************)
EXTENDS WorkerLoop, FiniteSetTheorems, TLAPS

-----------------------------------------------------------------------------
(* Slots.                                                                   *)

\* What the count needs: the types of what it counts, and that no job in the
\* queue has a task already.
SlotTypes ==
    /\ slots \in Nat
    /\ queue \subseteq Job
    /\ task \in [Job -> {"none", "queued", "running", "ended", "gone"}]
    /\ \A j \in queue : task[j] = "queued"

SlotInv == SlotTypes /\ SlotsConserved

\* The slot of a dequeue under way.
Polling == IF main = "dequeue" THEN 1 ELSE 0

\* The tasks in flight are a finite set.
LEMMA InFlightFinite == IsFiniteSet(InFlight) /\ Cardinality(InFlight) \in Nat
<1>1. InFlight \subseteq Job
  BY DEF InFlight
<1> QED BY <1>1, JobAssumption, FS_Subset, FS_CardinalityType

LEMMA PollingNat == Polling \in Nat /\ Polling' \in Nat
BY DEF Polling

\* The loop's condition keeps the free slots and the one of the poll together.
LEMMA AgainCount ==
  ASSUME NEW free \in Nat, Again(free)
  PROVE  /\ slots' \in Nat
         /\ slots' + Polling' = free
BY DEF Again, Polling

\* A step that moves no job into or out of flight has only to keep the slots.
LEMMA SlotsKept ==
  ASSUME SlotInv, InFlight' = InFlight, slots' \in Nat, slots' + Polling' = slots + Polling
  PROVE  SlotsConserved'
<1>1. slots + Cardinality(InFlight) + Polling = Concurrency
  BY DEF SlotInv, SlotsConserved, Polling
<1>2. slots' + Cardinality(InFlight') + Polling' = slots + Cardinality(InFlight) + Polling
  <2>1. PICK n \in Nat : n = Cardinality(InFlight)
    BY InFlightFinite
  <2>2. Cardinality(InFlight') = n
    BY <2>1
  <2>3. slots' \in Nat /\ slots \in Nat /\ slots' + Polling' = slots + Polling
    BY DEF SlotInv, SlotTypes
  <2>4. PICK a, p, b, q \in Nat :
           a = slots /\ p = Polling /\ b = slots' /\ q = Polling'
    BY <2>3, PollingNat
  <2>5. b + q = a + p
    BY <2>3, <2>4
  <2>6. b + n + q = a + n + p
    BY <2>5
  <2> QED BY <2>1, <2>2, <2>4, <2>6
<1> QED BY <1>1, <1>2 DEF SlotsConserved, Polling

\* The invariant holds at the start.
LEMMA SlotInit == Init => SlotInv
<1> SUFFICES ASSUME Init PROVE SlotInv
  OBVIOUS
<1>1. InFlight = {}
  BY DEF Init, InFlight
<1>2. Cardinality(InFlight) = 0
  BY <1>1, FS_EmptySet
<1> QED BY <1>2, ConcurrencyAssumption DEF Init, SlotInv, SlotTypes, SlotsConserved

\* A job claimed from the queue takes the slot of the poll.
LEMMA DequeueKeeps ==
  ASSUME SlotInv, NEW j \in Job, DequeueJob(j)
  PROVE  SlotInv'
<1>1. main = "dequeue" /\ j \in queue /\ queue' = queue \ {j}
        /\ task' = [task EXCEPT ![j] = "running"] /\ Again(slots)
  BY DEF DequeueJob
<1>2. task[j] = "queued" /\ slots \in Nat
  BY <1>1 DEF SlotInv, SlotTypes
<1>3. j \notin InFlight /\ InFlight' = InFlight \cup {j}
  BY <1>1, <1>2 DEF SlotInv, SlotTypes, InFlight
<1>4. Cardinality(InFlight') = Cardinality(InFlight) + 1
  BY <1>3, InFlightFinite, FS_AddElement
<1>5. slots' \in Nat /\ slots' + Polling' = slots
  BY <1>1, <1>2, AgainCount
<1>6. slots + Cardinality(InFlight) + Polling = Concurrency /\ Polling = 1
  BY <1>1 DEF SlotInv, SlotsConserved, Polling
<1>7. slots' + Cardinality(InFlight') + Polling' = slots + Cardinality(InFlight) + Polling
  <2>1. PICK n \in Nat : n = Cardinality(InFlight)
    BY InFlightFinite
  <2>2. Cardinality(InFlight') = n + 1
    BY <1>4, <2>1
  <2>3. PICK a, p, b, q \in Nat :
           a = slots /\ p = Polling /\ b = slots' /\ q = Polling'
    BY <1>2, <1>5, PollingNat
  <2>4. b + q = a /\ p = 1
    BY <1>5, <1>6, <2>3
  <2>5. b + (n + 1) + q = a + n + p
    BY <2>4
  <2> QED BY <2>1, <2>2, <2>3, <2>5
<1>8. SlotTypes'
  BY <1>1, <1>5 DEF SlotInv, SlotTypes
<1> QED BY <1>6, <1>7, <1>8 DEF SlotInv, SlotsConserved, Polling

\* The callback of an ended task gives its slot back.
LEMMA DoneKeeps ==
  ASSUME SlotInv, NEW j \in Job, OnJobDone(j)
  PROVE  SlotInv'
<1>1. task[j] = "ended" /\ task' = [task EXCEPT ![j] = "gone"] /\ slots' = slots + 1
        /\ main' = main /\ queue' = queue
  BY DEF OnJobDone
<1>2. j \in InFlight /\ InFlight' = InFlight \ {j}
  BY <1>1 DEF SlotInv, SlotTypes, InFlight
<1>3. Cardinality(InFlight') = Cardinality(InFlight) - 1
  BY <1>2, InFlightFinite, FS_RemoveElement
<1>4. SlotTypes'
  BY <1>1 DEF SlotInv, SlotTypes
<1>5. slots' + Cardinality(InFlight') + Polling' = slots + Cardinality(InFlight) + Polling
  BY <1>1, <1>3, InFlightFinite DEF SlotInv, SlotTypes, Polling
<1> QED BY <1>4, <1>5 DEF SlotInv, SlotsConserved, Polling

\* Steps that leave the slots, the tasks and the poll alone.
LEMMA IdleKeeps ==
  ASSUME SlotInv, slots' = slots, task' = task, queue' \subseteq queue,
         main' = main \/ (main # "dequeue" /\ main' # "dequeue")
  PROVE  SlotInv'
<1>1. SlotTypes' /\ InFlight' = InFlight
  BY DEF SlotInv, SlotTypes, InFlight
<1>2. slots' \in Nat /\ slots' + Polling' = slots + Polling
  BY DEF SlotInv, SlotTypes, Polling
<1> QED BY <1>1, <1>2, SlotsKept DEF SlotInv

\* Steps of run() that take a slot, give it back or hand it to the next poll.
LEMMA LoopKeeps ==
  ASSUME SlotInv, task' = task, queue' \subseteq queue, slots' \in Nat,
         slots' + Polling' = slots + Polling
  PROVE  SlotInv'
<1>1. SlotTypes' /\ InFlight' = InFlight
  BY DEF SlotInv, SlotTypes, InFlight
<1> QED BY <1>1, SlotsKept DEF SlotInv

\* Every step preserves the invariant.
LEMMA SlotStep == SlotInv /\ [Next]_vars => SlotInv'
<1> SUFFICES ASSUME SlotInv, [Next]_vars PROVE SlotInv'
  OBVIOUS
<1>n. slots \in Nat
  BY DEF SlotInv, SlotTypes
<1>1. CASE Connect \/ Register \/ StartFails \/ Background \/ DrainJobs \/ DrainCrons
             \/ Deregister \/ Disconnect \/ DeregisterFails \/ CancelGather \/ CancelLeave
  BY <1>1, IdleKeeps DEF Connect, Register, StartFails, Background, DrainJobs, DrainCrons,
     Deregister, Disconnect, DeregisterFails, CancelGather, CancelLeave, Leave
<1>2. CASE Start \/ GoOn
  <2>1. main # "dequeue" /\ task' = task /\ queue' = queue /\ Again(slots)
    BY <1>2 DEF Start, GoOn
  <2>2. slots' \in Nat /\ slots' + Polling' = slots + Polling
    BY <2>1, <1>n, AgainCount DEF Polling
  <2> QED BY <2>1, <2>2, LoopKeeps
<1>3. CASE Acquire
  BY <1>3, <1>n, LoopKeeps DEF Acquire, Polling
<1>4. ASSUME NEW j \in Job, DequeueJob(j) PROVE SlotInv'
  BY <1>4, DequeueKeeps
<1>5. CASE DequeueNothing
  BY <1>5, <1>n, LoopKeeps DEF DequeueNothing, Polling
<1>6. CASE DequeueFails
  <2>1. queue' \subseteq queue
    BY <1>6 DEF DequeueFails, ClaimUnheard
  <2> QED BY <1>6, <1>n, <2>1, LoopKeeps DEF DequeueFails, Polling
<1>7. CASE CancelLoop
  <2>1. queue' \subseteq queue
    BY <1>7 DEF CancelLoop, ClaimUnheard
  <2> QED BY <1>7, <1>n, <2>1, LoopKeeps DEF CancelLoop, Polling
<1>8. ASSUME NEW j \in Job, JobEnds(j) PROVE SlotInv'
  <2>1. SlotTypes' /\ InFlight' = InFlight
    BY <1>8 DEF JobEnds, SlotInv, SlotTypes, InFlight
  <2>2. slots' \in Nat /\ slots' + Polling' = slots + Polling
    BY <1>8, <1>n DEF JobEnds, Polling
  <2> QED BY <2>1, <2>2, SlotsKept DEF SlotInv
<1>9. ASSUME NEW j \in Job, OnJobDone(j) PROVE SlotInv'
  BY <1>9, DoneKeeps
<1>10. ASSUME NEW j \in Job, Arrive(j) PROVE SlotInv'
  <2>1. SlotTypes' /\ InFlight' = InFlight
    BY <1>10 DEF Arrive, SlotInv, SlotTypes, InFlight
  <2>2. slots' \in Nat /\ slots' + Polling' = slots + Polling
    BY <1>10, <1>n DEF Arrive, Polling
  <2> QED BY <2>1, <2>2, SlotsKept DEF SlotInv
<1>11. CASE BeatRead \/ BeatWrite \/ BeatFails \/ BeatEnds \/ TickLock \/ TickSkips
             \/ TickEnds \/ RequestStop \/ UNCHANGED vars
  BY <1>11, IdleKeeps DEF BeatRead, BeatWrite, BeatFails, BeatEnds, TickLock, TickSkips,
     TickEnds, RequestStop, vars
<1>12. ASSUME NEW k \in CronTask, TickFires(k) \/ CronEnds(k) PROVE SlotInv'
  BY <1>12, IdleKeeps DEF TickFires, CronEnds
<1> QED
  BY <1>1, <1>2, <1>3, <1>4, <1>5, <1>6, <1>7, <1>8, <1>9, <1>10, <1>11, <1>12
  DEF Next, Run, Failure, Beat, Tick

\* No poll, error, cancellation or callback leaks a concurrency slot or
\* releases one twice (Worker._main_loop, _on_job_done).
THEOREM SlotsNeverLeak == Spec => []SlotsConserved
<1>1. SlotInv => SlotsConserved
  BY DEF SlotInv
<1> QED BY SlotInit, SlotStep, <1>1, PTL DEF Spec

\* So a worker never executes more jobs at once than its concurrency.
THEOREM ConcurrencyBound == Spec => [](Cardinality(InFlight) <= Concurrency)
<1>1. SlotInv => Cardinality(InFlight) <= Concurrency
  BY InFlightFinite DEF SlotInv, SlotTypes, SlotsConserved
<1> QED BY SlotInit, SlotStep, <1>1, PTL DEF Spec

-----------------------------------------------------------------------------
(* The drain.                                                               *)

Leaving == {"crons", "deregister", "disconnect", "returned"}

\* Only a drain that is itself cancelled cuts a job short, and then run()
\* raises; nothing is claimed once the main loop is left.
DrainInv ==
    /\ main \in Leaving => InFlight = {}
    /\ cut # {} => main = "raised" \/ (main = "drain" /\ abandoned)

\* Steps that leave run() where it is and bring no job into flight.
LEMMA StaysDrained ==
  ASSUME DrainInv, UNCHANGED <<main, cancel>>, InFlight' \subseteq InFlight
  PROVE  DrainInv'
BY DEF DrainInv, cancel

\* Every step preserves the invariant.
LEMMA DrainStep == DrainInv /\ [Next]_vars => DrainInv'
<1> SUFFICES ASSUME DrainInv, [Next]_vars PROVE DrainInv'
  OBVIOUS
<1>a. ASSUME NEW free, Again(free) PROVE main' \in {"background", "dequeue", "acquire"}
  BY <1>a DEF Again
<1>1. CASE Connect \/ Register \/ StartFails \/ Acquire \/ DequeueNothing \/ DequeueFails
             \/ CancelLoop
  BY <1>1 DEF Connect, Register, StartFails, Acquire, DequeueNothing, DequeueFails, CancelLoop,
     DrainInv, Leaving, Looping, cancel
<1>2. CASE Start \/ GoOn \/ \E j \in Job : DequeueJob(j)
  BY <1>2, <1>a DEF Start, GoOn, DequeueJob, DrainInv, Leaving, cancel
<1>3. CASE Background
  BY <1>3 DEF Background, Leave, DrainInv, Leaving, cancel
<1>4. CASE DrainJobs \/ DrainCrons
  <2>1. InFlight' = InFlight /\ InFlight = {}
    BY <1>4 DEF DrainJobs, DrainCrons, DrainInv, Leaving, InFlight
  <2> QED BY <1>4, <2>1 DEF DrainJobs, DrainCrons, Leave, DrainInv, Leaving, cancel
<1>5. CASE Deregister \/ DeregisterFails \/ Disconnect \/ CancelLeave
  <2>1. InFlight' = InFlight
    BY <1>5 DEF Deregister, DeregisterFails, Disconnect, CancelLeave, InFlight
  <2> QED
    BY <1>5, <2>1 DEF Deregister, DeregisterFails, Disconnect, CancelLeave, DrainInv, Leaving, cancel
<1>6. CASE CancelGather
  <2>1. InFlight' = InFlight
    BY <1>6 DEF CancelGather, InFlight
  <2> QED BY <1>6, <2>1 DEF CancelGather, DrainInv
<1>7. CASE BeatRead \/ BeatWrite \/ BeatFails \/ BeatEnds \/ TickLock \/ TickSkips
             \/ TickEnds \/ RequestStop \/ UNCHANGED vars
  <2>1. UNCHANGED <<main, cancel>> /\ InFlight' = InFlight
    BY <1>7 DEF BeatRead, BeatWrite, BeatFails, BeatEnds, TickLock, TickSkips, TickEnds,
       RequestStop, vars, InFlight
  <2> QED BY <2>1, StaysDrained
<1>8. ASSUME NEW k \in CronTask, TickFires(k) \/ CronEnds(k) PROVE DrainInv'
  <2>1. UNCHANGED <<main, cancel>> /\ InFlight' = InFlight
    BY <1>8 DEF TickFires, CronEnds, InFlight
  <2> QED BY <2>1, StaysDrained
<1>9. ASSUME NEW j \in Job, JobEnds(j) \/ OnJobDone(j) \/ Arrive(j) PROVE DrainInv'
  <2>1. UNCHANGED <<main, cancel>>
    BY <1>9 DEF JobEnds, OnJobDone, Arrive
  <2>2. \E v \in {"ended", "gone", "queued"} :
          /\ task' = [task EXCEPT ![j] = v]
          /\ v = "ended" => task[j] = "running"
    BY <1>9 DEF JobEnds, OnJobDone, Arrive
  <2>3. InFlight' \subseteq InFlight
    BY <2>2 DEF InFlight
  <2> QED BY <2>1, <2>3, StaysDrained
<1> QED
  BY <1>1, <1>2, <1>3, <1>4, <1>5, <1>6, <1>7, <1>8, <1>9 DEF Next, Run, Failure, Beat, Tick

\* A worker that deregisters has finished every job it claimed and cut none
\* short, whatever failed and whoever cancelled run() (Worker.run, _drain).
THEOREM Drains == Spec => []DrainedBeforeLeaving
<1>1. Init => DrainInv
  BY DEF Init, DrainInv, Leaving
<1>2. DrainInv => DrainedBeforeLeaving
  BY DEF DrainInv, DrainedBeforeLeaving, Leaving
<1> QED BY <1>1, DrainStep, <1>2, PTL DEF Spec

-----------------------------------------------------------------------------
(* The types.                                                               *)

\* The loop's condition leaves main in the main loop or ends it.
LEMMA AgainType ==
  ASSUME NEW free \in Nat, Again(free)
  PROVE  main' \in {"background", "dequeue", "acquire"} /\ slots' \in Nat
BY DEF Again

\* Every step preserves the types.
LEMMA TypeStep == TypeOK /\ [Next]_vars => TypeOK'
<1> SUFFICES ASSUME TypeOK, [Next]_vars PROVE TypeOK'
  OBVIOUS
<1> USE DEF TypeOK, Starting, Looping, Finally, Over, loops, broker, cancel
<1>1. CASE Connect \/ Register \/ StartFails
  <2>1. errors' \in Nat
    BY <1>1, ErrorsAssumption DEF Connect, Register, StartFails, Fails
  <2>2. connected' \in BOOLEAN
    BY <1>1 DEF Connect, Register, StartFails
  <2> QED BY <1>1, <2>1, <2>2 DEF Connect, Register, StartFails
<1>2. CASE Start \/ GoOn
  <2>1. main' \in {"background", "dequeue", "acquire"} /\ slots' \in Nat
    BY <1>2, AgainType DEF Start, GoOn
  <2>2. CASE Start
    BY <2>1, <2>2 DEF Start
  <2>3. CASE GoOn
    BY <2>1, <2>3 DEF GoOn
  <2> QED BY <1>2, <2>2, <2>3
<1>3. CASE Acquire \/ DequeueNothing
  BY <1>3 DEF Acquire, DequeueNothing
<1>4. ASSUME NEW j \in Job, DequeueJob(j) PROVE TypeOK'
  <2>1. main' \in {"background", "dequeue", "acquire"} /\ slots' \in Nat
    BY <1>4, AgainType DEF DequeueJob
  <2> QED BY <1>4, <2>1 DEF DequeueJob
<1>5. CASE DequeueFails \/ CancelLoop
  <2>1. queue' \subseteq Job
    BY <1>5 DEF DequeueFails, CancelLoop, ClaimUnheard
  <2>2. slots' \in Nat
    BY <1>5 DEF DequeueFails, CancelLoop
  <2> QED BY <1>5, <2>1, <2>2 DEF DequeueFails, CancelLoop, Fails
<1>6. CASE Background \/ DrainJobs \/ DrainCrons
  BY <1>6 DEF Background, DrainJobs, DrainCrons, Leave
<1>7. CASE Deregister \/ DeregisterFails \/ Disconnect \/ CancelLeave
  <2>1. errors' \in Nat
    <3>1. Fails \/ errors' = errors
      BY <1>7 DEF Deregister, DeregisterFails, Disconnect, CancelLeave
    <3> QED BY <3>1, ErrorsAssumption DEF Fails
  <2>2. registered' \in BOOLEAN /\ connected' \in BOOLEAN
    BY <1>7 DEF Deregister, DeregisterFails, Disconnect, CancelLeave
  <2> QED
    BY <1>7, <2>1, <2>2 DEF Deregister, DeregisterFails, Disconnect, CancelLeave
<1>8. CASE CancelGather
  BY <1>8 DEF CancelGather, Fails
<1>9. CASE BeatRead \/ BeatWrite \/ BeatFails \/ BeatEnds
  <2>1. errors' \in Nat
    BY <1>9, ErrorsAssumption DEF BeatRead, BeatWrite, BeatFails, BeatEnds, Fails
  <2>2. registered' \in BOOLEAN
    BY <1>9 DEF BeatRead, BeatWrite, BeatFails, BeatEnds
  <2>3. beat' \in {"none", "sleep", "write", "ended"}
    BY <1>9 DEF BeatRead, BeatWrite, BeatFails, BeatEnds
  <2> QED BY <1>9, <2>1, <2>2, <2>3 DEF BeatRead, BeatWrite, BeatFails, BeatEnds
<1>10. CASE TickLock \/ TickSkips \/ TickEnds \/ RequestStop \/ UNCHANGED vars
  BY <1>10 DEF TickLock, TickSkips, TickEnds, RequestStop, vars
<1>11. ASSUME NEW k \in CronTask, TickFires(k) \/ CronEnds(k) PROVE TypeOK'
  BY <1>11 DEF TickFires, CronEnds
<1>12. ASSUME NEW j \in Job, JobEnds(j) \/ OnJobDone(j) \/ Arrive(j) PROVE TypeOK'
  BY <1>12 DEF JobEnds, OnJobDone, Arrive
<1> QED
  BY <1>1, <1>2, <1>3, <1>4, <1>5, <1>6, <1>7, <1>8, <1>9, <1>10, <1>11, <1>12
  DEF Next, Run, Failure, Beat, Tick

\* The variables keep their types.
THEOREM TypeCorrect == Spec => []TypeOK
<1>1. ASSUME Init PROVE TypeOK
  <2>1. slots \in Nat /\ errors \in Nat
    BY <1>1, ConcurrencyAssumption DEF Init
  <2>2. /\ task \in [Job -> {"none", "queued", "running", "ended", "gone"}]
        /\ crons \in [CronTask -> {"none", "running", "gone"}]
    BY <1>1 DEF Init
  <2>3. main = "new" /\ beat = "none" /\ tick = "none" /\ queue = {} /\ cut = {}
    BY <1>1 DEF Init
  <2>4. stop \in BOOLEAN /\ abandoned \in BOOLEAN /\ registered \in BOOLEAN /\ connected \in BOOLEAN
    BY <1>1 DEF Init
  <2> QED BY <2>1, <2>2, <2>3, <2>4 DEF TypeOK, Starting
<1> QED BY <1>1, TypeStep, PTL DEF Spec

-----------------------------------------------------------------------------
(* The heartbeat.                                                           *)

Started == {"drain", "crons", "deregister", "disconnect", "returned"}

\* A heartbeat between its read and its write has read an entry that is still
\* there: the loop has ended before run() goes on to deregister.
BeatInv ==
    /\ main \in Starting => beat = "none"
    /\ main \in Started => beat = "ended"
    /\ beat = "write" => registered
    /\ registered \in BOOLEAN

\* Steps that leave the heartbeat and the entry where they are, and do not
\* pass the gather of the background tasks.
LEMMA BeatKept ==
  ASSUME BeatInv, UNCHANGED <<beat, registered>>,
         main' \in Starting => main \in Starting,
         main' \in Started => main \in Started
  PROVE  BeatInv' /\ (registered' /\ ~registered => main = "register")
BY DEF BeatInv

\* Every step preserves the invariant, and only run() brings the entry back.
LEMMA BeatStep ==
  BeatInv /\ [Next]_vars => BeatInv' /\ (registered' /\ ~registered => main = "register")
<1> DEFINE Goal == BeatInv' /\ (registered' /\ ~registered => main = "register")
<1> SUFFICES ASSUME BeatInv, [Next]_vars PROVE Goal
  OBVIOUS
<1> USE DEF Starting, Looping, Started, loops, broker
<1>a. ASSUME NEW free, Again(free) PROVE main' \in {"background", "dequeue", "acquire"}
  BY <1>a DEF Again
<1>1. CASE Connect \/ Register \/ Acquire \/ DequeueNothing \/ DequeueFails
             \/ CancelLoop \/ CancelGather \/ Disconnect
  <2>1. /\ UNCHANGED <<beat, registered>>
        /\ main' \in Starting => main \in Starting
        /\ main' \in Started => main \in Started
    BY <1>1 DEF Connect, Register, Acquire, DequeueNothing, DequeueFails, CancelLoop,
       CancelGather, Disconnect
  <2> QED BY <2>1, BeatKept
<1>2. CASE GoOn \/ \E j \in Job : DequeueJob(j)
  <2>1. UNCHANGED <<beat, registered>> /\ main' \in {"background", "dequeue", "acquire"}
    BY <1>2, <1>a DEF GoOn, DequeueJob
  <2> QED BY <2>1, BeatKept
<1>3. CASE Start
  <2>1. main = "register" /\ beat' = "sleep" /\ registered' = TRUE
          /\ main' \in {"background", "dequeue", "acquire"}
    BY <1>3, <1>a DEF Start
  <2> QED BY <2>1 DEF BeatInv
<1>4. CASE Background
  BY <1>4 DEF Background, Leave, BeatInv
<1>5. CASE DrainJobs \/ DrainCrons
  <2>1. /\ UNCHANGED <<beat, registered>>
        /\ main' \in Starting => main \in Starting
        /\ main' \in Started => main \in Started
    BY <1>5 DEF DrainJobs, DrainCrons, Leave
  <2> QED BY <2>1, BeatKept
<1>6. CASE Deregister
  BY <1>6 DEF Deregister, BeatInv
<1>7. CASE BeatRead
  BY <1>7 DEF BeatRead, Cancelled, Finally, Over, BeatInv
<1>8. CASE BeatWrite \/ BeatFails
  BY <1>8 DEF BeatWrite, BeatFails, Cancelled, Finally, Over, BeatInv
<1>9. CASE BeatEnds
  BY <1>9 DEF BeatEnds, Cancelled, Finally, Over, BeatInv
<1>10. CASE TickLock \/ TickSkips \/ TickEnds \/ RequestStop \/ UNCHANGED vars
              \/ (\E k \in CronTask : TickFires(k) \/ CronEnds(k))
              \/ (\E j \in Job : JobEnds(j) \/ OnJobDone(j) \/ Arrive(j))
  <2>1. UNCHANGED <<main, beat, registered>>
    BY <1>10 DEF TickLock, TickSkips, TickEnds, RequestStop, vars, TickFires, CronEnds,
       JobEnds, OnJobDone, Arrive
  <2> QED BY <2>1, BeatKept
<1>11. CASE StartFails
  BY <1>11 DEF StartFails, BeatInv
<1>12. CASE DeregisterFails \/ CancelLeave
  <2>1. /\ main \in {"deregister", "disconnect"} /\ beat' = beat
        /\ main' \in {"disconnect", "raised"}
    BY <1>12 DEF DeregisterFails, CancelLeave
  <2>2. registered \in BOOLEAN /\ registered' \in {registered, FALSE}
    BY <1>12 DEF DeregisterFails, CancelLeave, BeatInv
  <2>3. beat = "ended" /\ beat' = "ended"
    BY <2>1 DEF BeatInv
  <2>4. main' \notin Starting
    BY <2>1
  <2>5. registered' => registered
    BY <2>2
  <2> QED BY <2>2, <2>3, <2>4, <2>5 DEF BeatInv
<1> QED
  BY <1>1, <1>2, <1>3, <1>4, <1>5, <1>6, <1>7, <1>8, <1>9, <1>10, <1>11, <1>12
  DEF Next, Run, Failure, Beat, Tick

\* No heartbeat writes the entry of a worker again once it has deregistered,
\* wherever run() is cancelled (Worker.run cancels and awaits the heartbeat
\* before it drains).
THEOREM StaysGone == Spec => NeverResurrected
<1>1. Init => BeatInv
  BY DEF Init, BeatInv, Starting, Started
<1>2. BeatInv /\ [Next]_vars => [registered' /\ ~registered => main = "register"]_vars
  BY BeatStep
<1> QED BY <1>1, <1>2, BeatStep, PTL DEF Spec, NeverResurrected
===============================================================================
