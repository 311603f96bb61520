-------------------------- MODULE JobExecutionProofs --------------------------
(***************************************************************************)
(* What a worker tells of the jobs it executes is true, for any jobs,       *)
(* slots, retry policies and faults.                                        *)
(*                                                                          *)
(* What a slot and a stored job hold follows from what the slot is doing    *)
(* (Local), and one slot at a time is at a job, which then counts the       *)
(* attempts as the broker does (Owned).  Hence a stored end stays           *)
(* (ClosedStays), and the slot that stored it is the only one to tell it    *)
(* (Truth).  The counters and the calls of the hooks are kept by counting   *)
(* the slots that are measured and that tell a retry: a step moves one      *)
(* slot, and changes both sides alike (MetricsInv, HookCounts).             *)
(***************************************************************************)
EXTENDS JobExecution, FiniteSetTheorems, TLAPS

-----------------------------------------------------------------------------
(* The retry delay.                                                         *)

\* A power of two counts the subsets of an interval.
LEMMA PowerNat == ASSUME NEW n \in Nat PROVE 2^n \in Nat
<1>1. IsFiniteSet(1..n) /\ Cardinality(1..n) = n
  BY FS_Interval
<1>2. IsFiniteSet(SUBSET (1..n)) /\ Cardinality(SUBSET (1..n)) = 2^Cardinality(1..n)
  BY <1>1, FS_SUBSET
<1> QED BY <1>1, <1>2, FS_CardinalityType

\* The cap bounds a delay that grows, and with it what the jitter makes of it.
LEMMA DelayBounded ==
  ASSUME NEW base \in Nat, NEW cap \in Nat, NEW attempt \in Nat, NEW backoff \in BOOLEAN,
         NEW delay \in RetryDelays(base, attempt, backoff, cap)
  PROVE  delay \in 0 .. (IF backoff THEN cap ELSE base)
<1>1. PICK n \in Nat : n = Exponent(attempt)
  BY DEF Exponent
<1>2. PICK x \in Nat : x = 2^n
  BY PowerNat
<1>3. PICK y \in Nat : y = base * x
  OBVIOUS
<1>4. FullDelay(base, attempt, backoff, cap) =
         IF base <= 0 THEN 0 ELSE IF backoff THEN Smaller(y, cap) ELSE base
  BY <1>1, <1>2, <1>3 DEF FullDelay
<1>5. Smaller(y, cap) \in 0..cap
  BY DEF Smaller
<1> QED BY <1>4, <1>5 DEF RetryDelays

-----------------------------------------------------------------------------
(* What a slot and a stored job hold.                                       *)

Row == [status : JobStatus, retries : Nat, delay : Nat, queued : BOOLEAN]

Shape ==
    /\ stored \in [Job -> Row]
    /\ slot \in [Slot -> SlotState]
    /\ told \in [Job -> [Event -> Nat]]
    /\ started \in Nat /\ retried \in Nat /\ aborted \in Nat
    /\ finished \in [JobStatus -> Nat]

FinalStatus == {"completed", "failed", "dead"}

\* What a slot holds, by what it is doing.
Sound(x) ==
    /\ x.pc = "idle" => x = Idle
    /\ x.pc # "idle" => /\ x.job \in Job
                        /\ x.retries <= MaxRetries[x.job] /\ x.delay <= Longest(x.job)
    /\ x.pc \in {"claimed", "start", "on_start", "invoke"} => x.delay = 0
    /\ x.pc \in {"start", "on_start", "invoke"} => x.status = "running" /\ x.job \notin Unknown
    /\ x.pc \in {"store", "tell"} =>
          /\ x.status \in FinalStatus \cup {"retrying", "waiting"}
          /\ x.status \in FinalStatus => x.delay = 0
          /\ x.job \in Unknown => x.status = "failed"
          /\ x.status = "failed" => x.job \in Unknown \/ x.job \notin DeadLettered
          /\ x.status = "dead" => x.job \in DeadLettered

\* What the broker holds: only a job that waits for its next attempt has a
\* delay, and none that runs, waits for a dependency or is finished is queued.
SoundRow(j, row) ==
    /\ row.retries <= MaxRetries[j] /\ row.delay <= Longest(j)
    /\ row.delay > 0 => row.status \in {"retrying", "waiting", "cancelled"}
    /\ row.queued => row.status \in {"pending", "retrying", "cancelled"}

Local ==
    /\ Shape
    /\ \A s \in Slot : Sound(slot[s])
    /\ \A j \in Job : SoundRow(j, stored[j])

LEMMA LongestType == ASSUME NEW j \in Job PROVE Longest(j) \in Nat /\ MaxRetries[j] \in Nat
BY NumbersAssumption DEF Longest

\* A step that replaces what one slot holds by something sound.
LEMMA BecomeSound ==
  ASSUME Local, NEW s \in Slot, NEW x \in SlotState, Sound(x), Become(s, x)
  PROVE  /\ slot' \in [Slot -> SlotState] /\ slot'[s] = x
         /\ \A t \in Slot : Sound(slot'[t])
         /\ \A t \in Slot \ {s} : slot'[t] = slot[t]
BY DEF Become, Local, Shape

LEMMA IdleSound == Idle \in SlotState /\ Sound(Idle)
BY DEF Idle, SlotState, Sound, JobStatus

\* A step that replaces the stored job.
LEMMA StoreSound ==
  ASSUME Local, NEW j \in Job, NEW row \in Row, SoundRow(j, row),
         stored' = [stored EXCEPT ![j] = row]
  PROVE  /\ stored' \in [Job -> Row] /\ stored'[j] = row
         /\ \A k \in Job : SoundRow(k, stored'[k])
         /\ \A k \in Job \ {j} : stored'[k] = stored[k]
BY DEF Local, Shape

\* What update_job and enqueue store of a job at hand.
RowOf(x) == [status |-> x.status, retries |-> x.retries, delay |-> x.delay,
             queued |-> x.status = "retrying"]

LEMMA WriteSound ==
  ASSUME Local, NEW s \in Slot, slot[s].pc \in {"start", "store"}, Write(slot[s].job, slot[s])
  PROVE  /\ slot[s].job \in Job
         /\ stored' = [stored EXCEPT ![slot[s].job] = RowOf(slot[s])]
         /\ RowOf(slot[s]) \in Row /\ SoundRow(slot[s].job, RowOf(slot[s]))
<1>1. PICK x \in SlotState : x = slot[s]
  BY DEF Local, Shape
<1>2. Sound(x) /\ x.pc \in {"start", "store"}
  BY <1>1 DEF Local
<1>3. x.job \in Job
  BY <1>2 DEF Sound
<1>4. RowOf(x) \in Row
  BY DEF RowOf, Row, SlotState
<1>5. SoundRow(x.job, RowOf(x))
  <2>1. PICK row : row = RowOf(x)
    OBVIOUS
  <2>2. row.status = x.status /\ row.retries = x.retries /\ row.delay = x.delay
          /\ (row.queued <=> x.status = "retrying")
    BY <2>1 DEF RowOf
  <2>3. x.retries <= MaxRetries[x.job] /\ x.delay <= Longest(x.job) /\ x.delay \in Nat
    BY <1>2 DEF Sound, SlotState
  <2>4. x.delay > 0 => x.status \in {"retrying", "waiting", "cancelled"}
    BY <1>2, <2>3 DEF Sound, FinalStatus
  <2> QED BY <2>1, <2>2, <2>3, <2>4 DEF SoundRow
<1>6. stored' = [stored EXCEPT ![x.job] = RowOf(x)]
  BY <1>1 DEF Write, RowOf
<1> QED BY <1>1, <1>3, <1>4, <1>5, <1>6

\* One more call of the hooks of an event.
LEMMA EmitType ==
  ASSUME Shape, NEW j \in Job, NEW event \in Event, Emit(j, event)
  PROVE  /\ told' \in [Job -> [Event -> Nat]]
         /\ told'[j][event] = told[j][event] + 1
         /\ \A e \in Event \ {event} : told'[j][e] = told[j][e]
         /\ \A k \in Job \ {j} : told'[k] = told[k]
<1>1. PICK f \in [Event -> Nat] : f = told[j]
  BY DEF Shape
<1>2. PICK g \in [Event -> Nat] : g = [f EXCEPT ![event] = f[event] + 1]
  <2>1. [f EXCEPT ![event] = f[event] + 1] \in [Event -> Nat]
    OBVIOUS
  <2> QED BY <2>1
<1>3. told' = [told EXCEPT ![j] = g]
  BY <1>1, <1>2 DEF Emit
<1>4. g[event] = f[event] + 1 /\ \A e \in Event \ {event} : g[e] = f[e]
  BY <1>2
<1> QED BY <1>1, <1>3, <1>4 DEF Shape

LEMMA FinishType ==
  ASSUME Shape, NEW s \in Slot, Finish(s)
  PROVE  finished' \in [JobStatus -> Nat]
<1>1. slot[s].status \in JobStatus
  BY DEF Shape, SlotState
<1> QED BY <1>1 DEF Finish, Shape

\* A step that only moves a slot on, to something sound.
LEMMA MoveLocal ==
  ASSUME Local, NEW s \in Slot, NEW x \in SlotState, Sound(x), Become(s, x),
         stored' = stored,
         told' \in [Job -> [Event -> Nat]], finished' \in [JobStatus -> Nat],
         started' \in Nat, retried' \in Nat, aborted' \in Nat
  PROVE  Local'
<1>1. slot' \in [Slot -> SlotState] /\ \A t \in Slot : Sound(slot'[t])
  BY BecomeSound
<1>2. \A j \in Job : SoundRow(j, stored'[j])
  BY DEF Local
<1> QED BY <1>1, <1>2 DEF Local, Shape

\* A step that stores a sound job and moves a slot on.
LEMMA StoreLocal ==
  ASSUME Local, NEW s \in Slot, NEW x \in SlotState, Sound(x), Become(s, x),
         NEW j \in Job, NEW row \in Row, SoundRow(j, row), stored' = [stored EXCEPT ![j] = row],
         told' \in [Job -> [Event -> Nat]], finished' \in [JobStatus -> Nat],
         started' \in Nat, retried' \in Nat, aborted' \in Nat
  PROVE  Local'
<1>1. slot' \in [Slot -> SlotState] /\ \A t \in Slot : Sound(slot'[t])
  BY BecomeSound
<1>2. stored' \in [Job -> Row] /\ \A k \in Job : SoundRow(k, stored'[k])
  BY StoreSound
<1> QED BY <1>1, <1>2 DEF Local, Shape

\* What a claim makes of the stored job and of the slot.
LEMMA ClaimIs ==
  ASSUME Local, NEW s \in Slot, NEW j \in Job, Claim(s, j)
  PROVE  \E x \in SlotState, row \in Row :
            /\ Sound(x) /\ Become(s, x) /\ x.pc = "claimed" /\ x.job = j
            /\ x.retries = stored[j].retries
            /\ SoundRow(j, row) /\ stored' = [stored EXCEPT ![j] = row]
            /\ row.status = stored[j].status /\ row.retries = stored[j].retries
            /\ row.delay = 0 /\ ~row.queued
<1>1. PICK old \in Row : old = stored[j]
  BY DEF Local, Shape
<1>2. SoundRow(j, old) /\ old.delay = 0
  BY <1>1 DEF Local, Claim
<1>3. PICK x : x = [Idle EXCEPT !.pc = "claimed", !.job = j, !.status = old.status,
                                !.retries = old.retries]
  OBVIOUS
<1>4. x \in SlotState
  BY <1>3 DEF Idle, SlotState, Row
<1>11. x.pc = "claimed" /\ x.job = j /\ x.retries = old.retries /\ x.delay = 0
  BY <1>3 DEF Idle
<1>5. Sound(x)
  <2>1. 0 <= Longest(j) /\ old.retries <= MaxRetries[j]
    BY <1>2, LongestType DEF SoundRow
  <2> QED BY <1>11, <2>1 DEF Sound
<1>6. Become(s, x)
  BY <1>1, <1>3 DEF Claim
<1>7. PICK row : row = [old EXCEPT !.queued = FALSE]
  OBVIOUS
<1>8. row \in Row /\ row.status = old.status /\ row.retries = old.retries /\ row.delay = 0
        /\ ~row.queued
  BY <1>2, <1>7 DEF Row
<1>9. stored' = [stored EXCEPT ![j] = row]
  BY <1>1, <1>7 DEF Claim
<1>10. SoundRow(j, row)
  BY <1>2, <1>8, LongestType DEF SoundRow
<1> QED BY <1>1, <1>4, <1>5, <1>6, <1>8, <1>9, <1>10, <1>11

LEMMA ClaimLocal ==
  ASSUME Local, NEW s \in Slot, NEW j \in Job, Claim(s, j)
  PROVE  Local'
<1>1. UNCHANGED <<told, metrics, aborted>>
  BY DEF Claim
<1>2. Shape
  BY DEF Local
<1>3. /\ told' \in [Job -> [Event -> Nat]] /\ finished' \in [JobStatus -> Nat]
      /\ started' \in Nat /\ retried' \in Nat /\ aborted' \in Nat
  BY <1>1, <1>2 DEF Shape, metrics
<1> QED BY <1>3, ClaimIs, StoreLocal

\* Whether the attempt at hand is to be followed by another.
Again(x) == x.pc \in {"store", "tell"} /\ Retries(x.status)

\* The attempt goes on and the broker is not called: from old to x.
Advances(old, x) ==
    /\ Sound(x) /\ x.job = old.job
    /\ old.pc \in {"claimed", "on_start", "invoke"}
    /\ x.pc \in {"start", "invoke", "store"}
    /\ x.retries = IF Again(x) THEN old.retries + 1 ELSE old.retries

LEMMA RejectIs ==
  ASSUME Local, NEW s \in Slot, RejectUnknown(s)
  PROVE  \E x \in SlotState : Become(s, x) /\ Advances(slot[s], x) /\ x.pc = "store"
<1>1. PICK old \in SlotState : old = slot[s]
  BY DEF Local, Shape
<1>2. Sound(old) /\ old.pc = "claimed" /\ old.job \in Unknown
  BY <1>1 DEF Local, RejectUnknown
<1>3. PICK x \in SlotState :
         /\ x = [old EXCEPT !.pc = "store", !.status = "failed"]
         /\ x.pc = "store" /\ x.job = old.job /\ x.status = "failed"
         /\ x.retries = old.retries /\ x.delay = old.delay
  <2>1. PICK x : x = [old EXCEPT !.pc = "store", !.status = "failed"]
    OBVIOUS
  <2>2. x \in SlotState
    BY <2>1 DEF SlotState, JobStatus, FinalStatus
  <2>3. /\ x.pc = "store" /\ x.job = old.job /\ x.status = "failed"
        /\ x.retries = old.retries /\ x.delay = old.delay
    BY <2>1 DEF SlotState
  <2> QED BY <2>1, <2>2, <2>3
<1>4. Sound(x)
  BY <1>2, <1>3 DEF Sound, FinalStatus
<1>5. Advances(old, x)
  BY <1>2, <1>3, <1>4 DEF Advances, Again, Retries
<1> QED BY <1>1, <1>3, <1>5 DEF RejectUnknown

LEMMA CheckIs ==
  ASSUME Local, NEW s \in Slot, CheckCancelled(s)
  PROVE  \/ Become(s, Idle)
         \/ \E x \in SlotState : Become(s, x) /\ Advances(slot[s], x) /\ x.pc = "start"
<1>1. PICK old \in SlotState : old = slot[s]
  BY DEF Local, Shape
<1>2. Sound(old) /\ old.pc = "claimed" /\ old.job \notin Unknown
  BY <1>1 DEF Local, CheckCancelled
<1>3. PICK x \in SlotState :
         /\ x = [old EXCEPT !.pc = "start", !.status = "running"]
         /\ x.pc = "start" /\ x.job = old.job /\ x.status = "running"
         /\ x.retries = old.retries /\ x.delay = old.delay
  <2>1. PICK x : x = [old EXCEPT !.pc = "start", !.status = "running"]
    OBVIOUS
  <2>2. x \in SlotState
    BY <2>1 DEF SlotState, JobStatus, FinalStatus
  <2>3. /\ x.pc = "start" /\ x.job = old.job /\ x.status = "running"
        /\ x.retries = old.retries /\ x.delay = old.delay
    BY <2>1 DEF SlotState
  <2> QED BY <2>1, <2>2, <2>3
<1>4. Sound(x)
  BY <1>2, <1>3 DEF Sound
<1>5. Advances(old, x)
  BY <1>2, <1>3, <1>4 DEF Advances, Again
<1>6. Become(s, IF stored[old.job].status = "cancelled" THEN Idle ELSE x)
  BY <1>1, <1>3 DEF CheckCancelled
<1> QED BY <1>1, <1>3, <1>5, <1>6

\* A slot goes on with the same status.
LEMMA GoesOn ==
  ASSUME NEW old \in SlotState, NEW pc, pc \in {"start", "on_start", "invoke", "store", "tell"}
  PROVE  \E x \in SlotState :
            /\ x = [old EXCEPT !.pc = pc]
            /\ x.pc = pc /\ x.job = old.job /\ x.status = old.status
            /\ x.retries = old.retries /\ x.delay = old.delay
<1>1. PICK x : x = [old EXCEPT !.pc = pc]
  OBVIOUS
<1>2. x \in SlotState
  BY <1>1 DEF SlotState
<1>3. /\ x.pc = pc /\ x.job = old.job /\ x.status = old.status
      /\ x.retries = old.retries /\ x.delay = old.delay
  BY <1>1 DEF SlotState
<1> QED BY <1>1, <1>2, <1>3

LEMMA TellStartIs ==
  ASSUME Local, NEW s \in Slot, TellStart(s)
  PROVE  \E x \in SlotState : Become(s, x) /\ Advances(slot[s], x) /\ x.pc = "invoke"
<1>1. PICK old \in SlotState : old = slot[s]
  BY DEF Local, Shape
<1>2. Sound(old) /\ old.pc = "on_start"
  BY <1>1 DEF Local, TellStart
<1>3. PICK x \in SlotState :
         /\ x = [old EXCEPT !.pc = "invoke"]
         /\ x.pc = "invoke" /\ x.job = old.job /\ x.status = old.status
         /\ x.retries = old.retries /\ x.delay = old.delay
  BY GoesOn
<1>4. Sound(x)
  BY <1>2, <1>3 DEF Sound
<1>5. Advances(old, x)
  BY <1>2, <1>3, <1>4 DEF Advances, Again
<1> QED BY <1>1, <1>3, <1>5 DEF TellStart

\* The attempt ends with a status for good.
LEMMA EndIs ==
  ASSUME Local, NEW s \in Slot, Succeed(s) \/ GiveUp(s)
  PROVE  \E x \in SlotState : Become(s, x) /\ Advances(slot[s], x) /\ x.pc = "store"
<1>1. PICK old \in SlotState : old = slot[s]
  BY DEF Local, Shape
<1>2. Sound(old) /\ old.pc = "invoke"
  BY <1>1 DEF Local, Succeed, GiveUp
<1>3. \E status \in FinalStatus :
         /\ Become(s, [old EXCEPT !.pc = "store", !.status = status])
         /\ status = "failed" => old.job \notin DeadLettered
         /\ status = "dead" => old.job \in DeadLettered
  BY <1>1 DEF Succeed, GiveUp, FinalStatus
<1>4. PICK status \in FinalStatus :
         /\ Become(s, [old EXCEPT !.pc = "store", !.status = status])
         /\ status = "failed" => old.job \notin DeadLettered
         /\ status = "dead" => old.job \in DeadLettered
  BY <1>3
<1>5. PICK x \in SlotState :
         /\ x = [old EXCEPT !.pc = "store", !.status = status]
         /\ x.pc = "store" /\ x.job = old.job /\ x.status = status
         /\ x.retries = old.retries /\ x.delay = old.delay
  <2>1. PICK x : x = [old EXCEPT !.pc = "store", !.status = status]
    OBVIOUS
  <2>2. x \in SlotState
    BY <2>1 DEF SlotState, JobStatus, FinalStatus
  <2>3. /\ x.pc = "store" /\ x.job = old.job /\ x.status = status
        /\ x.retries = old.retries /\ x.delay = old.delay
    BY <2>1 DEF SlotState
  <2> QED BY <2>1, <2>2, <2>3
<1>6. Sound(x)
  BY <1>2, <1>4, <1>5 DEF Sound
<1>7. Advances(old, x)
  BY <1>2, <1>5, <1>6 DEF Advances, Again, Retries, FinalStatus
<1> QED BY <1>1, <1>4, <1>5, <1>7

\* The attempt is to be followed by another.
LEMMA RetryIs ==
  ASSUME Local, NEW s \in Slot, ScheduleRetry(s)
  PROVE  \E x \in SlotState : Become(s, x) /\ Advances(slot[s], x) /\ x.pc = "store"
<1>1. PICK old \in SlotState : old = slot[s]
  BY DEF Local, Shape
<1>2. Sound(old) /\ old.pc = "invoke" /\ old.retries < MaxRetries[old.job] /\ old.job \in Job
  BY <1>1 DEF Local, ScheduleRetry, CanRetry, Sound
<1>3. PICK attempt \in Nat : attempt = old.retries + 1
  BY DEF SlotState
<1>4. \E delay \in RetryDelays(RetryDelay[old.job], attempt, old.job \in Backoff,
                               BackoffMax[old.job]) :
         \E status \in {"retrying", "waiting"} :
            Become(s, [old EXCEPT !.pc = "store", !.status = status, !.retries = attempt,
                                  !.delay = delay])
  BY <1>1, <1>3 DEF ScheduleRetry
<1>5. PICK delay \in RetryDelays(RetryDelay[old.job], attempt, old.job \in Backoff,
                                 BackoffMax[old.job]),
           status \in {"retrying", "waiting"} :
         Become(s, [old EXCEPT !.pc = "store", !.status = status, !.retries = attempt,
                               !.delay = delay])
  BY <1>4
<1>6. delay \in Nat /\ delay <= Longest(old.job)
  <2>1. PICK base \in Nat, cap \in Nat, backoff \in BOOLEAN :
           /\ base = RetryDelay[old.job] /\ cap = BackoffMax[old.job]
           /\ backoff = (old.job \in Backoff)
    <3>1. RetryDelay[old.job] \in Nat /\ BackoffMax[old.job] \in Nat
      BY <1>2, NumbersAssumption
    <3>2. (old.job \in Backoff) \in BOOLEAN
      OBVIOUS
    <3> QED BY <3>1, <3>2
  <2>2. delay \in RetryDelays(base, attempt, backoff, cap)
    BY <2>1
  <2>3. delay \in 0 .. (IF backoff THEN cap ELSE base)
    BY <2>2, DelayBounded
  <2>4. Longest(old.job) = IF backoff THEN cap ELSE base
    BY <2>1 DEF Longest
  <2> QED BY <2>3, <2>4
<1>7. PICK x : x = [old EXCEPT !.pc = "store", !.status = status, !.retries = attempt,
                               !.delay = delay]
  OBVIOUS
<1>8. x \in SlotState
  BY <1>6, <1>7 DEF SlotState, JobStatus
<1>9. x.pc = "store" /\ x.job = old.job /\ x.status = status /\ x.retries = attempt
        /\ x.delay = delay
  BY <1>7 DEF SlotState
<1>10. Sound(x)
  <2>1. attempt <= MaxRetries[old.job]
    BY <1>2, <1>3, LongestType DEF SlotState
  <2> QED BY <1>2, <1>6, <1>9, <2>1 DEF Sound, FinalStatus
<1>11. Advances(old, x)
  BY <1>2, <1>3, <1>9, <1>10 DEF Advances, Again, Retries
<1>12. Become(s, x)
  BY <1>5, <1>7
<1> QED BY <1>1, <1>8, <1>9, <1>11, <1>12

\* The job is stored as running, or the outcome of the attempt is.
LEMMA StoreIs ==
  ASSUME Local, NEW s \in Slot, StoreRunning(s) \/ StoreOutcome(s)
  PROVE  \E x \in SlotState :
            /\ Become(s, x) /\ Sound(x) /\ x.job = slot[s].job
            /\ x.retries = slot[s].retries /\ x.status = slot[s].status
            /\ \/ (slot[s].pc = "start" /\ x.pc = "on_start")
               \/ (slot[s].pc = "store" /\ x.pc = "tell")
<1>1. PICK old \in SlotState : old = slot[s]
  BY DEF Local, Shape
<1>2. Sound(old)
  BY <1>1 DEF Local
<1>3. CASE StoreRunning(s)
  <2>1. PICK x \in SlotState :
           /\ x = [old EXCEPT !.pc = "on_start"]
           /\ x.pc = "on_start" /\ x.job = old.job /\ x.status = old.status
           /\ x.retries = old.retries /\ x.delay = old.delay
    BY GoesOn
  <2>2. old.pc = "start"
    BY <1>1, <1>3 DEF StoreRunning
  <2>3. Sound(x)
    BY <1>2, <2>1, <2>2 DEF Sound
  <2>4. Become(s, x)
    BY <1>1, <1>3, <2>1 DEF StoreRunning
  <2> QED BY <1>1, <2>1, <2>2, <2>3, <2>4
<1>4. CASE StoreOutcome(s)
  <2>1. PICK x \in SlotState :
           /\ x = [old EXCEPT !.pc = "tell"]
           /\ x.pc = "tell" /\ x.job = old.job /\ x.status = old.status
           /\ x.retries = old.retries /\ x.delay = old.delay
    BY GoesOn
  <2>2. old.pc = "store"
    BY <1>1, <1>4 DEF StoreOutcome
  <2>3. Sound(x)
    BY <1>2, <2>1, <2>2 DEF Sound
  <2>4. Become(s, x)
    BY <1>1, <1>4, <2>1 DEF StoreOutcome
  <2> QED BY <1>1, <2>1, <2>2, <2>3, <2>4
<1> QED BY <1>3, <1>4

\* cancel_job and the passing of time, on the stored job.
LEMMA CancelIs ==
  ASSUME Local, NEW j \in Job, Cancel(j) \/ BecomesDue(j)
  PROVE  \E row \in Row :
            /\ stored' = [stored EXCEPT ![j] = row] /\ SoundRow(j, row)
            /\ row.retries = stored[j].retries
            /\ \/ /\ Cancel(j) /\ row.status = "cancelled" /\ row.queued = stored[j].queued
                  /\ row.delay = stored[j].delay
               \/ /\ BecomesDue(j) /\ row.status = stored[j].status
                  /\ row.queued = stored[j].queued /\ stored[j].delay > 0
               \/ BecomesDue(j) /\ row.status = "pending" /\ stored[j].status = "waiting"
<1>1. PICK old \in Row : old = stored[j]
  BY DEF Local, Shape
<1>2. SoundRow(j, old)
  BY <1>1 DEF Local
<1>3. CASE Cancel(j)
  <2>1. PICK row : row = [old EXCEPT !.status = "cancelled"]
    OBVIOUS
  <2>2. row \in Row /\ row.status = "cancelled" /\ row.queued = old.queued
          /\ row.retries = old.retries /\ row.delay = old.delay
    BY <2>1 DEF Row, JobStatus
  <2>3. stored' = [stored EXCEPT ![j] = row]
    BY <1>1, <1>3, <2>1 DEF Cancel
  <2>4. SoundRow(j, row)
    BY <1>2, <2>2 DEF SoundRow
  <2> QED BY <1>1, <1>3, <2>2, <2>3, <2>4
<1>4. CASE BecomesDue(j) /\ old.status = "waiting"
  <2>1. PICK row : row = [old EXCEPT !.status = "pending", !.delay = 0, !.queued = TRUE]
    OBVIOUS
  <2>2. row \in Row /\ row.status = "pending" /\ row.retries = old.retries /\ row.delay = 0
    BY <2>1 DEF Row, JobStatus
  <2>3. stored' = [stored EXCEPT ![j] = row]
    BY <1>1, <1>4, <2>1 DEF BecomesDue
  <2>4. SoundRow(j, row)
    BY <1>2, <2>2, LongestType DEF SoundRow
  <2> QED BY <1>1, <1>4, <2>2, <2>3, <2>4
<1>5. CASE BecomesDue(j) /\ old.status # "waiting"
  <2>1. PICK row : row = [old EXCEPT !.delay = 0]
    OBVIOUS
  <2>2. row \in Row /\ row.status = old.status /\ row.queued = old.queued
          /\ row.retries = old.retries /\ row.delay = 0
    BY <2>1 DEF Row
  <2>3. stored' = [stored EXCEPT ![j] = row] /\ old.delay > 0
    BY <1>1, <1>5, <2>1 DEF BecomesDue
  <2>4. SoundRow(j, row)
    BY <1>2, <2>2, LongestType DEF SoundRow
  <2> QED BY <1>1, <1>5, <2>2, <2>3, <2>4
<1> QED BY <1>3, <1>4, <1>5

\* The hooks and the counters that a step of _process changes keep their types.
LEMMA CountersType ==
  ASSUME Local, NEW s \in Slot, Process(s) \/ Fault(s)
  PROVE  /\ told' \in [Job -> [Event -> Nat]] /\ finished' \in [JobStatus -> Nat]
         /\ started' \in Nat /\ retried' \in Nat /\ aborted' \in Nat
<1> USE DEF metrics
<1>s. Shape
  BY DEF Local
<1>0. /\ told \in [Job -> [Event -> Nat]] /\ finished \in [JobStatus -> Nat]
      /\ started \in Nat /\ retried \in Nat /\ aborted \in Nat
  BY <1>s DEF Shape
<1>1. CASE RejectUnknown(s) \/ CheckCancelled(s) \/ StoreRunning(s) \/ Succeed(s)
             \/ ScheduleRetry(s) \/ GiveUp(s)
  BY <1>0, <1>1 DEF RejectUnknown, CheckCancelled, StoreRunning, Succeed, ScheduleRetry, GiveUp
<1>2. CASE TellStart(s)
  <2>1. slot[s].job \in Job
    BY <1>2 DEF Local, Sound, TellStart
  <2>2. Emit(slot[s].job, "on_start") /\ started' = started + 1
          /\ UNCHANGED <<finished, retried, aborted>>
    BY <1>2 DEF TellStart
  <2>3. told' \in [Job -> [Event -> Nat]]
    BY <1>s, <2>1, <2>2, EmitType DEF Event
  <2> QED BY <1>0, <2>2, <2>3
<1>3. CASE RetryOverflows(s)
  <2>1. finished' \in [JobStatus -> Nat]
    BY <1>0, <1>3 DEF RetryOverflows, JobStatus
  <2> QED BY <1>0, <1>3, <2>1 DEF RetryOverflows
<1>4. CASE StoreOutcome(s)
  BY <1>0, <1>4 DEF StoreOutcome
<1>5. CASE TellOutcome(s)
  <2>1. slot[s].job \in Job /\ OutcomeEvent(slot[s].status) \in Event
    BY <1>5 DEF Local, Sound, TellOutcome, OutcomeEvent, Event
  <2>2. /\ Emit(slot[s].job, OutcomeEvent(slot[s].status)) /\ Finish(s)
        /\ UNCHANGED <<started, retried, aborted>>
    BY <1>5 DEF TellOutcome
  <2>3. told' \in [Job -> [Event -> Nat]]
    BY <1>s, <2>1, <2>2, EmitType
  <2> QED BY <1>0, <1>s, <2>2, <2>3, FinishType
<1>6. CASE Fault(s)
  <2>1. Finish(s) /\ aborted' = aborted + 1 /\ UNCHANGED <<told, started, retried>>
    BY <1>6 DEF Fault, Abort
  <2> QED BY <1>0, <1>s, <2>1, FinishType
<1> QED BY <1>1, <1>2, <1>3, <1>4, <1>5, <1>6 DEF Process

\* A coroutine that leaves _process frees its slot; a write may go with it.
LEMMA LeaveLocal ==
  ASSUME Local, NEW s \in Slot, Process(s) \/ Fault(s), Become(s, Idle), stored' = stored
  PROVE  Local'
BY CountersType, IdleSound, MoveLocal

\* Every step of _process keeps what the slots and the broker hold sound.
LEMMA ProcessLocal == ASSUME Local, NEW s \in Slot, Process(s) PROVE Local'
<1>0. /\ told' \in [Job -> [Event -> Nat]] /\ finished' \in [JobStatus -> Nat]
      /\ started' \in Nat /\ retried' \in Nat /\ aborted' \in Nat
  BY CountersType
<1>1. CASE RejectUnknown(s) \/ TellStart(s) \/ Succeed(s) \/ ScheduleRetry(s) \/ GiveUp(s)
  <2>1. PICK x \in SlotState : Become(s, x) /\ Advances(slot[s], x)
    BY <1>1, RejectIs, TellStartIs, EndIs, RetryIs
  <2>2. stored' = stored
    BY <1>1 DEF RejectUnknown, TellStart, Succeed, ScheduleRetry, GiveUp
  <2> QED BY <1>0, <2>1, <2>2, MoveLocal DEF Advances
<1>2. CASE CheckCancelled(s)
  <2>1. stored' = stored
    BY <1>2 DEF CheckCancelled
  <2>2. ASSUME NEW x \in SlotState, Become(s, x), Advances(slot[s], x) PROVE Local'
    BY <1>0, <2>1, <2>2, MoveLocal DEF Advances
  <2> QED BY <1>2, <2>1, <2>2, CheckIs, LeaveLocal
<1>3. CASE StoreRunning(s) \/ StoreOutcome(s)
  <2>1. slot[s].pc \in {"start", "store"} /\ Write(slot[s].job, slot[s])
    BY <1>3 DEF StoreRunning, StoreOutcome
  <2>2. PICK x \in SlotState : Become(s, x) /\ Sound(x)
    BY <1>3, StoreIs
  <2> QED BY <1>0, <2>1, <2>2, WriteSound, StoreLocal
<1>4. CASE TellOutcome(s) \/ RetryOverflows(s)
  BY <1>4, LeaveLocal DEF TellOutcome, RetryOverflows
<1> QED BY <1>1, <1>2, <1>3, <1>4 DEF Process

LEMMA FaultIs ==
  ASSUME Local, NEW s \in Slot, Fault(s)
  PROVE  /\ Become(s, Idle)
         /\ \/ stored' = stored
            \/ slot[s].pc \in {"start", "store"} /\ Write(slot[s].job, slot[s])
BY DEF Fault, Abort

\* Every step does.
LEMMA LocalStep == Local /\ [Next]_vars => Local'
<1> SUFFICES ASSUME Local, [Next]_vars PROVE Local'
  OBVIOUS
<1>1. ASSUME NEW s \in Slot, NEW j \in Job, Claim(s, j) PROVE Local'
  BY <1>1, ClaimLocal
<1>2. ASSUME NEW s \in Slot, Process(s) PROVE Local'
  BY <1>2, ProcessLocal
<1>3. ASSUME NEW s \in Slot, Fault(s) PROVE Local'
  <2>1. CASE stored' = stored
    BY <1>3, <2>1, FaultIs, LeaveLocal
  <2>2. CASE slot[s].pc \in {"start", "store"} /\ Write(slot[s].job, slot[s])
    BY <1>3, <2>2, FaultIs, CountersType, IdleSound, WriteSound, StoreLocal
  <2> QED BY <1>3, <2>1, <2>2, FaultIs
<1>4. ASSUME NEW j \in Job, Cancel(j) \/ BecomesDue(j) PROVE Local'
  <2>1. PICK row \in Row : stored' = [stored EXCEPT ![j] = row] /\ SoundRow(j, row)
    BY <1>4, CancelIs
  <2>2. UNCHANGED <<slot, told, metrics, aborted>>
    BY <1>4 DEF Cancel, BecomesDue
  <2>3. stored' \in [Job -> Row] /\ \A k \in Job : SoundRow(k, stored'[k])
    BY <2>1, StoreSound
  <2> QED BY <2>2, <2>3 DEF Local, Shape, metrics
<1>5. CASE UNCHANGED vars
  BY <1>5 DEF vars, metrics, Local, Shape
<1> QED BY <1>1, <1>2, <1>3, <1>4, <1>5 DEF Next

LEMMA LocalInit == Init => Local
<1> SUFFICES ASSUME Init PROVE Local
  OBVIOUS
<1>1. PICK row \in Row :
         row = [status |-> "pending", retries |-> 0, delay |-> 0, queued |-> TRUE]
  <2>1. [status |-> "pending", retries |-> 0, delay |-> 0, queued |-> TRUE] \in Row
    BY DEF Row, JobStatus
  <2> QED BY <2>1
<1>2. stored = [j \in Job |-> row]
  BY <1>1 DEF Init
<1>3. \A j \in Job : SoundRow(j, row)
  BY <1>1, LongestType DEF SoundRow
<1>4. PICK x \in SlotState : x = Idle /\ Sound(x)
  BY IdleSound
<1>5. slot = [s \in Slot |-> x]
  BY <1>4 DEF Init
<1>6. told \in [Job -> [Event -> Nat]] /\ finished \in [JobStatus -> Nat]
  BY DEF Init
<1>7. started \in Nat /\ retried \in Nat /\ aborted \in Nat
  BY DEF Init
<1> QED BY <1>2, <1>3, <1>4, <1>5, <1>6, <1>7 DEF Local, Shape

\* The variables keep their types, and a retry never waits longer than its
\* policy allows (compute_retry_delay, Worker._schedule_retry).
THEOREM TypeCorrect == Spec => []TypeOK
<1>1. ASSUME Local PROVE TypeOK
  <2>1. ASSUME NEW j \in Job PROVE stored[j] \in Stored(j)
    <3>1. PICK row \in Row : row = stored[j]
      BY <1>1 DEF Local, Shape
    <3>2. SoundRow(j, row)
      BY <1>1, <3>1 DEF Local
    <3>3. row.retries \in 0 .. MaxRetries[j] /\ row.delay \in 0 .. Longest(j)
      BY <3>2, LongestType DEF SoundRow, Row
    <3>4. row \in Stored(j)
      BY <3>3 DEF Stored, Row
    <3> QED BY <3>1, <3>4
  <2> QED BY <1>1, <2>1 DEF Local, Shape, TypeOK
<1> QED BY LocalInit, LocalStep, <1>1, PTL DEF Spec

-----------------------------------------------------------------------------
(* One attempt of a job at a time.                                          *)

\* The slot has claimed the job and not stored the outcome yet.
Active(s, j) ==
    slot[s].job = j /\ slot[s].pc \in {"claimed", "start", "on_start", "invoke", "store"}

\* What the broker holds of a job while a slot is at it: nobody can claim it,
\* and it counts the attempts as the slot does.
Held(x, row) ==
    /\ ~row.queued /\ row.delay = 0 /\ row.status # "waiting"
    /\ x.retries = IF Again(x) THEN row.retries + 1 ELSE row.retries

Owned ==
    \A s \in Slot, j \in Job : Active(s, j) =>
        /\ Held(slot[s], stored[j])
        /\ \A t \in Slot : Active(t, j) => t = s

\* The slot goes from one part of the attempt to the next.
LEMMA AdvanceOwned ==
  ASSUME Local, Owned, NEW s \in Slot, NEW x \in SlotState, Become(s, x), Advances(slot[s], x),
         stored' = stored
  PROVE  Owned'
<1>1. slot'[s] = x /\ \A t \in Slot \ {s} : slot'[t] = slot[t]
  BY BecomeSound DEF Advances
<1>2. \A t \in Slot, j \in Job : Active(t, j)' <=> Active(t, j)
  BY <1>1 DEF Active, Advances
<1>3. ASSUME NEW j \in Job, Active(s, j) PROVE Held(x, stored[j])
  <2>1. Held(slot[s], stored[j])
    BY <1>3 DEF Owned
  <2>2. ~Again(slot[s])
    BY DEF Advances, Again
  <2> QED BY <2>1, <2>2 DEF Held, Advances
<1>4. ASSUME NEW t \in Slot, NEW j \in Job, Active(t, j)'
      PROVE  Held(slot[t], stored[j])' /\ \A r \in Slot : Active(r, j)' => r = t
  <2>1. Active(t, j)
    BY <1>2, <1>4
  <2>2. Held(slot'[t], stored[j])
    BY <1>1, <1>3, <2>1 DEF Owned
  <2>3. Held(slot[t], stored[j])'
    BY <2>2 DEF Held, Again
  <2> QED BY <1>2, <2>1, <2>3 DEF Owned
<1> QED BY <1>4 DEF Owned

\* The slot is done with the attempt; the broker holds the same of other jobs.
LEMMA DoneOwned ==
  ASSUME Local, Owned, NEW s \in Slot, NEW x \in SlotState, Sound(x), Become(s, x),
         x.pc \in {"idle", "tell"},
         \A j \in Job : ~Active(s, j) => stored'[j] = stored[j]
  PROVE  Owned'
<1>1. slot'[s] = x /\ \A t \in Slot \ {s} : slot'[t] = slot[t]
  BY BecomeSound
<1>2. \A t \in Slot, j \in Job : Active(t, j)' => t # s /\ Active(t, j)
  BY <1>1 DEF Active
<1>3. ASSUME NEW t \in Slot, NEW j \in Job, Active(t, j)'
      PROVE  Held(slot[t], stored[j])' /\ \A r \in Slot : Active(r, j)' => r = t
  <2>1. t # s /\ Active(t, j)
    BY <1>2, <1>3
  <2>2. ~Active(s, j)
    BY <2>1 DEF Owned
  <2>3. slot'[t] = slot[t] /\ stored'[j] = stored[j]
    BY <1>1, <2>1, <2>2
  <2>4. Held(slot[t], stored[j])'
    BY <2>1, <2>3 DEF Owned, Held, Again
  <2> QED BY <1>2, <2>1, <2>4 DEF Owned
<1> QED BY <1>3 DEF Owned

\* A job is claimed by nobody else.
LEMMA ClaimOwned ==
  ASSUME Local, Owned, NEW s \in Slot, NEW j \in Job, Claim(s, j)
  PROVE  Owned'
<1>1. PICK x \in SlotState, row \in Row :
         /\ Sound(x) /\ Become(s, x) /\ x.pc = "claimed" /\ x.job = j
         /\ x.retries = stored[j].retries
         /\ SoundRow(j, row) /\ stored' = [stored EXCEPT ![j] = row]
         /\ row.status = stored[j].status /\ row.retries = stored[j].retries
         /\ row.delay = 0 /\ ~row.queued
  BY ClaimIs
<1>2. slot[s].pc = "idle" /\ stored[j].queued
  BY DEF Claim
<1>3. slot'[s] = x /\ \A t \in Slot \ {s} : slot'[t] = slot[t]
  BY <1>1, BecomeSound
<1>4. stored'[j] = row /\ \A k \in Job \ {j} : stored'[k] = stored[k]
  BY <1>1, StoreSound
<1>5. \A t \in Slot : ~Active(t, j)
  BY <1>2 DEF Owned, Held
<1>6. \A t \in Slot, k \in Job : Active(t, k)' <=> (Active(t, k) \/ (t = s /\ k = j))
  BY <1>1, <1>2, <1>3 DEF Active
<1>7. Held(x, row)
  <2>1. row.status # "waiting"
    BY <1>1, <1>2 DEF Local, SoundRow
  <2> QED BY <1>1, <2>1 DEF Held, Again
<1>8. ASSUME NEW t \in Slot, NEW k \in Job, Active(t, k)'
      PROVE  Held(slot[t], stored[k])' /\ \A r \in Slot : Active(r, k)' => r = t
  <2>1. CASE t = s /\ k = j
    <3>1. Held(slot[t], stored[k])'
      BY <1>3, <1>4, <1>7, <2>1 DEF Held, Again
    <3> QED BY <1>5, <1>6, <2>1, <3>1
  <2>2. CASE ~(t = s /\ k = j)
    <3>1. Active(t, k) /\ k # j /\ t # s
      BY <1>2, <1>5, <1>6, <1>8, <2>2 DEF Active
    <3>2. Held(slot[t], stored[k])'
      BY <1>3, <1>4, <3>1 DEF Owned, Held, Again
    <3> QED BY <1>6, <3>1, <3>2 DEF Owned
  <2> QED BY <2>1, <2>2
<1> QED BY <1>8 DEF Owned

\* What a write leaves in the store.
LEMMA WriteIs ==
  ASSUME Local, NEW s \in Slot, slot[s].pc \in {"start", "store"}, Write(slot[s].job, slot[s])
  PROVE  /\ Active(s, slot[s].job) /\ slot[s].job \in Job
         /\ stored'[slot[s].job] = RowOf(slot[s])
         /\ \A j \in Job : ~Active(s, j) => stored'[j] = stored[j]
<1>1. slot[s].job \in Job /\ stored' = [stored EXCEPT ![slot[s].job] = RowOf(slot[s])]
        /\ RowOf(slot[s]) \in Row /\ SoundRow(slot[s].job, RowOf(slot[s]))
  BY WriteSound
<1>2. /\ stored'[slot[s].job] = RowOf(slot[s])
      /\ \A k \in Job \ {slot[s].job} : stored'[k] = stored[k]
  BY <1>1, StoreSound
<1> QED BY <1>1, <1>2 DEF Active

\* The fields of what is written.
LEMMA RowFields ==
  ASSUME NEW x
  PROVE  /\ RowOf(x).status = x.status /\ RowOf(x).retries = x.retries
         /\ RowOf(x).delay = x.delay /\ RowOf(x).queued = (x.status = "retrying")
BY DEF RowOf

\* The job is stored as running.
LEMMA RunningOwned ==
  ASSUME Local, Owned, NEW s \in Slot, StoreRunning(s)
  PROVE  Owned'
<1>1. PICK x \in SlotState :
         /\ Become(s, x) /\ Sound(x) /\ x.job = slot[s].job
         /\ x.retries = slot[s].retries /\ x.status = slot[s].status
         /\ x.pc = "on_start"
  BY StoreIs DEF StoreRunning
<1>2. slot[s].pc = "start" /\ Write(slot[s].job, slot[s])
  BY DEF StoreRunning
<1>3. PICK j \in Job : j = slot[s].job
  BY <1>2, WriteIs
<1>4. Active(s, j) /\ stored'[j] = RowOf(slot[s]) /\ \A k \in Job \ {j} : stored'[k] = stored[k]
  BY <1>2, <1>3, WriteIs DEF Active
<1>5. slot'[s] = x /\ \A t \in Slot \ {s} : slot'[t] = slot[t]
  BY <1>1, BecomeSound
<1>6. \A t \in Slot, k \in Job : Active(t, k)' <=> Active(t, k)
  BY <1>1, <1>2, <1>5 DEF Active
<1>7. Held(x, stored'[j])
  <2>1. PICK row : row = stored'[j]
    OBVIOUS
  <2>2. slot[s].status = "running" /\ slot[s].delay = 0
    BY <1>2 DEF Local, Sound
  <2>o. PICK object : object = slot[s]
    OBVIOUS
  <2>r. /\ RowOf(object).status = object.status /\ RowOf(object).retries = object.retries
        /\ RowOf(object).delay = object.delay
        /\ RowOf(object).queued = (object.status = "retrying")
    BY RowFields
  <2>e. row = RowOf(object)
    BY <1>4, <2>1, <2>o
  <2>3. row.status = "running" /\ row.delay = 0 /\ ~row.queued /\ row.retries = x.retries
    BY <1>1, <2>2, <2>o, <2>r, <2>e
  <2> QED BY <1>1, <2>1, <2>3 DEF Held, Again
<1>8. ASSUME NEW t \in Slot, NEW k \in Job, Active(t, k)'
      PROVE  Held(slot[t], stored[k])' /\ \A r \in Slot : Active(r, k)' => r = t
  <2>1. Active(t, k)
    BY <1>6, <1>8
  <2>2. CASE t = s
    <3>1. k = j
      BY <1>3, <2>1, <2>2 DEF Active
    <3> QED BY <1>5, <1>6, <1>7, <2>1, <2>2, <3>1 DEF Owned, Held, Again
  <2>3. CASE t # s
    <3>1. k # j
      BY <1>4, <2>1, <2>3 DEF Owned
    <3> QED BY <1>4, <1>5, <1>6, <2>1, <2>3, <3>1 DEF Owned, Held, Again
  <2> QED BY <2>2, <2>3
<1> QED BY <1>8 DEF Owned

\* A client, or time, changes what the broker holds of a job.
LEMMA CancelOwned ==
  ASSUME Local, Owned, NEW j \in Job, Cancel(j) \/ BecomesDue(j)
  PROVE  Owned'
<1>1. PICK row \in Row :
         /\ stored' = [stored EXCEPT ![j] = row] /\ SoundRow(j, row)
         /\ row.retries = stored[j].retries
         /\ \/ /\ Cancel(j) /\ row.status = "cancelled" /\ row.queued = stored[j].queued
               /\ row.delay = stored[j].delay
            \/ /\ BecomesDue(j) /\ row.status = stored[j].status
               /\ row.queued = stored[j].queued /\ stored[j].delay > 0
            \/ BecomesDue(j) /\ row.status = "pending" /\ stored[j].status = "waiting"
  BY CancelIs
<1>2. stored'[j] = row /\ \A k \in Job \ {j} : stored'[k] = stored[k]
  BY <1>1, StoreSound
<1>3. slot' = slot
  BY DEF Cancel, BecomesDue
<1>4. \A t \in Slot, k \in Job : Active(t, k)' <=> Active(t, k)
  BY <1>3 DEF Active
<1>5. ASSUME NEW t \in Slot, NEW k \in Job, Active(t, k)
      PROVE  Held(slot[t], stored'[k])
  <2>1. Held(slot[t], stored[k])
    BY <1>5 DEF Owned
  <2>2. CASE k = j
    <3>1. stored[j].delay = 0 /\ stored[j].status # "waiting"
      BY <2>1, <2>2 DEF Held
    <3>2. row.status = "cancelled" /\ row.queued = stored[j].queued /\ row.delay = stored[j].delay
      BY <1>1, <3>1
    <3>3. Held(slot[t], row)
      BY <1>1, <2>1, <2>2, <3>2 DEF Held
    <3> QED BY <1>2, <2>2, <3>3
  <2>3. CASE k # j
    BY <1>2, <2>1, <2>3
  <2> QED BY <2>2, <2>3
<1> QED BY <1>3, <1>4, <1>5 DEF Owned, Held, Again

\* Every step keeps a job with one attempt at a time.
LEMMA OwnedStep == Local /\ Owned /\ [Next]_vars => Owned'
<1> SUFFICES ASSUME Local, Owned, [Next]_vars PROVE Owned'
  OBVIOUS
<1>1. ASSUME NEW s \in Slot, NEW j \in Job, Claim(s, j) PROVE Owned'
  BY <1>1, ClaimOwned
<1>2. ASSUME NEW s \in Slot, Process(s) PROVE Owned'
  <2>1. CASE RejectUnknown(s) \/ TellStart(s) \/ Succeed(s) \/ ScheduleRetry(s) \/ GiveUp(s)
    <3>1. \E x \in SlotState : Become(s, x) /\ Advances(slot[s], x)
      BY <2>1, RejectIs, TellStartIs, EndIs, RetryIs
    <3>2. stored' = stored
      BY <2>1 DEF RejectUnknown, TellStart, Succeed, ScheduleRetry, GiveUp
    <3> QED BY <3>1, <3>2, AdvanceOwned
  <2>2. CASE CheckCancelled(s)
    <3>1. stored' = stored
      BY <2>2 DEF CheckCancelled
    <3>2. CASE Become(s, Idle)
      <4>1. Idle.pc = "idle"
        BY DEF Idle
      <4> QED BY <3>1, <3>2, <4>1, IdleSound, DoneOwned
    <3> QED BY <2>2, <3>1, <3>2, CheckIs, AdvanceOwned
  <2>3. CASE StoreRunning(s)
    BY <2>3, RunningOwned
  <2>4. CASE StoreOutcome(s)
    <3>1. slot[s].pc = "store" /\ Write(slot[s].job, slot[s])
      BY <2>4 DEF StoreOutcome
    <3>2. PICK x \in SlotState : Become(s, x) /\ Sound(x) /\ x.pc = "tell"
      BY <2>4, <3>1, StoreIs
    <3> QED BY <3>1, <3>2, WriteIs, DoneOwned
  <2>5. CASE TellOutcome(s) \/ RetryOverflows(s)
    <3>1. Become(s, Idle) /\ stored' = stored /\ Idle.pc = "idle"
      BY <2>5 DEF TellOutcome, RetryOverflows, Idle
    <3> QED BY <3>1, IdleSound, DoneOwned
  <2> QED BY <1>2, <2>1, <2>2, <2>3, <2>4, <2>5 DEF Process
<1>3. ASSUME NEW s \in Slot, Fault(s) PROVE Owned'
  <2>1. Become(s, Idle) /\ Idle.pc = "idle"
    BY <1>3, FaultIs DEF Idle
  <2>2. \A j \in Job : ~Active(s, j) => stored'[j] = stored[j]
    BY <1>3, FaultIs, WriteIs
  <2> QED BY <2>1, <2>2, IdleSound, DoneOwned
<1>4. ASSUME NEW j \in Job, Cancel(j) \/ BecomesDue(j) PROVE Owned'
  BY <1>4, CancelOwned
<1>5. CASE UNCHANGED vars
  BY <1>5 DEF vars, Owned, Active, Held, Again
<1> QED BY <1>1, <1>2, <1>3, <1>4, <1>5 DEF Next

LEMMA OwnedInit == Init => Owned
BY DEF Init, Owned, Active, Idle

-----------------------------------------------------------------------------
(* A job whose end is stored is over.                                       *)

Closed(j) == stored[j].status \in FinalStatus /\ \A s \in Slot : ~Active(s, j)

LEMMA ClosedRow ==
  ASSUME Local, NEW j \in Job, Closed(j)
  PROVE  /\ ~stored[j].queued /\ ~(stored[j].delay > 0)
         /\ stored[j].status \notin CANCELLABLE_STATUSES \cup {"waiting"}
<1>1. SoundRow(j, stored[j])
  BY DEF Local
<1> QED BY <1>1 DEF Closed, SoundRow, FinalStatus, CANCELLABLE_STATUSES

\* The end of a job stays, whatever else happens.
LEMMA ClosedStays ==
  ASSUME Local, [Next]_vars, NEW j \in Job, Closed(j)
  PROVE  Closed(j)' /\ stored'[j].status = stored[j].status
<1>0. /\ ~stored[j].queued /\ ~(stored[j].delay > 0)
      /\ stored[j].status \notin CANCELLABLE_STATUSES \cup {"waiting"}
  BY ClosedRow
<1>1. ASSUME stored'[j] = stored[j], \A t \in Slot : Active(t, j)' => Active(t, j)
      PROVE  Closed(j)' /\ stored'[j].status = stored[j].status
  BY <1>1 DEF Closed
<1>2. ASSUME NEW s \in Slot, NEW x \in SlotState, Sound(x), Become(s, x),
             slot[s].job = x.job \/ x.pc \in {"idle", "tell"},
             slot[s].pc \in {"claimed", "start", "on_start", "invoke", "store"}
                \/ x.pc \in {"idle", "tell"},
             stored' = stored \/ (slot[s].pc \in {"start", "store"} /\ Write(slot[s].job, slot[s]))
      PROVE  Closed(j)' /\ stored'[j].status = stored[j].status
  <2>1. slot'[s] = x /\ \A t \in Slot \ {s} : slot'[t] = slot[t]
    BY <1>2, BecomeSound
  <2>2. ~Active(s, j)
    BY DEF Closed
  <2>3. stored'[j] = stored[j]
    BY <1>2, <2>2, WriteIs
  <2>4. \A t \in Slot : Active(t, j)' => Active(t, j)
    BY <1>2, <2>1 DEF Active
  <2> QED BY <1>1, <2>3, <2>4
<1>3. ASSUME NEW s \in Slot, NEW k \in Job, Claim(s, k)
      PROVE  Closed(j)' /\ stored'[j].status = stored[j].status
  <2>1. PICK x \in SlotState, row \in Row :
           /\ Sound(x) /\ Become(s, x) /\ x.pc = "claimed" /\ x.job = k
           /\ x.retries = stored[k].retries
           /\ SoundRow(k, row) /\ stored' = [stored EXCEPT ![k] = row]
           /\ row.status = stored[k].status /\ row.retries = stored[k].retries
           /\ row.delay = 0 /\ ~row.queued
    BY <1>3, ClaimIs
  <2>2. k # j
    BY <1>0, <1>3 DEF Claim
  <2>3. slot'[s] = x /\ \A t \in Slot \ {s} : slot'[t] = slot[t]
    BY <2>1, BecomeSound
  <2>4. stored'[j] = stored[j]
    BY <2>1, <2>2, StoreSound
  <2>5. \A t \in Slot : Active(t, j)' => Active(t, j)
    BY <2>1, <2>2, <2>3 DEF Active
  <2> QED BY <1>1, <2>4, <2>5
<1>4. ASSUME NEW s \in Slot, Process(s)
      PROVE  Closed(j)' /\ stored'[j].status = stored[j].status
  <2>1. CASE RejectUnknown(s) \/ TellStart(s) \/ Succeed(s) \/ ScheduleRetry(s) \/ GiveUp(s)
    <3>1. PICK x \in SlotState : Become(s, x) /\ Advances(slot[s], x)
      BY <2>1, RejectIs, TellStartIs, EndIs, RetryIs
    <3>2. stored' = stored
      BY <2>1 DEF RejectUnknown, TellStart, Succeed, ScheduleRetry, GiveUp
    <3> QED BY <1>2, <3>1, <3>2 DEF Advances
  <2>2. CASE CheckCancelled(s)
    <3>1. stored' = stored
      BY <2>2 DEF CheckCancelled
    <3>2. CASE Become(s, Idle)
      <4>1. Idle.pc = "idle"
        BY DEF Idle
      <4> QED BY <1>2, <3>1, <3>2, <4>1, IdleSound
    <3>3. ASSUME NEW x \in SlotState, Become(s, x), Advances(slot[s], x)
          PROVE  Closed(j)' /\ stored'[j].status = stored[j].status
      BY <1>2, <3>1, <3>3 DEF Advances
    <3> QED BY <2>2, <3>2, <3>3, CheckIs
  <2>3. CASE StoreRunning(s) \/ StoreOutcome(s)
    <3>1. slot[s].pc \in {"start", "store"} /\ Write(slot[s].job, slot[s])
      BY <2>3 DEF StoreRunning, StoreOutcome
    <3>2. PICK x \in SlotState : Become(s, x) /\ Sound(x) /\ x.job = slot[s].job
      BY <2>3, StoreIs
    <3> QED BY <1>2, <3>1, <3>2
  <2>4. CASE TellOutcome(s) \/ RetryOverflows(s)
    <3>1. Become(s, Idle) /\ stored' = stored /\ Idle.pc = "idle"
      BY <2>4 DEF TellOutcome, RetryOverflows, Idle
    <3> QED BY <1>2, <3>1, IdleSound
  <2> QED BY <1>4, <2>1, <2>2, <2>3, <2>4 DEF Process
<1>5. ASSUME NEW s \in Slot, Fault(s)
      PROVE  Closed(j)' /\ stored'[j].status = stored[j].status
  <2>1. Idle.pc = "idle"
    BY DEF Idle
  <2> QED BY <1>2, <1>5, <2>1, FaultIs, IdleSound
<1>6. ASSUME NEW k \in Job, Cancel(k) \/ BecomesDue(k)
      PROVE  Closed(j)' /\ stored'[j].status = stored[j].status
  <2>1. k # j
    BY <1>0, <1>6 DEF Cancel, BecomesDue
  <2>2. PICK row \in Row : SoundRow(k, row) /\ stored' = [stored EXCEPT ![k] = row]
    BY <1>6, CancelIs
  <2>3. stored'[j] = stored[j]
    BY <2>1, <2>2, StoreSound
  <2>4. slot' = slot
    BY <1>6 DEF Cancel, BecomesDue
  <2> QED BY <1>1, <2>3, <2>4 DEF Active
<1>7. CASE UNCHANGED vars
  BY <1>1, <1>7 DEF vars, Active
<1> QED BY <1>3, <1>4, <1>5, <1>6, <1>7 DEF Next

-----------------------------------------------------------------------------
(* The hooks of an outcome.                                                 *)

\* The slot is telling the end of the job.
TellsEnd(s, j) == slot[s].job = j /\ slot[s].pc = "tell" /\ slot[s].status \in FinalStatus

\* One slot at most tells the end of a job, the one that is stored, and nobody
\* has told one before; what has been told is what is stored.
TruthOf(j) ==
    /\ \A s \in Slot : TellsEnd(s, j) =>
          /\ Closed(j) /\ slot[s].status = stored[j].status
          /\ \A e \in Final : told[j][e] = 0
          /\ \A t \in Slot : TellsEnd(t, j) => t = s
    /\ \A e \in Final : told[j][e] # 0 =>
          /\ told[j][e] = 1
          /\ Closed(j) /\ stored[j].status = Outcome[e]
    /\ told[j]["on_dead"] # 0 => j \in DeadLettered
    /\ told[j]["on_failure"] # 0 => j \in Unknown \/ j \notin DeadLettered

Truth == \A j \in Job : TruthOf(j)

\* A step that tells no end of the job, and begins to tell none.
LEMMA TruthKept ==
  ASSUME Local, Truth, [Next]_vars, NEW j \in Job,
         \A e \in Final : told'[j][e] = told[j][e],
         \A s \in Slot : TellsEnd(s, j)' => TellsEnd(s, j) /\ slot'[s].status = slot[s].status
  PROVE  TruthOf(j)'
<1>1. Closed(j) => Closed(j)' /\ stored'[j].status = stored[j].status
  BY ClosedStays
<1>2. TruthOf(j)
  BY DEF Truth
<1>3. ASSUME NEW s \in Slot, TellsEnd(s, j)'
      PROVE  /\ Closed(j)' /\ slot'[s].status = stored'[j].status
             /\ \A e \in Final : told'[j][e] = 0
             /\ \A t \in Slot : TellsEnd(t, j)' => t = s
  <2>1. TellsEnd(s, j) /\ slot'[s].status = slot[s].status
    BY <1>3
  <2>2. /\ Closed(j) /\ slot[s].status = stored[j].status
        /\ \A e \in Final : told[j][e] = 0
        /\ \A t \in Slot : TellsEnd(t, j) => t = s
    BY <1>2, <2>1 DEF TruthOf
  <2> QED BY <1>1, <2>1, <2>2
<1>4. ASSUME NEW e \in Final, told'[j][e] # 0
      PROVE  told'[j][e] = 1 /\ Closed(j)' /\ stored'[j].status = Outcome[e]
  BY <1>1, <1>2, <1>4 DEF TruthOf
<1>5. told'[j]["on_dead"] # 0 => j \in DeadLettered
  BY <1>2 DEF TruthOf, Final
<1>6. told'[j]["on_failure"] # 0 => j \in Unknown \/ j \notin DeadLettered
  BY <1>2 DEF TruthOf, Final
<1> QED BY <1>3, <1>4, <1>5, <1>6 DEF TruthOf

\* A slot that goes on to anything but telling an end tells no end.
LEMMA TellsLess ==
  ASSUME Local, NEW s \in Slot, NEW x \in SlotState, Sound(x), Become(s, x),
         x.pc # "tell" \/ x.status \notin FinalStatus
  PROVE  \A t \in Slot, j \in Job : TellsEnd(t, j)' =>
            t # s /\ TellsEnd(t, j) /\ slot'[t].status = slot[t].status
<1>1. slot'[s] = x /\ \A t \in Slot \ {s} : slot'[t] = slot[t]
  BY BecomeSound
<1> QED BY <1>1 DEF TellsEnd

\* The outcome of the attempt is stored.
LEMMA OutcomeTruth ==
  ASSUME Local, Owned, Truth, [Next]_vars, NEW s \in Slot, StoreOutcome(s), NEW j \in Job
  PROVE  TruthOf(j)'
<1>1. PICK x \in SlotState :
         /\ Become(s, x) /\ Sound(x) /\ x.job = slot[s].job
         /\ x.status = slot[s].status /\ x.pc = "tell"
  BY StoreIs DEF StoreOutcome
<1>2. slot[s].pc = "store" /\ Write(slot[s].job, slot[s]) /\ told' = told
  BY DEF StoreOutcome
<1>3. slot'[s] = x /\ \A t \in Slot \ {s} : slot'[t] = slot[t]
  BY <1>1, BecomeSound
<1>4. CASE x.job # j \/ x.status \notin FinalStatus
  <2>1. \A t \in Slot : TellsEnd(t, j)' => TellsEnd(t, j) /\ slot'[t].status = slot[t].status
    BY <1>1, <1>3, <1>4 DEF TellsEnd
  <2> QED BY <1>2, <2>1, TruthKept
<1>5. CASE x.job = j /\ x.status \in FinalStatus
  <2>1. Active(s, j) /\ TruthOf(j)
    BY <1>1, <1>2, <1>5 DEF Active, Truth
  <2>2. ~Closed(j)
    BY <2>1 DEF Closed
  <2>3. /\ \A e \in Final : told[j][e] = 0
        /\ \A t \in Slot : ~TellsEnd(t, j)
    BY <2>1, <2>2 DEF TruthOf
  <2>4. \A t \in Slot : TellsEnd(t, j)' => t = s
    BY <1>3, <2>3 DEF TellsEnd
  <2>5. stored'[j] = RowOf(slot[s])
    BY <1>1, <1>2, <1>5, WriteIs
  <2>6. stored'[j].status = x.status
    BY <1>1, <2>5, RowFields
  <2>7. \A t \in Slot : ~Active(t, j)'
    BY <1>1, <1>3, <2>1 DEF Owned, Active
  <2>8. Closed(j)' /\ slot'[s].status = stored'[j].status
    BY <1>3, <1>5, <2>6, <2>7 DEF Closed
  <2>9. \A e \in Final : told'[j][e] = 0
    BY <1>2, <2>3
  <2>10. told'[j]["on_dead"] = 0 /\ told'[j]["on_failure"] = 0
    BY <2>9 DEF Final
  <2> QED BY <2>4, <2>8, <2>9, <2>10 DEF TruthOf
<1> QED BY <1>4, <1>5

\* The event of an outcome.
LEMMA EventOf ==
  ASSUME NEW status \in FinalStatus \cup {"retrying", "waiting"}
  PROVE  /\ OutcomeEvent(status) \in Event
         /\ status \in FinalStatus => OutcomeEvent(status) \in Final
                                      /\ Outcome[OutcomeEvent(status)] = status
         /\ Retries(status) <=> OutcomeEvent(status) = "on_retry"
         /\ OutcomeEvent(status) = "on_dead" => status = "dead"
         /\ OutcomeEvent(status) = "on_failure" => status = "failed"
         /\ status \in FinalStatus <=> ~Retries(status)
BY DEF FinalStatus, OutcomeEvent, Event, Final, Outcome, Retries

\* The hooks of the outcome are called.
LEMMA TellTruth ==
  ASSUME Local, Truth, [Next]_vars, NEW s \in Slot, TellOutcome(s), NEW j \in Job
  PROVE  TruthOf(j)'
<1>1. PICK x \in SlotState : x = slot[s]
  BY DEF Local, Shape
<1>2. Sound(x) /\ x.pc = "tell" /\ x.job \in Job
        /\ x.status \in FinalStatus \cup {"retrying", "waiting"}
  BY <1>1 DEF Local, TellOutcome, Sound
<1>3. PICK event \in Event : event = OutcomeEvent(x.status)
  BY <1>2, EventOf
<1>4. Emit(x.job, event) /\ Become(s, Idle)
  BY <1>1, <1>3 DEF TellOutcome
<1>5. /\ told'[x.job][event] = told[x.job][event] + 1
      /\ \A e \in Event \ {event} : told'[x.job][e] = told[x.job][e]
      /\ \A k \in Job \ {x.job} : told'[k] = told[k]
  BY <1>2, <1>4, EmitType DEF Local
<1>6. \A t \in Slot : TellsEnd(t, j)' =>
         t # s /\ TellsEnd(t, j) /\ slot'[t].status = slot[t].status
  <2>1. Idle.pc # "tell"
    BY DEF Idle
  <2> QED BY <1>4, <2>1, IdleSound, TellsLess
<1>7. CASE x.job # j \/ x.status \notin FinalStatus
  <2>1. x.status \notin FinalStatus => event \notin Final
    BY <1>2, <1>3, EventOf DEF Final
  <2>2. \A e \in Final : told'[j][e] = told[j][e]
    BY <1>5, <1>7, <2>1 DEF Final, Event
  <2> QED BY <1>6, <2>2, TruthKept
<1>8. CASE x.job = j /\ x.status \in FinalStatus
  <2>1. TellsEnd(s, j) /\ TruthOf(j)
    BY <1>1, <1>2, <1>8 DEF TellsEnd, Truth
  <2>2. /\ Closed(j) /\ x.status = stored[j].status
        /\ \A e \in Final : told[j][e] = 0
        /\ \A t \in Slot : TellsEnd(t, j) => t = s
    BY <1>1, <2>1 DEF TruthOf
  <2>3. Closed(j)' /\ stored'[j].status = x.status
    BY <2>2, ClosedStays
  <2>4. \A t \in Slot : ~TellsEnd(t, j)'
    BY <1>6, <2>2
  <2>5. event \in Final /\ Outcome[event] = x.status
    BY <1>3, <1>8, EventOf
  <2>6. told'[j][event] = 1 /\ \A e \in Final \ {event} : told'[j][e] = 0
    BY <1>5, <1>8, <2>2, <2>5 DEF Final, Event
  <2>7. \A e \in Final : told'[j][e] # 0 =>
           told'[j][e] = 1 /\ Closed(j)' /\ stored'[j].status = Outcome[e]
    BY <2>3, <2>5, <2>6
  <2>8. told'[j]["on_dead"] # 0 => j \in DeadLettered
    <3>1. told'[j]["on_dead"] # 0 => event = "on_dead"
      BY <2>6 DEF Final
    <3> QED BY <1>2, <1>3, <1>8, <3>1, EventOf DEF Sound
  <2>9. told'[j]["on_failure"] # 0 => j \in Unknown \/ j \notin DeadLettered
    <3>1. told'[j]["on_failure"] # 0 => event = "on_failure"
      BY <2>6 DEF Final
    <3> QED BY <1>2, <1>3, <1>8, <3>1, EventOf DEF Sound
  <2> QED BY <2>4, <2>7, <2>8, <2>9 DEF TruthOf
<1> QED BY <1>7, <1>8

\* Every step keeps what is told true.
LEMMA TruthStep == Local /\ Owned /\ Truth /\ [Next]_vars => Truth'
<1> SUFFICES ASSUME Local, Owned, Truth, [Next]_vars, NEW j \in Job PROVE TruthOf(j)'
  BY DEF Truth
<1>i. Idle.pc # "tell" /\ Idle \in SlotState /\ Sound(Idle)
  BY IdleSound DEF Idle
<1>f. \A e \in Final : e \in Event /\ e # "on_start"
  BY DEF Final, Event
<1>0. ASSUME NEW s \in Slot, NEW x \in SlotState, Sound(x), Become(s, x), x.pc # "tell",
             \A e \in Final : told'[j][e] = told[j][e]
      PROVE  TruthOf(j)'
  BY <1>0, TellsLess, TruthKept
<1>1. ASSUME NEW s \in Slot, NEW k \in Job, Claim(s, k) PROVE TruthOf(j)'
  <2>1. PICK x \in SlotState : Sound(x) /\ Become(s, x) /\ x.pc = "claimed"
    BY <1>1, ClaimIs
  <2>2. told' = told
    BY <1>1 DEF Claim
  <2> QED BY <1>0, <2>1, <2>2
<1>2. ASSUME NEW s \in Slot, Process(s) PROVE TruthOf(j)'
  <2>1. CASE RejectUnknown(s) \/ TellStart(s) \/ Succeed(s) \/ ScheduleRetry(s) \/ GiveUp(s)
    <3>1. PICK x \in SlotState : Become(s, x) /\ Advances(slot[s], x)
      BY <2>1, RejectIs, TellStartIs, EndIs, RetryIs
    <3>2. \A e \in Final : told'[j][e] = told[j][e]
      <4>1. CASE TellStart(s)
        <5>1. slot[s].job \in Job /\ Emit(slot[s].job, "on_start") /\ "on_start" \in Event
          BY <4>1 DEF TellStart, Local, Sound, Event
        <5>2. /\ \A e \in Event \ {"on_start"} : told'[slot[s].job][e] = told[slot[s].job][e]
              /\ \A k \in Job \ {slot[s].job} : told'[k] = told[k]
          BY <5>1, EmitType DEF Local
        <5> QED BY <1>f, <5>2
      <4>2. CASE ~TellStart(s)
        BY <2>1, <4>2 DEF RejectUnknown, Succeed, ScheduleRetry, GiveUp
      <4> QED BY <4>1, <4>2
    <3> QED BY <1>0, <3>1, <3>2 DEF Advances
  <2>2. CASE CheckCancelled(s)
    <3>1. told' = told
      BY <2>2 DEF CheckCancelled
    <3>2. CASE Become(s, Idle)
      BY <1>0, <1>i, <3>1, <3>2
    <3>3. ASSUME NEW x \in SlotState, Become(s, x), Advances(slot[s], x) PROVE TruthOf(j)'
      BY <1>0, <3>1, <3>3 DEF Advances
    <3> QED BY <2>2, <3>2, <3>3, CheckIs
  <2>3. CASE StoreRunning(s)
    <3>1. PICK x \in SlotState : Become(s, x) /\ Sound(x) /\ x.pc # "tell"
      BY <2>3, StoreIs DEF StoreRunning
    <3>2. told' = told
      BY <2>3 DEF StoreRunning
    <3> QED BY <1>0, <3>1, <3>2
  <2>4. CASE StoreOutcome(s)
    BY <2>4, OutcomeTruth
  <2>5. CASE TellOutcome(s)
    BY <2>5, TellTruth
  <2>6. CASE RetryOverflows(s)
    BY <1>0, <1>i, <2>6 DEF RetryOverflows
  <2> QED BY <1>2, <2>1, <2>2, <2>3, <2>4, <2>5, <2>6 DEF Process
<1>3. ASSUME NEW s \in Slot, Fault(s) PROVE TruthOf(j)'
  BY <1>0, <1>i, <1>3 DEF Fault, Abort
<1>4. ASSUME UNCHANGED <<slot, told>> PROVE TruthOf(j)'
  <2>1. \A s \in Slot : TellsEnd(s, j)' => TellsEnd(s, j) /\ slot'[s].status = slot[s].status
    BY <1>4 DEF TellsEnd
  <2> QED BY <1>4, <2>1, TruthKept
<1>5. ASSUME NEW k \in Job, Cancel(k) \/ BecomesDue(k) PROVE TruthOf(j)'
  BY <1>4, <1>5 DEF Cancel, BecomesDue
<1>6. CASE UNCHANGED vars
  BY <1>4, <1>6 DEF vars
<1> QED BY <1>1, <1>2, <1>3, <1>5, <1>6 DEF Next

LEMMA TruthInit == Init => Truth
<1> SUFFICES ASSUME Init, NEW j \in Job PROVE TruthOf(j)
  BY DEF Truth
<1>1. \A s \in Slot : ~TellsEnd(s, j)
  BY DEF Init, TellsEnd, Idle
<1>2. \A e \in Event : told[j][e] = 0
  BY DEF Init
<1> QED BY <1>1, <1>2 DEF TruthOf, Final, Event

-----------------------------------------------------------------------------
(* Counting slots.                                                          *)

Bit(b) == IF b THEN 1 ELSE 0

\* A set of slots changes by the one slot that a step moves.
LEMMA CountOne ==
  ASSUME NEW S, NEW T, S \subseteq Slot, T \subseteq Slot, NEW s \in Slot, T \ {s} = S \ {s}
  PROVE  /\ Cardinality(S) \in Nat /\ Cardinality(T) \in Nat
         /\ Cardinality(T) + Bit(s \in S) = Cardinality(S) + Bit(s \in T)
<1>1. IsFiniteSet(S) /\ IsFiniteSet(T)
  BY SetsAssumption, FS_Subset
<1>2. Cardinality(S) \in Nat /\ Cardinality(T) \in Nat
  BY <1>1, FS_CardinalityType
<1>3. CASE (s \in S) <=> (s \in T)
  <2>1. T = S
    BY <1>3
  <2> QED BY <1>2, <2>1 DEF Bit
<1>4. CASE s \in S /\ s \notin T
  <2>1. T = S \ {s}
    BY <1>4
  <2>2. Cardinality(T) = Cardinality(S) - 1
    BY <1>1, <1>4, <2>1, FS_RemoveElement
  <2> QED BY <1>2, <1>4, <2>2 DEF Bit
<1>5. CASE s \notin S /\ s \in T
  <2>1. T = S \cup {s}
    BY <1>5
  <2>2. Cardinality(T) = Cardinality(S) + 1
    BY <1>1, <1>5, <2>1, FS_AddElement
  <2> QED BY <1>2, <1>5, <2>2 DEF Bit
<1> QED BY <1>3, <1>4, <1>5

\* The attempts that are measured, all or those of one job, and the slots that
\* tell a retry.
Measuring == {s \in Slot : Measured(s)}
Under(j) == {s \in Slot : slot[s].job = j /\ Measured(s)}
Tells(x) == x.pc = "tell" /\ Retries(x.status)
TellingRetry == {s \in Slot : Tells(slot[s])}
TellsRetry(j) == {s \in Slot : slot[s].job = j /\ Tells(slot[s])}

Measures(x) == x.pc \in {"invoke", "store", "tell"} /\ x.job \notin Unknown

\* How the four counts change when one slot changes.
LEMMA CountsChange ==
  ASSUME Local, NEW s \in Slot, NEW x \in SlotState, Sound(x), Become(s, x)
  PROVE  /\ Cardinality(Measuring) \in Nat /\ Cardinality(Measuring)' \in Nat
         /\ Cardinality(Measuring)' + Bit(Measures(slot[s]))
               = Cardinality(Measuring) + Bit(Measures(x))
         /\ Cardinality(TellingRetry) \in Nat /\ Cardinality(TellingRetry)' \in Nat
         /\ Cardinality(TellingRetry)' + Bit(Tells(slot[s]))
               = Cardinality(TellingRetry) + Bit(Tells(x))
<1>1. slot'[s] = x /\ \A t \in Slot \ {s} : slot'[t] = slot[t]
  BY BecomeSound
<1>2. Measuring \subseteq Slot /\ Measuring' \subseteq Slot /\ Measuring' \ {s} = Measuring \ {s}
        /\ (s \in Measuring <=> Measures(slot[s])) /\ (s \in Measuring' <=> Measures(x))
  BY <1>1 DEF Measuring, Measured, Measures
<1>3. TellingRetry \subseteq Slot /\ TellingRetry' \subseteq Slot
        /\ TellingRetry' \ {s} = TellingRetry \ {s}
        /\ (s \in TellingRetry <=> Tells(slot[s])) /\ (s \in TellingRetry' <=> Tells(x))
  BY <1>1 DEF TellingRetry, Tells
<1>4. /\ Cardinality(Measuring) \in Nat /\ Cardinality(Measuring') \in Nat
      /\ Cardinality(Measuring') + Bit(s \in Measuring)
            = Cardinality(Measuring) + Bit(s \in Measuring')
  BY <1>2, CountOne
<1>5. /\ Cardinality(TellingRetry) \in Nat /\ Cardinality(TellingRetry') \in Nat
      /\ Cardinality(TellingRetry') + Bit(s \in TellingRetry)
            = Cardinality(TellingRetry) + Bit(s \in TellingRetry')
  BY <1>3, CountOne
<1> QED BY <1>2, <1>3, <1>4, <1>5 DEF Bit

\* The same for one job.
LEMMA JobCountsChange ==
  ASSUME Local, NEW s \in Slot, NEW x \in SlotState, Sound(x), Become(s, x), NEW j \in Job
  PROVE  /\ Cardinality(Under(j)) \in Nat /\ Cardinality(Under(j))' \in Nat
         /\ Cardinality(Under(j))' + Bit(slot[s].job = j /\ Measures(slot[s]))
               = Cardinality(Under(j)) + Bit(x.job = j /\ Measures(x))
         /\ Cardinality(TellsRetry(j)) \in Nat /\ Cardinality(TellsRetry(j))' \in Nat
         /\ Cardinality(TellsRetry(j))' + Bit(slot[s].job = j /\ Tells(slot[s]))
               = Cardinality(TellsRetry(j)) + Bit(x.job = j /\ Tells(x))
<1>1. slot'[s] = x /\ \A t \in Slot \ {s} : slot'[t] = slot[t]
  BY BecomeSound
<1>2. Under(j) \subseteq Slot /\ Under(j)' \subseteq Slot /\ Under(j)' \ {s} = Under(j) \ {s}
        /\ (s \in Under(j) <=> slot[s].job = j /\ Measures(slot[s]))
        /\ (s \in Under(j)' <=> x.job = j /\ Measures(x))
  BY <1>1 DEF Under, Measured, Measures
<1>3. TellsRetry(j) \subseteq Slot /\ TellsRetry(j)' \subseteq Slot
        /\ TellsRetry(j)' \ {s} = TellsRetry(j) \ {s}
        /\ (s \in TellsRetry(j) <=> slot[s].job = j /\ Tells(slot[s]))
        /\ (s \in TellsRetry(j)' <=> x.job = j /\ Tells(x))
  BY <1>1 DEF TellsRetry, Tells
<1>4. PICK A : A = Under(j)
  OBVIOUS
<1>5. PICK B : B = Under(j)'
  OBVIOUS
<1>6. PICK C : C = TellsRetry(j)
  OBVIOUS
<1>7. PICK D : D = TellsRetry(j)'
  OBVIOUS
<1>8. /\ Cardinality(A) \in Nat /\ Cardinality(B) \in Nat
      /\ Cardinality(B) + Bit(s \in A) = Cardinality(A) + Bit(s \in B)
  BY <1>2, <1>4, <1>5, CountOne
<1>9. /\ Cardinality(C) \in Nat /\ Cardinality(D) \in Nat
      /\ Cardinality(D) + Bit(s \in C) = Cardinality(C) + Bit(s \in D)
  BY <1>3, <1>6, <1>7, CountOne
<1> QED BY <1>2, <1>3, <1>4, <1>5, <1>6, <1>7, <1>8, <1>9 DEF Bit

-----------------------------------------------------------------------------
(* The metrics.                                                             *)

\* The finishes after which another attempt may follow.
Retried(counter) == counter["retrying"] + counter["waiting"]

\* One more on the counter, under a status.
LEMMA OneMore ==
  ASSUME NEW f \in [JobStatus -> Nat], NEW g, NEW status \in JobStatus,
         g = [f EXCEPT ![status] = f[status] + 1]
  PROVE  /\ Total(f) \in Nat /\ Total(g) \in Nat /\ Total(g) = Total(f) + 1
         /\ Retried(f) \in Nat /\ Retried(g) \in Nat
         /\ Retried(g) = Retried(f) + Bit(Retries(status))
<1>1. \A st \in JobStatus : f[st] \in Nat /\ g[st] = f[st] + Bit(st = status)
  BY DEF Bit
<1>2. PICK a1 \in Nat, a2 \in Nat, a3 \in Nat, a4 \in Nat,
           a5 \in Nat, a6 \in Nat, a7 \in Nat, a8 \in Nat :
         /\ a1 = f["pending"] /\ a2 = f["waiting"]
         /\ a3 = f["running"] /\ a4 = f["completed"]
         /\ a5 = f["failed"] /\ a6 = f["retrying"]
         /\ a7 = f["cancelled"] /\ a8 = f["dead"]
  BY <1>1 DEF JobStatus
<1>3. PICK c1 \in {0, 1}, c2 \in {0, 1}, c3 \in {0, 1}, c4 \in {0, 1},
           c5 \in {0, 1}, c6 \in {0, 1}, c7 \in {0, 1}, c8 \in {0, 1} :
         /\ c1 = Bit("pending" = status) /\ c2 = Bit("waiting" = status)
         /\ c3 = Bit("running" = status) /\ c4 = Bit("completed" = status)
         /\ c5 = Bit("failed" = status) /\ c6 = Bit("retrying" = status)
         /\ c7 = Bit("cancelled" = status) /\ c8 = Bit("dead" = status)
  BY DEF Bit
<1>4. Total(f) \in Nat /\ Total(g) \in Nat /\ Total(g) = Total(f) + 1
  <2>1. /\ g["pending"] = a1 + c1 /\ g["waiting"] = a2 + c2
        /\ g["running"] = a3 + c3 /\ g["completed"] = a4 + c4
        /\ g["failed"] = a5 + c5 /\ g["retrying"] = a6 + c6
        /\ g["cancelled"] = a7 + c7 /\ g["dead"] = a8 + c8
    BY <1>1, <1>2, <1>3 DEF JobStatus
  <2>2. c1 + c2 + c3 + c4 + c5 + c6 + c7 + c8 = 1
    <3>1. \/ status = "pending" \/ status = "waiting" \/ status = "running"
          \/ status = "completed" \/ status = "failed" \/ status = "retrying"
          \/ status = "cancelled" \/ status = "dead"
      BY DEF JobStatus
    <3> QED BY <1>3, <3>1 DEF Bit
  <2>3. Total(f) = a1 + a2 + a3 + a4 + a5 + a6 + a7 + a8
    BY <1>2 DEF Total
  <2>4. Total(g) = (a1 + c1) + (a2 + c2) + (a3 + c3) + (a4 + c4)
                     + (a5 + c5) + (a6 + c6) + (a7 + c7) + (a8 + c8)
    BY <2>1 DEF Total
  <2> QED BY <2>2, <2>3, <2>4
<1>5. /\ Retried(f) \in Nat /\ Retried(g) \in Nat
      /\ Retried(g) = Retried(f) + Bit(Retries(status))
  <2>1. /\ f["retrying"] \in Nat /\ f["waiting"] \in Nat
        /\ g["retrying"] = f["retrying"] + Bit("retrying" = status)
        /\ g["waiting"] = f["waiting"] + Bit("waiting" = status)
    BY <1>1 DEF JobStatus
  <2> QED BY <2>1 DEF Retried, Retries, Bit
<1> QED BY <1>4, <1>5

LEMMA SameCounter ==
  ASSUME NEW f \in [JobStatus -> Nat]
  PROVE  Total(f) \in Nat /\ Retried(f) \in Nat
BY DEF Total, Retried, JobStatus

\* record_finish counts an attempt that is measured.
LEMMA FinishAdds ==
  ASSUME Shape, NEW s \in Slot, Finish(s)
  PROVE  /\ Total(finished) \in Nat /\ Total(finished') \in Nat
         /\ Total(finished') = Total(finished) + Bit(Measures(slot[s]))
         /\ Retried(finished) \in Nat /\ Retried(finished') \in Nat
         /\ Retried(finished') =
               Retried(finished) + Bit(Measures(slot[s]) /\ Retries(slot[s].status))
<1>1. slot[s].status \in JobStatus /\ finished \in [JobStatus -> Nat]
  BY DEF Shape, SlotState
<1>2. CASE Measures(slot[s])
  <2>1. finished' = [finished EXCEPT ![slot[s].status] = finished[slot[s].status] + 1]
    BY <1>2 DEF Finish, Measured, Measures
  <2> QED BY <1>1, <1>2, <2>1, OneMore DEF Bit
<1>3. CASE ~Measures(slot[s])
  <2>1. finished' = finished
    BY <1>3 DEF Finish, Measured, Measures
  <2> QED BY <1>1, <1>3, <2>1, SameCounter DEF Bit
<1> QED BY <1>2, <1>3

MetricsInv ==
    /\ started = Total(finished) + Cardinality(Measuring)
    /\ retried <= Retried(finished) + Cardinality(TellingRetry)
    /\ aborted = 0 => retried = Retried(finished) + Cardinality(TellingRetry)

\* A step of a slot changes the counters as it changes what is counted.  m is
\* what it finishes, r the retries it finishes, b the retry it counts.
LEMMA OneSlotMetrics ==
  ASSUME Local, MetricsInv, NEW s \in Slot, NEW x \in SlotState, Sound(x), Become(s, x),
         NEW n \in {0, 1}, NEW m \in {0, 1}, NEW r \in {0, 1}, NEW b \in {0, 1},
         started' = started + n, retried' = retried + b,
         Total(finished') = Total(finished) + m,
         Retried(finished') = Retried(finished) + r,
         m + Bit(Measures(x)) = Bit(Measures(slot[s])) + n,
         b + Bit(Tells(slot[s])) <= r + Bit(Tells(x)),
         \/ aborted' = aborted /\ b + Bit(Tells(slot[s])) = r + Bit(Tells(x))
         \/ aborted' = aborted + 1
  PROVE  MetricsInv'
<1>1. /\ Cardinality(Measuring) \in Nat /\ Cardinality(Measuring)' \in Nat
      /\ Cardinality(Measuring)' + Bit(Measures(slot[s]))
            = Cardinality(Measuring) + Bit(Measures(x))
      /\ Cardinality(TellingRetry) \in Nat /\ Cardinality(TellingRetry)' \in Nat
      /\ Cardinality(TellingRetry)' + Bit(Tells(slot[s]))
            = Cardinality(TellingRetry) + Bit(Tells(x))
  BY CountsChange
<1>2. PICK c \in Nat, d \in Nat, e \in Nat, f \in Nat :
         /\ c = Cardinality(Measuring) /\ d = Cardinality(Measuring)'
         /\ e = Cardinality(TellingRetry) /\ f = Cardinality(TellingRetry)'
  BY <1>1
<1>3. PICK p \in Nat, q \in Nat : p = Total(finished) /\ q = Retried(finished)
  BY SameCounter DEF Local, Shape
<1>4. PICK u \in {0, 1}, v \in {0, 1}, w \in {0, 1}, z \in {0, 1} :
         /\ u = Bit(Measures(slot[s])) /\ v = Bit(Measures(x))
         /\ w = Bit(Tells(slot[s])) /\ z = Bit(Tells(x))
  BY DEF Bit
<1>5. d + u = c + v /\ f + w = e + z /\ m + v = u + n /\ b + w <= r + z
  BY <1>1, <1>2, <1>4
<1>6. started \in Nat /\ retried \in Nat /\ aborted \in Nat
  BY DEF Local, Shape
<1>7. started' = (p + m) + d
  <2>1. started = p + c
    BY <1>2, <1>3 DEF MetricsInv
  <2> QED BY <1>5, <1>6, <2>1
<1>8. retried' <= (q + r) + f
  <2>1. retried <= q + e
    BY <1>2, <1>3 DEF MetricsInv
  <2> QED BY <1>5, <1>6, <2>1
<1>9. aborted' = 0 => retried' = (q + r) + f
  <2>1. aborted = 0 => retried = q + e
    BY <1>2, <1>3 DEF MetricsInv
  <2>2. aborted' = 0 => aborted = 0 /\ b + w = r + z
    BY <1>4, <1>6
  <2> QED BY <1>5, <1>6, <2>1, <2>2
<1>10. Total(finished)' = p + m /\ Retried(finished)' = q + r
  BY <1>3 DEF Total, Retried
<1> QED BY <1>2, <1>7, <1>8, <1>9, <1>10 DEF MetricsInv

\* Steps that change no counter and neither measure nor tell otherwise.
LEMMA MetricsSame ==
  ASSUME Local, MetricsInv, NEW s \in Slot, NEW x \in SlotState, Sound(x), Become(s, x),
         UNCHANGED <<metrics, aborted>>, Measures(x) <=> Measures(slot[s]),
         Tells(x) <=> Tells(slot[s])
  PROVE  MetricsInv'
<1>1. /\ Cardinality(Measuring)' + Bit(Measures(slot[s]))
            = Cardinality(Measuring) + Bit(Measures(x))
      /\ Cardinality(TellingRetry)' + Bit(Tells(slot[s]))
            = Cardinality(TellingRetry) + Bit(Tells(x))
      /\ Cardinality(Measuring) \in Nat /\ Cardinality(Measuring)' \in Nat
      /\ Cardinality(TellingRetry) \in Nat /\ Cardinality(TellingRetry)' \in Nat
  BY CountsChange
<1>2. Cardinality(Measuring)' = Cardinality(Measuring)
        /\ Cardinality(TellingRetry)' = Cardinality(TellingRetry)
  BY <1>1 DEF Bit
<1> QED BY <1>2 DEF MetricsInv, metrics

LEMMA IdleCounts == ~Measures(Idle) /\ ~Tells(Idle)
BY DEF Measures, Tells, Idle

\* Every step of _process keeps the counters right.
LEMMA ProcessMetrics ==
  ASSUME Local, MetricsInv, NEW s \in Slot, Process(s)
  PROVE  MetricsInv'
<1>o. PICK old \in SlotState : old = slot[s]
  BY DEF Local, Shape
<1>s. Sound(old) /\ finished \in [JobStatus -> Nat] /\ started \in Nat /\ retried \in Nat
        /\ aborted \in Nat
  BY <1>o DEF Local, Shape
<1>i. Idle \in SlotState /\ Sound(Idle) /\ ~Measures(Idle) /\ ~Tells(Idle)
  BY IdleSound, IdleCounts
<1>1. CASE RejectUnknown(s)
  <2>1. PICK x \in SlotState : Become(s, x) /\ Advances(old, x) /\ x.pc = "store"
    BY <1>1, <1>o, RejectIs
  <2>2. ~Measures(old) /\ ~Measures(x) /\ ~Tells(old) /\ ~Tells(x)
    BY <1>1, <1>o, <2>1 DEF RejectUnknown, Measures, Tells, Advances
  <2>3. UNCHANGED <<metrics, aborted>>
    BY <1>1 DEF RejectUnknown
  <2> QED BY <1>o, <2>1, <2>2, <2>3, MetricsSame DEF Advances
<1>2. CASE CheckCancelled(s)
  <2>1. UNCHANGED <<metrics, aborted>> /\ ~Measures(old) /\ ~Tells(old)
    BY <1>2, <1>o DEF CheckCancelled, Measures, Tells
  <2>2. CASE Become(s, Idle)
    BY <1>i, <1>o, <2>1, <2>2, MetricsSame
  <2>3. ASSUME NEW x \in SlotState, Become(s, x), Advances(old, x), x.pc = "start"
        PROVE  MetricsInv'
    <3>1. ~Measures(x) /\ ~Tells(x)
      BY <2>3 DEF Measures, Tells
    <3> QED BY <1>o, <2>1, <2>3, <3>1, MetricsSame DEF Advances
  <2> QED BY <1>2, <1>o, <2>2, <2>3, CheckIs
<1>3. CASE StoreRunning(s)
  <2>1. PICK x \in SlotState : Become(s, x) /\ Sound(x) /\ x.pc = "on_start"
    BY <1>3, StoreIs DEF StoreRunning
  <2>2. ~Measures(old) /\ ~Measures(x) /\ ~Tells(old) /\ ~Tells(x)
    BY <1>3, <1>o, <2>1 DEF StoreRunning, Measures, Tells
  <2>3. UNCHANGED <<metrics, aborted>>
    BY <1>3 DEF StoreRunning
  <2> QED BY <1>o, <2>1, <2>2, <2>3, MetricsSame
<1>4. CASE TellStart(s)
  <2>1. PICK x \in SlotState : Become(s, x) /\ Advances(old, x) /\ x.pc = "invoke"
    BY <1>4, <1>o, TellStartIs
  <2>2. ~Measures(old) /\ Measures(x) /\ ~Tells(old) /\ ~Tells(x)
    BY <1>4, <1>o, <2>1 DEF TellStart, Measures, Tells, Advances, Sound
  <2>3. started' = started + 1 /\ UNCHANGED <<finished, retried, aborted>>
    BY <1>4 DEF TellStart
  <2>4. Total(finished') = Total(finished) + 0 /\ Retried(finished') = Retried(finished) + 0
    BY <1>s, <2>3, SameCounter
  <2>5. retried' = retried + 0
    BY <1>s, <2>3
  <2>6. /\ 0 + Bit(Measures(x)) = Bit(Measures(old)) + 1
        /\ 0 + Bit(Tells(old)) = 0 + Bit(Tells(x)) /\ 0 + Bit(Tells(old)) <= 0 + Bit(Tells(x))
    BY <2>2 DEF Bit
  <2> QED BY <1>o, <2>1, <2>3, <2>4, <2>5, <2>6, OneSlotMetrics DEF Advances
<1>5. CASE Succeed(s) \/ GiveUp(s) \/ ScheduleRetry(s)
  <2>1. PICK x \in SlotState : Become(s, x) /\ Advances(old, x) /\ x.pc = "store"
    BY <1>5, <1>o, EndIs, RetryIs
  <2>2. old.pc = "invoke"
    BY <1>5, <1>o DEF Succeed, GiveUp, ScheduleRetry
  <2>3. Measures(old) /\ Measures(x) /\ ~Tells(old) /\ ~Tells(x)
    BY <1>s, <2>1, <2>2 DEF Measures, Tells, Advances, Sound
  <2>4. UNCHANGED <<metrics, aborted>>
    BY <1>5 DEF Succeed, GiveUp, ScheduleRetry
  <2> QED BY <1>o, <2>1, <2>3, <2>4, MetricsSame DEF Advances
<1>6. CASE StoreOutcome(s)
  <2>1. PICK x \in SlotState :
           /\ Become(s, x) /\ Sound(x) /\ x.job = old.job /\ x.status = old.status
           /\ x.pc = "tell"
    BY <1>6, <1>o, StoreIs DEF StoreOutcome
  <2>2. old.pc = "store" /\ UNCHANGED <<started, finished, aborted>>
          /\ retried' = IF Retries(old.status) THEN retried + 1 ELSE retried
    BY <1>6, <1>o DEF StoreOutcome
  <2>3. (Measures(x) <=> Measures(old)) /\ ~Tells(old) /\ (Tells(x) <=> Retries(old.status))
    BY <2>1, <2>2 DEF Measures, Tells
  <2>4. PICK b \in {0, 1} : b = Bit(Retries(old.status))
    BY DEF Bit
  <2>5. retried' = retried + b /\ started' = started + 0
    BY <1>s, <2>2, <2>4 DEF Bit
  <2>6. Total(finished') = Total(finished) + 0 /\ Retried(finished') = Retried(finished) + 0
    BY <1>s, <2>2, SameCounter
  <2>7. /\ 0 + Bit(Measures(x)) = Bit(Measures(old)) + 0
        /\ b + Bit(Tells(old)) = 0 + Bit(Tells(x)) /\ b + Bit(Tells(old)) <= 0 + Bit(Tells(x))
    BY <2>3, <2>4 DEF Bit
  <2> QED BY <1>o, <2>1, <2>2, <2>5, <2>6, <2>7, OneSlotMetrics
<1>7. CASE TellOutcome(s)
  <2>1. old.pc = "tell" /\ Finish(s) /\ Become(s, Idle) /\ UNCHANGED <<started, retried, aborted>>
    BY <1>7, <1>o DEF TellOutcome
  <2>2. Retries(old.status) => Measures(old)
    BY <1>s, <2>1 DEF Sound, Measures, Retries
  <2>3. /\ Total(finished') = Total(finished) + Bit(Measures(old))
        /\ Retried(finished') = Retried(finished) + Bit(Measures(old) /\ Retries(old.status))
    BY <1>o, <2>1, FinishAdds DEF Local
  <2>4. PICK m \in {0, 1}, r \in {0, 1} :
           m = Bit(Measures(old)) /\ r = Bit(Measures(old) /\ Retries(old.status))
    BY DEF Bit
  <2>5. started' = started + 0 /\ retried' = retried + 0
    BY <1>s, <2>1
  <2>6. /\ m + Bit(Measures(Idle)) = Bit(Measures(old)) + 0
        /\ 0 + Bit(Tells(old)) = r + Bit(Tells(Idle)) /\ 0 + Bit(Tells(old)) <= r + Bit(Tells(Idle))
    BY <1>i, <2>1, <2>2, <2>4 DEF Bit, Tells
  <2> QED BY <1>i, <1>o, <2>1, <2>3, <2>4, <2>5, <2>6, OneSlotMetrics
<1>8. CASE RetryOverflows(s)
  <2>1. old.pc = "invoke" /\ Become(s, Idle) /\ aborted' = aborted + 1
          /\ UNCHANGED <<started, retried>>
          /\ finished' = [finished EXCEPT !["retrying"] = finished["retrying"] + 1]
    BY <1>8, <1>o DEF RetryOverflows
  <2>2. Measures(old) /\ ~Tells(old)
    BY <1>s, <2>1 DEF Sound, Measures, Tells
  <2>3. Total(finished') = Total(finished) + 1 /\ Retried(finished') = Retried(finished) + 1
    <3>1. "retrying" \in JobStatus /\ Retries("retrying")
      BY DEF JobStatus, Retries
    <3> QED BY <1>s, <2>1, <3>1, OneMore DEF Bit
  <2>4. started' = started + 0 /\ retried' = retried + 0
    BY <1>s, <2>1
  <2>5. /\ 1 + Bit(Measures(Idle)) = Bit(Measures(old)) + 0
        /\ 0 + Bit(Tells(old)) <= 1 + Bit(Tells(Idle))
    BY <1>i, <2>2 DEF Bit
  <2> QED BY <1>i, <1>o, <2>1, <2>3, <2>4, <2>5, OneSlotMetrics
<1> QED BY <1>1, <1>2, <1>3, <1>4, <1>5, <1>6, <1>7, <1>8 DEF Process

LEMMA FaultMetrics ==
  ASSUME Local, MetricsInv, NEW s \in Slot, Fault(s)
  PROVE  MetricsInv'
<1>1. Become(s, Idle) /\ Finish(s) /\ aborted' = aborted + 1 /\ UNCHANGED <<started, retried>>
  BY DEF Fault, Abort
<1>2. PICK old \in SlotState : old = slot[s]
  BY DEF Local, Shape
<1>3. Sound(old) /\ started \in Nat /\ retried \in Nat
  BY <1>2 DEF Local, Shape
<1>4. /\ Total(finished') = Total(finished) + Bit(Measures(old))
      /\ Retried(finished') = Retried(finished) + Bit(Measures(old) /\ Retries(old.status))
  BY <1>1, <1>2, FinishAdds DEF Local
<1>5. PICK m \in {0, 1}, r \in {0, 1} :
         m = Bit(Measures(old)) /\ r = Bit(Measures(old) /\ Retries(old.status))
  BY DEF Bit
<1>6. Tells(old) => Measures(old) /\ Retries(old.status)
  BY <1>3 DEF Sound, Measures, Tells, Retries
<1>7. started' = started + 0 /\ retried' = retried + 0
  BY <1>1, <1>3
<1>8. /\ m + Bit(Measures(Idle)) = Bit(Measures(old)) + 0
      /\ 0 + Bit(Tells(old)) <= r + Bit(Tells(Idle))
  BY <1>5, <1>6, IdleCounts DEF Bit
<1> QED BY <1>1, <1>2, <1>4, <1>5, <1>7, <1>8, IdleSound, OneSlotMetrics

\* Every step does.
LEMMA MetricsStep == Local /\ MetricsInv /\ [Next]_vars => MetricsInv'
<1> SUFFICES ASSUME Local, MetricsInv, [Next]_vars PROVE MetricsInv'
  OBVIOUS
<1>1. ASSUME NEW s \in Slot, NEW j \in Job, Claim(s, j) PROVE MetricsInv'
  <2>1. PICK x \in SlotState : Sound(x) /\ Become(s, x) /\ x.pc = "claimed"
    BY <1>1, ClaimIs
  <2>2. slot[s].pc = "idle" /\ UNCHANGED <<metrics, aborted>>
    BY <1>1 DEF Claim
  <2>3. ~Measures(x) /\ ~Measures(slot[s]) /\ ~Tells(x) /\ ~Tells(slot[s])
    BY <2>1, <2>2 DEF Measures, Tells
  <2> QED BY <2>1, <2>2, <2>3, MetricsSame
<1>2. ASSUME NEW s \in Slot, Process(s) \/ Fault(s) PROVE MetricsInv'
  BY <1>2, ProcessMetrics, FaultMetrics
<1>3. ASSUME UNCHANGED <<slot, metrics, aborted>> PROVE MetricsInv'
  BY <1>3 DEF MetricsInv, metrics, Measuring, Measured, TellingRetry, Tells
<1>4. ASSUME NEW j \in Job, Cancel(j) \/ BecomesDue(j) PROVE MetricsInv'
  BY <1>3, <1>4 DEF Cancel, BecomesDue
<1>5. CASE UNCHANGED vars
  BY <1>3, <1>5 DEF vars
<1> QED BY <1>1, <1>2, <1>4, <1>5 DEF Next

\* The counters of the metrics add up, however the attempts interleave, fail
\* and are cancelled (WorkerMetrics, Worker._process).
THEOREM MetricsExact == Spec => []MetricsAddUp
<1>1. Init => MetricsInv
  <2> SUFFICES ASSUME Init PROVE MetricsInv
    OBVIOUS
  <2>1. Measuring = {} /\ TellingRetry = {}
    BY DEF Init, Measuring, Measured, TellingRetry, Tells, Idle
  <2>2. Cardinality(Measuring) = 0 /\ Cardinality(TellingRetry) = 0
    BY <2>1, FS_EmptySet
  <2>3. \A status \in JobStatus : finished[status] = 0
    BY DEF Init
  <2>4. Total(finished) = 0 /\ Retried(finished) = 0
    BY <2>3 DEF Total, Retried, JobStatus
  <2> QED BY <2>2, <2>4 DEF Init, MetricsInv
<1>2. MetricsInv => MetricsAddUp
  BY DEF MetricsInv, MetricsAddUp, Measuring, TellingRetry, Tells, Retried
<1> QED BY LocalInit, LocalStep, <1>1, MetricsStep, <1>2, PTL DEF Spec

-----------------------------------------------------------------------------
(* Counting the calls of the hooks.                                         *)

\* The outcomes of a job that have been told.
Outcomes(j) == told[j]["on_retry"] + Ended(j)

\* A job has no more retries told than stored, counting those being told; an
\* outcome has been told of every attempt that was started and is not under
\* way, but for those that were aborted.
CountOf(j) ==
    /\ told[j]["on_retry"] + Cardinality(TellsRetry(j)) <= stored[j].retries
    /\ j \notin Unknown =>
          /\ Outcomes(j) + Cardinality(Under(j)) <= told[j]["on_start"]
          /\ told[j]["on_start"] <= Outcomes(j) + Cardinality(Under(j)) + aborted

HookCounts == \A j \in Job : CountOf(j)

LEMMA ToldType ==
  ASSUME Local, NEW j \in Job
  PROVE  /\ told[j]["on_start"] \in Nat /\ told[j]["on_retry"] \in Nat
         /\ Ended(j) \in Nat /\ Outcomes(j) \in Nat
BY DEF Local, Shape, Event, Ended, Outcomes

\* Whether an attempt of the job is under way, and whether its retry is told.
MeasuresOf(x, j) == Bit(x.job = j /\ Measures(x))
TellsOf(x, j) == Bit(x.job = j /\ Tells(x))

\* A step of a slot changes the calls as it changes what is counted: n is the
\* start it tells, r the retry and e the end.
LEMMA OneSlotHooks ==
  ASSUME Local, Local', NEW j \in Job, CountOf(j),
         NEW s \in Slot, NEW x \in SlotState, Sound(x), Become(s, x),
         NEW n \in {0, 1}, NEW r \in {0, 1}, NEW e \in {0, 1},
         told'[j]["on_start"] = told[j]["on_start"] + n,
         told'[j]["on_retry"] = told[j]["on_retry"] + r,
         Ended(j)' = Ended(j) + e,
         stored[j].retries + r + TellsOf(x, j) <= stored'[j].retries + TellsOf(slot[s], j),
         j \notin Unknown => r + e + MeasuresOf(x, j) <= n + MeasuresOf(slot[s], j),
         j \notin Unknown =>
            n + MeasuresOf(slot[s], j) + aborted <= r + e + MeasuresOf(x, j) + aborted'
  PROVE  CountOf(j)'
<1>0. PICK y \in {0, 1}, z \in {0, 1}, v \in {0, 1}, w \in {0, 1} :
         /\ y = MeasuresOf(slot[s], j) /\ z = MeasuresOf(x, j)
         /\ v = TellsOf(slot[s], j) /\ w = TellsOf(x, j)
  BY DEF MeasuresOf, TellsOf, Bit
<1>1. /\ Cardinality(Under(j)) \in Nat /\ Cardinality(Under(j))' \in Nat
      /\ Cardinality(Under(j))' + y = Cardinality(Under(j)) + z
      /\ Cardinality(TellsRetry(j)) \in Nat /\ Cardinality(TellsRetry(j))' \in Nat
      /\ Cardinality(TellsRetry(j))' + v = Cardinality(TellsRetry(j)) + w
  BY <1>0, JobCountsChange DEF MeasuresOf, TellsOf
<1>2. PICK a \in Nat, b \in Nat, c \in Nat, d \in Nat :
         /\ a = Cardinality(Under(j)) /\ b = Cardinality(Under(j))'
         /\ c = Cardinality(TellsRetry(j)) /\ d = Cardinality(TellsRetry(j))'
  BY <1>1
<1>3. PICK st \in Nat, rt \in Nat, en \in Nat :
         st = told[j]["on_start"] /\ rt = told[j]["on_retry"] /\ en = Ended(j)
  BY ToldType
<1>4. PICK p \in Nat, q \in Nat : p = stored[j].retries /\ q = stored'[j].retries
  BY DEF Local, Shape, Row
<1>5. b + y = a + z /\ d + v = c + w /\ p + r + w <= q + v
  BY <1>0, <1>1, <1>2, <1>4
<1>6. (rt + r) + d <= q
  <2>1. rt + c <= p
    BY <1>2, <1>3, <1>4 DEF CountOf
  <2> QED BY <1>5, <2>1
<1>7. ASSUME j \notin Unknown
      PROVE  /\ (rt + r) + (en + e) + b <= st + n
             /\ st + n <= (rt + r) + (en + e) + b + aborted'
  <2>1. rt + en + a <= st /\ st <= rt + en + a + aborted
    BY <1>2, <1>3, <1>7 DEF CountOf, Outcomes
  <2>2. r + e + z <= n + y
    BY <1>0, <1>7
  <2>3. (rt + r) + (en + e) + b <= st + n
    BY <1>5, <2>1, <2>2
  <2>4. aborted \in Nat /\ aborted' \in Nat /\ n + y + aborted <= r + e + z + aborted'
    BY <1>0, <1>7 DEF Local, Shape
  <2>5. st + n <= (rt + r) + (en + e) + b + aborted'
    BY <1>5, <2>1, <2>4
  <2> QED BY <2>3, <2>5
<1>8. /\ told'[j]["on_start"] = st + n /\ told'[j]["on_retry"] = rt + r
      /\ Ended(j)' = en + e
  BY <1>3
<1>9. (told[j]["on_retry"] + Cardinality(TellsRetry(j)) <= stored[j].retries)'
  BY <1>2, <1>4, <1>6, <1>8
<1>10. (Outcomes(j))' = (rt + r) + (en + e)
  BY <1>8 DEF Outcomes
<1> QED BY <1>2, <1>7, <1>8, <1>9, <1>10 DEF CountOf

\* A write counts the attempt that has failed, if another is to follow.
LEMMA WriteCounts ==
  ASSUME Local, Owned, NEW s \in Slot, slot[s].pc \in {"start", "store"},
         Write(slot[s].job, slot[s]), NEW j \in Job
  PROVE  stored'[j].retries =
            stored[j].retries + Bit(slot[s].job = j /\ Again(slot[s]))
<1>1. /\ Active(s, slot[s].job) /\ slot[s].job \in Job
      /\ stored'[slot[s].job] = RowOf(slot[s])
      /\ \A k \in Job : ~Active(s, k) => stored'[k] = stored[k]
  BY WriteIs
<1>2. stored[j].retries \in Nat
  BY DEF Local, Shape, Row
<1>3. CASE slot[s].job = j
  <2>1. stored'[j].retries = slot[s].retries
    BY <1>1, <1>3, RowFields
  <2>2. slot[s].retries = IF Again(slot[s]) THEN stored[j].retries + 1 ELSE stored[j].retries
    BY <1>1, <1>3 DEF Owned, Held
  <2> QED BY <1>2, <1>3, <2>1, <2>2 DEF Bit
<1>4. CASE slot[s].job # j
  <2>1. ~Active(s, j)
    BY <1>4 DEF Active
  <2> QED BY <1>1, <1>2, <1>4, <2>1 DEF Bit
<1> QED BY <1>3, <1>4

LEMMA OneOrNone ==
  ASSUME NEW x, NEW j
  PROVE  MeasuresOf(x, j) \in {0, 1} /\ TellsOf(x, j) \in {0, 1}
BY DEF MeasuresOf, TellsOf, Bit

LEMMA NoneIdle ==
  ASSUME NEW j PROVE MeasuresOf(Idle, j) = 0 /\ TellsOf(Idle, j) = 0
BY IdleCounts DEF MeasuresOf, TellsOf, Bit

\* Steps that tell nothing of the job, abort nothing and leave the slot's
\* attempt as it is counted.
LEMMA HooksSame ==
  ASSUME Local, Local', NEW j \in Job, CountOf(j),
         NEW s \in Slot, NEW x \in SlotState, Sound(x), Become(s, x),
         MeasuresOf(x, j) = MeasuresOf(slot[s], j),
         stored[j].retries + TellsOf(x, j) <= stored'[j].retries + TellsOf(slot[s], j),
         told' = told, aborted' = aborted
  PROVE  CountOf(j)'
<1>1. /\ told'[j]["on_start"] = told[j]["on_start"] + 0
      /\ told'[j]["on_retry"] = told[j]["on_retry"] + 0
      /\ Ended(j)' = Ended(j) + 0
  BY ToldType DEF Ended
<1>2. stored[j].retries + 0 + TellsOf(x, j) <= stored'[j].retries + TellsOf(slot[s], j)
  BY DEF Local, Shape, Row
<1>3. /\ 0 + 0 + MeasuresOf(x, j) <= 0 + MeasuresOf(slot[s], j)
      /\ 0 + MeasuresOf(slot[s], j) + aborted <= 0 + 0 + MeasuresOf(x, j) + aborted'
  BY OneOrNone DEF Local, Shape
<1> QED BY <1>1, <1>2, <1>3, OneSlotHooks

\* An attempt that is aborted.
LEMMA HooksAbort ==
  ASSUME Local, Local', NEW j \in Job, CountOf(j), NEW s \in Slot, Become(s, Idle),
         told' = told, aborted' = aborted + 1, stored[j].retries <= stored'[j].retries
  PROVE  CountOf(j)'
<1>1. /\ told'[j]["on_start"] = told[j]["on_start"] + 0
      /\ told'[j]["on_retry"] = told[j]["on_retry"] + 0
      /\ Ended(j)' = Ended(j) + 0
  BY ToldType DEF Ended
<1>2. stored[j].retries + 0 + TellsOf(Idle, j) <= stored'[j].retries + TellsOf(slot[s], j)
  <2>1. PICK v \in {0, 1} : v = TellsOf(slot[s], j)
    BY OneOrNone
  <2>2. PICK p \in Nat, q \in Nat : p = stored[j].retries /\ q = stored'[j].retries
    BY DEF Local, Shape, Row
  <2>3. p + 0 + 0 <= q + v
    BY <2>2
  <2> QED BY <2>1, <2>2, <2>3, NoneIdle
<1>3. /\ 0 + 0 + MeasuresOf(Idle, j) <= 0 + MeasuresOf(slot[s], j)
      /\ 0 + MeasuresOf(slot[s], j) + aborted <= 0 + 0 + MeasuresOf(Idle, j) + aborted'
  <2>1. PICK y \in {0, 1} : y = MeasuresOf(slot[s], j)
    BY OneOrNone
  <2> QED BY <2>1, NoneIdle DEF Local, Shape
<1> QED BY <1>1, <1>2, <1>3, IdleSound, OneSlotHooks

\* The hooks of a start are called.
LEMMA StartCounts ==
  ASSUME Local, Local', NEW j \in Job, CountOf(j), NEW s \in Slot, TellStart(s)
  PROVE  CountOf(j)'
<1>1. PICK x \in SlotState : Become(s, x) /\ Advances(slot[s], x) /\ x.pc = "invoke"
  BY TellStartIs
<1>2. slot[s].pc = "on_start" /\ Emit(slot[s].job, "on_start") /\ aborted' = aborted
        /\ stored' = stored
  BY DEF TellStart
<1>3. x.job = slot[s].job /\ Sound(x) /\ slot[s].job \in Job
  BY <1>1, <1>2 DEF Advances, Local, Sound
<1>4. PICK n \in {0, 1} : n = Bit(slot[s].job = j)
  BY DEF Bit
<1>5. /\ MeasuresOf(slot[s], j) = 0 /\ MeasuresOf(x, j) = n
      /\ TellsOf(slot[s], j) = 0 /\ TellsOf(x, j) = 0
  <2>1. ~Measures(slot[s]) /\ Measures(x) /\ ~Tells(slot[s]) /\ ~Tells(x)
    BY <1>1, <1>2, <1>3 DEF Measures, Tells, Sound
  <2> QED BY <1>3, <1>4, <2>1 DEF MeasuresOf, TellsOf, Bit
<1>6. /\ told'[slot[s].job]["on_start"] = told[slot[s].job]["on_start"] + 1
      /\ \A e \in Event \ {"on_start"} : told'[slot[s].job][e] = told[slot[s].job][e]
      /\ \A k \in Job \ {slot[s].job} : told'[k] = told[k]
  BY <1>2, <1>3, EmitType DEF Local, Event
<1>7. told'[j]["on_start"] = told[j]["on_start"] + n
  BY <1>3, <1>4, <1>6, ToldType DEF Bit
<1>8. \A e \in Event \ {"on_start"} : told'[j][e] = told[j][e]
  BY <1>6
<1>9. told'[j]["on_retry"] = told[j]["on_retry"] + 0 /\ Ended(j)' = Ended(j) + 0
  BY <1>8, ToldType DEF Event, Ended
<1>10. stored[j].retries + 0 + TellsOf(x, j) <= stored'[j].retries + TellsOf(slot[s], j)
  BY <1>2, <1>5 DEF Local, Shape, Row
<1>11. /\ 0 + 0 + MeasuresOf(x, j) <= n + MeasuresOf(slot[s], j)
       /\ n + MeasuresOf(slot[s], j) + aborted <= 0 + 0 + MeasuresOf(x, j) + aborted'
  BY <1>2, <1>5 DEF Local, Shape
<1> QED BY <1>1, <1>3, <1>7, <1>9, <1>10, <1>11, OneSlotHooks

\* The outcome is stored, and about to be told.
LEMMA OutcomeCounts ==
  ASSUME Local, Local', Owned, NEW j \in Job, CountOf(j), NEW s \in Slot, StoreOutcome(s)
  PROVE  CountOf(j)'
<1>1. PICK x \in SlotState :
         /\ Become(s, x) /\ Sound(x) /\ x.job = slot[s].job /\ x.status = slot[s].status
         /\ x.pc = "tell"
  BY StoreIs DEF StoreOutcome
<1>2. slot[s].pc = "store" /\ Write(slot[s].job, slot[s]) /\ told' = told /\ aborted' = aborted
  BY DEF StoreOutcome
<1>3. (Measures(x) <=> Measures(slot[s])) /\ ~Tells(slot[s])
        /\ (Tells(x) <=> Again(slot[s]))
  BY <1>1, <1>2 DEF Measures, Tells, Again
<1>4. MeasuresOf(x, j) = MeasuresOf(slot[s], j)
  BY <1>1, <1>3 DEF MeasuresOf
<1>5. TellsOf(slot[s], j) = 0 /\ TellsOf(x, j) = Bit(slot[s].job = j /\ Again(slot[s]))
  BY <1>1, <1>3 DEF TellsOf, Bit
<1>6. stored'[j].retries = stored[j].retries + TellsOf(x, j)
  BY <1>2, <1>5, WriteCounts
<1>7. stored[j].retries + TellsOf(x, j) <= stored'[j].retries + TellsOf(slot[s], j)
  BY <1>5, <1>6, OneOrNone DEF Local, Shape, Row
<1> QED BY <1>1, <1>2, <1>4, <1>7, HooksSame

\* The hooks of the outcome are called.
LEMMA TellCounts ==
  ASSUME Local, Local', NEW j \in Job, CountOf(j), NEW s \in Slot, TellOutcome(s)
  PROVE  CountOf(j)'
<1>1. PICK old \in SlotState : old = slot[s]
  BY DEF Local, Shape
<1>2. Sound(old) /\ old.pc = "tell" /\ old.job \in Job
        /\ old.status \in FinalStatus \cup {"retrying", "waiting"}
  BY <1>1 DEF Local, TellOutcome, Sound
<1>3. PICK event \in Event : event = OutcomeEvent(old.status)
  BY <1>2, EventOf
<1>4. Emit(old.job, event) /\ Become(s, Idle) /\ aborted' = aborted /\ stored' = stored
  BY <1>1, <1>3 DEF TellOutcome
<1>5. /\ told'[old.job][event] = told[old.job][event] + 1
      /\ \A e \in Event \ {event} : told'[old.job][e] = told[old.job][e]
      /\ \A k \in Job \ {old.job} : told'[k] = told[k]
  BY <1>2, <1>4, EmitType DEF Local
<1>6. /\ Retries(old.status) <=> event = "on_retry"
      /\ ~Retries(old.status) <=> event \in Final
      /\ event # "on_start"
  BY <1>2, <1>3, EventOf DEF Final, FinalStatus, OutcomeEvent
<1>7. PICK r \in {0, 1}, e \in {0, 1} :
         r = Bit(old.job = j /\ event = "on_retry") /\ e = Bit(old.job = j /\ event \in Final)
  BY DEF Bit
<1>8. TellsOf(slot[s], j) = r /\ (j \notin Unknown => MeasuresOf(slot[s], j) = r + e)
  BY <1>1, <1>2, <1>6, <1>7 DEF Tells, Measures, TellsOf, MeasuresOf, Bit
<1>9. \A f \in Event : told'[j][f] = told[j][f] + Bit(old.job = j /\ f = event)
  <2>1. \A f \in Event : told[j][f] \in Nat
    BY DEF Local, Shape
  <2> QED BY <1>5, <2>1 DEF Bit
<1>10. /\ told'[j]["on_start"] = told[j]["on_start"] + 0
       /\ told'[j]["on_retry"] = told[j]["on_retry"] + r
  BY <1>6, <1>7, <1>9 DEF Event, Bit
<1>11. Ended(j)' = Ended(j) + e
  <2>1. PICK a \in {0, 1}, b \in {0, 1}, c \in {0, 1} :
           /\ a = Bit(old.job = j /\ "on_success" = event)
           /\ b = Bit(old.job = j /\ "on_failure" = event)
           /\ c = Bit(old.job = j /\ "on_dead" = event)
    BY DEF Bit
  <2>2. a + b + c = e
    BY <1>7, <2>1 DEF Bit, Final
  <2>3. PICK p \in Nat, q \in Nat, t \in Nat :
           /\ p = told[j]["on_success"] /\ q = told[j]["on_failure"] /\ t = told[j]["on_dead"]
    BY DEF Local, Shape, Event
  <2>4. /\ told'[j]["on_success"] = p + a /\ told'[j]["on_failure"] = q + b
        /\ told'[j]["on_dead"] = t + c
    BY <1>9, <2>1, <2>3 DEF Event
  <2>5. (p + a) + (q + b) + (t + c) = (p + q + t) + e
    BY <2>2
  <2>6. Ended(j) = p + q + t /\ Ended(j)' = (p + a) + (q + b) + (t + c)
    BY <2>3, <2>4 DEF Ended
  <2> QED BY <2>5, <2>6
<1>12. stored[j].retries + r + TellsOf(Idle, j) <= stored'[j].retries + TellsOf(slot[s], j)
  BY <1>4, <1>8, NoneIdle DEF Local, Shape, Row
<1>13. j \notin Unknown =>
         /\ r + e + MeasuresOf(Idle, j) <= 0 + MeasuresOf(slot[s], j)
         /\ 0 + MeasuresOf(slot[s], j) + aborted <= r + e + MeasuresOf(Idle, j) + aborted'
  BY <1>4, <1>8, NoneIdle DEF Local, Shape
<1> QED BY <1>4, <1>10, <1>11, <1>12, <1>13, IdleSound, OneSlotHooks

\* A step that neither stores nor tells, and leaves the attempt as it is measured.
LEMMA HooksMove ==
  ASSUME Local, Local', NEW j \in Job, CountOf(j),
         NEW s \in Slot, NEW x \in SlotState, Sound(x), Become(s, x),
         Measures(x) <=> Measures(slot[s]), x.job = slot[s].job \/ ~Measures(x),
         ~Tells(x), ~Tells(slot[s]),
         told' = told, aborted' = aborted, stored[j].retries <= stored'[j].retries
  PROVE  CountOf(j)'
<1>1. MeasuresOf(x, j) = MeasuresOf(slot[s], j)
  BY DEF MeasuresOf, Bit
<1>2. TellsOf(x, j) = 0 /\ TellsOf(slot[s], j) = 0
  BY DEF TellsOf, Bit
<1>3. stored[j].retries + TellsOf(x, j) <= stored'[j].retries + TellsOf(slot[s], j)
  BY <1>2 DEF Local, Shape, Row
<1> QED BY <1>1, <1>3, HooksSame

\* Every step of _process counts the calls of the hooks right.
LEMMA ProcessHooks ==
  ASSUME Local, Local', Owned, NEW j \in Job, CountOf(j), NEW s \in Slot, Process(s)
  PROVE  CountOf(j)'
<1>i. Idle \in SlotState /\ Sound(Idle) /\ ~Measures(Idle) /\ ~Tells(Idle)
  BY IdleSound, IdleCounts
<1>n. stored[j].retries \in Nat
  BY DEF Local, Shape, Row
<1>m. Sound(slot[s])
  BY DEF Local
<1>1. CASE RejectUnknown(s)
  <2>1. PICK x \in SlotState : Become(s, x) /\ Advances(slot[s], x) /\ x.pc = "store"
    BY <1>1, RejectIs
  <2>2. slot[s].pc = "claimed" /\ slot[s].job \in Unknown /\ stored' = stored /\ told' = told
          /\ aborted' = aborted
    BY <1>1 DEF RejectUnknown
  <2>3. x.job = slot[s].job /\ Sound(x)
    BY <2>1 DEF Advances
  <2>4. ~Measures(slot[s]) /\ ~Measures(x) /\ ~Tells(slot[s]) /\ ~Tells(x)
    BY <2>1, <2>2, <2>3 DEF Measures, Tells
  <2>5. stored[j].retries <= stored'[j].retries
    BY <1>n, <2>2
  <2> QED BY <2>1, <2>2, <2>3, <2>4, <2>5, HooksMove
<1>2. CASE CheckCancelled(s)
  <2>1. stored' = stored /\ told' = told /\ aborted' = aborted
          /\ ~Measures(slot[s]) /\ ~Tells(slot[s])
    BY <1>2 DEF CheckCancelled, Measures, Tells
  <2>2. stored[j].retries <= stored'[j].retries
    BY <1>n, <2>1
  <2>3. CASE Become(s, Idle)
    BY <1>i, <2>1, <2>2, <2>3, HooksMove
  <2>4. ASSUME NEW x \in SlotState, Become(s, x), Advances(slot[s], x), x.pc = "start"
        PROVE  CountOf(j)'
    <3>1. ~Measures(x) /\ ~Tells(x) /\ Sound(x)
      BY <2>4 DEF Measures, Tells, Advances
    <3> QED BY <2>1, <2>2, <2>4, <3>1, HooksMove
  <2> QED BY <1>2, <2>3, <2>4, CheckIs
<1>3. CASE StoreRunning(s)
  <2>1. PICK x \in SlotState : Become(s, x) /\ Sound(x) /\ x.pc = "on_start"
    BY <1>3, StoreIs DEF StoreRunning
  <2>2. slot[s].pc = "start" /\ Write(slot[s].job, slot[s]) /\ told' = told /\ aborted' = aborted
    BY <1>3 DEF StoreRunning
  <2>3. ~Measures(slot[s]) /\ ~Measures(x) /\ ~Tells(slot[s]) /\ ~Tells(x)
    BY <2>1, <2>2 DEF Measures, Tells
  <2>4. stored[j].retries <= stored'[j].retries
    BY <1>n, <2>2, WriteCounts DEF Bit
  <2> QED BY <2>1, <2>2, <2>3, <2>4, HooksMove
<1>4. CASE TellStart(s)
  BY <1>4, StartCounts
<1>5. CASE Succeed(s) \/ GiveUp(s) \/ ScheduleRetry(s)
  <2>1. PICK x \in SlotState : Become(s, x) /\ Advances(slot[s], x) /\ x.pc = "store"
    BY <1>5, EndIs, RetryIs
  <2>2. slot[s].pc = "invoke" /\ stored' = stored /\ told' = told /\ aborted' = aborted
    BY <1>5 DEF Succeed, GiveUp, ScheduleRetry
  <2>3. Sound(x) /\ x.job = slot[s].job
    BY <2>1 DEF Advances
  <2>4. Measures(slot[s]) /\ Measures(x) /\ ~Tells(slot[s]) /\ ~Tells(x)
    BY <1>m, <2>1, <2>2, <2>3 DEF Measures, Tells, Sound
  <2>5. stored[j].retries <= stored'[j].retries
    BY <1>n, <2>2
  <2> QED BY <2>1, <2>2, <2>3, <2>4, <2>5, HooksMove
<1>6. CASE StoreOutcome(s)
  BY <1>6, OutcomeCounts
<1>7. CASE TellOutcome(s)
  BY <1>7, TellCounts
<1>8. CASE RetryOverflows(s)
  <2>1. Become(s, Idle) /\ told' = told /\ aborted' = aborted + 1 /\ stored' = stored
    BY <1>8 DEF RetryOverflows
  <2>2. stored[j].retries <= stored'[j].retries
    BY <1>n, <2>1
  <2> QED BY <2>1, <2>2, HooksAbort
<1> QED BY <1>1, <1>2, <1>3, <1>4, <1>5, <1>6, <1>7, <1>8 DEF Process

\* Every step does.
LEMMA HooksStep == Local /\ Local' /\ Owned /\ HookCounts /\ [Next]_vars => HookCounts'
<1> SUFFICES ASSUME Local, Local', Owned, HookCounts, [Next]_vars, NEW j \in Job
             PROVE  CountOf(j)'
  BY DEF HookCounts
<1>c. CountOf(j)
  BY DEF HookCounts
<1>n. stored[j].retries \in Nat
  BY DEF Local, Shape, Row
<1>1. ASSUME NEW s \in Slot, NEW k \in Job, Claim(s, k) PROVE CountOf(j)'
  <2>1. PICK x \in SlotState, row \in Row :
           /\ Sound(x) /\ Become(s, x) /\ x.pc = "claimed"
           /\ SoundRow(k, row) /\ stored' = [stored EXCEPT ![k] = row]
           /\ row.retries = stored[k].retries
    BY <1>1, ClaimIs
  <2>2. slot[s].pc = "idle" /\ told' = told /\ aborted' = aborted
    BY <1>1 DEF Claim
  <2>3. ~Measures(x) /\ ~Measures(slot[s]) /\ ~Tells(x) /\ ~Tells(slot[s])
    BY <2>1, <2>2 DEF Measures, Tells
  <2>4. stored'[k] = row /\ \A i \in Job \ {k} : stored'[i] = stored[i]
    BY <2>1, StoreSound
  <2>5. stored[j].retries <= stored'[j].retries
    BY <1>n, <2>1, <2>4
  <2> QED BY <1>c, <2>1, <2>2, <2>3, <2>5, HooksMove
<1>2. ASSUME NEW s \in Slot, Process(s) PROVE CountOf(j)'
  BY <1>c, <1>2, ProcessHooks
<1>3. ASSUME NEW s \in Slot, Fault(s) PROVE CountOf(j)'
  <2>1. Become(s, Idle) /\ told' = told /\ aborted' = aborted + 1
    BY <1>3 DEF Fault, Abort
  <2>2. stored[j].retries <= stored'[j].retries
    <3>1. CASE stored' = stored
      BY <1>n, <3>1
    <3>2. CASE slot[s].pc \in {"start", "store"} /\ Write(slot[s].job, slot[s])
      BY <1>n, <3>2, WriteCounts DEF Bit
    <3> QED BY <1>3, <3>1, <3>2, FaultIs
  <2> QED BY <1>c, <2>1, <2>2, HooksAbort
<1>4. ASSUME UNCHANGED <<slot, told, aborted>>, stored'[j].retries = stored[j].retries
      PROVE  CountOf(j)'
  BY <1>c, <1>4 DEF CountOf, Outcomes, Ended, TellsRetry, Tells, Under, Measured
<1>5. ASSUME NEW k \in Job, Cancel(k) \/ BecomesDue(k) PROVE CountOf(j)'
  <2>1. PICK row \in Row : /\ SoundRow(k, row) /\ stored' = [stored EXCEPT ![k] = row]
                           /\ row.retries = stored[k].retries
    BY <1>5, CancelIs
  <2>2. stored'[k] = row /\ \A i \in Job \ {k} : stored'[i] = stored[i]
    BY <2>1, StoreSound
  <2>3. stored'[j].retries = stored[j].retries
    BY <2>1, <2>2
  <2>4. UNCHANGED <<slot, told, aborted>>
    BY <1>5 DEF Cancel, BecomesDue
  <2> QED BY <1>4, <2>3, <2>4
<1>6. CASE UNCHANGED vars
  BY <1>4, <1>6 DEF vars
<1> QED BY <1>1, <1>2, <1>3, <1>5, <1>6 DEF Next

LEMMA HooksInit == Init => HookCounts
<1> SUFFICES ASSUME Init, NEW j \in Job PROVE CountOf(j)
  BY DEF HookCounts
<1>1. Under(j) = {} /\ TellsRetry(j) = {}
  BY DEF Init, Under, Measured, TellsRetry, Tells, Idle
<1>2. Cardinality(Under(j)) = 0 /\ Cardinality(TellsRetry(j)) = 0
  BY <1>1, FS_EmptySet
<1>3. \A e \in Event : told[j][e] = 0
  BY DEF Init
<1>4. told[j]["on_start"] = 0 /\ told[j]["on_retry"] = 0 /\ Ended(j) = 0
  BY <1>3 DEF Ended, Event
<1>5. Outcomes(j) = 0
  BY <1>4 DEF Outcomes
<1>6. stored[j].retries = 0 /\ aborted = 0
  BY DEF Init
<1> QED BY <1>2, <1>4, <1>5, <1>6 DEF CountOf

\* A job is told at most one final outcome, the stored one and the one its
\* dead_letter_queue calls for, no more retries than it had, and an outcome for
\* every attempt that was started (HookRegistry.emit, Worker._process).
THEOREM HooksTrue == Spec => []HooksTellTheTruth
<1>1. ASSUME Local, Truth, HookCounts, NEW j \in Job
      PROVE  /\ Ended(j) <= 1
             /\ \A e \in Final : told[j][e] = 1 => stored[j].status = Outcome[e]
             /\ told[j]["on_dead"] = 1 => j \in DeadLettered
             /\ told[j]["on_failure"] = 1 => j \in Unknown \/ j \notin DeadLettered
             /\ told[j]["on_retry"] <= stored[j].retries
             /\ LET under == Cardinality({s \in Slot : slot[s].job = j /\ Measured(s)})
                    ends == told[j]["on_retry"] + Ended(j) + under
                IN  j \notin Unknown => /\ ends <= told[j]["on_start"]
                                        /\ told[j]["on_start"] <= ends + aborted
  <2>1. TruthOf(j) /\ CountOf(j)
    BY <1>1 DEF Truth, HookCounts
  <2>2. \A e \in Final : told[j][e] # 0 => told[j][e] = 1 /\ stored[j].status = Outcome[e]
    BY <2>1 DEF TruthOf
  <2>3. \A e \in Final, f \in Final : told[j][e] # 0 /\ told[j][f] # 0 => e = f
    <3>1. \A e \in Final, f \in Final : Outcome[e] = Outcome[f] => e = f
      BY DEF Final, Outcome
    <3> QED BY <2>2, <3>1
  <2>4. Ended(j) <= 1
    <3>1. PICK p \in Nat, q \in Nat, t \in Nat :
             /\ p = told[j]["on_success"] /\ q = told[j]["on_failure"] /\ t = told[j]["on_dead"]
      BY <1>1 DEF Local, Shape, Event
    <3>2. (p = 0 \/ p = 1) /\ (q = 0 \/ q = 1) /\ (t = 0 \/ t = 1)
      BY <2>2, <3>1 DEF Final
    <3>3. (p = 0 \/ q = 0) /\ (p = 0 \/ t = 0) /\ (q = 0 \/ t = 0)
      BY <2>3, <3>1 DEF Final
    <3>4. p + q + t <= 1
      BY <3>2, <3>3
    <3> QED BY <3>1, <3>4 DEF Ended
  <2>5. told[j]["on_retry"] <= stored[j].retries
    <3>1. TellsRetry(j) \subseteq Slot
      BY DEF TellsRetry
    <3>2. Cardinality(TellsRetry(j)) \in Nat
      BY <3>1, SetsAssumption, FS_Subset, FS_CardinalityType
    <3>3. told[j]["on_retry"] \in Nat /\ stored[j].retries \in Nat
      BY <1>1 DEF Local, Shape, Event, Row
    <3> QED BY <2>1, <3>2, <3>3 DEF CountOf
  <2>6. j \notin Unknown =>
          /\ told[j]["on_retry"] + Ended(j) + Cardinality(Under(j)) <= told[j]["on_start"]
          /\ told[j]["on_start"] <= told[j]["on_retry"] + Ended(j) + Cardinality(Under(j)) + aborted
    BY <2>1 DEF CountOf, Outcomes
  <2>7. told[j]["on_dead"] = 1 => j \in DeadLettered
    BY <2>1 DEF TruthOf
  <2>8. told[j]["on_failure"] = 1 => j \in Unknown \/ j \notin DeadLettered
    BY <2>1 DEF TruthOf
  <2> QED BY <2>2, <2>4, <2>5, <2>6, <2>7, <2>8 DEF Under
<1>2. Local /\ Truth /\ HookCounts => HooksTellTheTruth
  BY <1>1 DEF HooksTellTheTruth
<1> QED BY LocalInit, LocalStep, OwnedInit, OwnedStep, TruthInit, TruthStep, HooksInit, HooksStep,
           <1>2, PTL DEF Spec
===============================================================================
