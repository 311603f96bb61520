------------------------------ MODULE CronFleet ------------------------------
(***************************************************************************)
(* Cron occurrences over a fleet of workers: the cron loop of every worker  *)
(* (worker.py, cron.py) and the expiring lock per occurrence that the       *)
(* broker holds (acquire_cron_lock of the four backends).                   *)
(*                                                                          *)
(* `now` is the broker's clock.  Each worker reads its own clock, which is  *)
(* Ahead[w] units ahead of the broker's (behind if negative), and may be    *)
(* late: its event loop can be busy between two looks at the schedule.      *)
(***************************************************************************)
EXTENDS Integers

CONSTANTS
    Worker,     \* the workers of the fleet
    Cron,       \* the registered crons, by name
    Occurs,     \* the timestamps at which each cron's expression fires
    Ahead,      \* by how much each worker's clock is ahead of the broker's
    TTL,        \* CRON_LOCK_TTL
    MaxAhead,   \* no clock is further ahead than this
    MaxLag,     \* no worker competes for an occurrence later than this after it
    MaxTime,    \* bound: the last instant of the instance
    MaxErrors   \* bound: lock calls that fail or are cut short

ASSUME OccursAssumption == Occurs \in [Cron -> SUBSET Nat]
ASSUME AheadAssumption == /\ MaxAhead \in Nat /\ MaxLag \in Nat
                          /\ Ahead \in [Worker -> -MaxLag .. MaxAhead]
ASSUME TTLAssumption == TTL \in Nat \ {0}
ASSUME BoundsAssumption == MaxTime \in Nat /\ MaxErrors \in Nat

VARIABLES
    now,        \* the broker's clock
    lock,       \* expiry of each occurrence's lock, 0 when there is none
    fired,      \* how many times each occurrence has been fired
    worker,     \* the state of each worker's cron loop
    errors      \* lock calls that failed or were cut short so far

vars == <<now, lock, fired, worker, errors>>

Occurrence == UNION {{c} \X Occurs[c] : c \in Cron}

\* sched: the next occurrence of each cron; first: the one it had when the
\* worker started; seen: the time read at the top of the loop; todo: the crons
\* of this pass still to look at; target: the cron whose lock it is acquiring,
\* and due its occurrence.
Off == [pc |-> "off"]
Loop == [pc : {"sleep", "tick", "acquire"}, sched : [Cron -> Nat], first : [Cron -> Nat],
         seen : Int, todo : SUBSET Cron, target : Cron, due : Nat]

Up(w) == worker[w].pc # "off"
Clock(w) == now + Ahead[w]

\* croniter's get_next: the first occurrence strictly after `base`.
NextRun(c, base, next) ==
    /\ next \in Occurs[c] /\ next > base
    /\ \A o \in Occurs[c] : o > base => next <= o

\* A lock that is granted to whoever asks.
MutNoLock(o) == TRUE

\* acquire_cron_lock: granted when no unexpired lock is held on the occurrence.
Free(o) == lock[o] <= now

\* Crons of the current pass that are due.
IsDue(w, c) == c \in worker[w].todo /\ worker[w].seen >= worker[w].sched[c]

-----------------------------------------------------------------------------

Init ==
    /\ now = 0
    /\ lock = [o \in Occurrence |-> 0]
    /\ fired = [o \in Occurrence |-> 0]
    /\ worker = [w \in Worker |-> Off]
    /\ errors = 0

\* The cron loop starts: every cron is scheduled at its next occurrence.
Boot(w, sched) ==
    /\ ~Up(w)
    /\ \A c \in Cron : NextRun(c, Clock(w), sched[c])
    /\ \E c \in Cron :
         worker' = [worker EXCEPT ![w] =
            [pc |-> "sleep", sched |-> sched, first |-> sched, seen |-> Clock(w), todo |-> {},
             target |-> c, due |-> sched[c]]]
    /\ UNCHANGED <<now, lock, fired, errors>>

\* The top of the loop: one reading of the clock serves the whole pass.
Wake(w) ==
    /\ worker[w].pc = "sleep"
    /\ worker' = [worker EXCEPT ![w] =
            [worker[w] EXCEPT !.pc = "tick", !.seen = Clock(w), !.todo = Cron]]
    /\ UNCHANGED <<now, lock, fired, errors>>

\* The new entry in the schedule, and the occurrence to compete for.
Schedule(w, c, next) ==
    /\ worker' = [worker EXCEPT ![w] =
            [worker[w] EXCEPT !.pc = "acquire", !.todo = worker[w].todo \ {c},
                              !.target = c, !.due = worker[w].sched[c],
                              !.sched = [worker[w].sched EXCEPT ![c] = next]]]
    /\ UNCHANGED <<now, lock, fired, errors>>

\* A schedule that starts again from the time of the pass.
MutDue(w, c, next) ==
    /\ worker[w].pc = "tick" /\ IsDue(w, c)
    /\ NextRun(c, worker[w].seen, next)
    /\ Schedule(w, c, next)

\* A due cron: its next run is scheduled before its lock is acquired.
Due(w, c, next) ==
    /\ worker[w].pc = "tick" /\ IsDue(w, c)
    /\ NextRun(c, worker[w].sched[c], next)
    /\ Schedule(w, c, next)

\* No due cron left: sleep until the next pass.
Rest(w) ==
    /\ worker[w].pc = "tick"
    /\ \A c \in Cron : ~IsDue(w, c)
    /\ worker' = [worker EXCEPT ![w] = [worker[w] EXCEPT !.pc = "sleep", !.todo = {}]]
    /\ UNCHANGED <<now, lock, fired, errors>>

Target(w) == <<worker[w].target, worker[w].due>>

\* The broker decides; a winner creates the cron task at once.
Acquire(w) ==
    /\ worker[w].pc = "acquire"
    /\ IF Free(Target(w))
       THEN /\ lock' = [lock EXCEPT ![Target(w)] = now + TTL]
            /\ fired' = [fired EXCEPT ![Target(w)] = fired[Target(w)] + 1]
       ELSE UNCHANGED <<lock, fired>>
    /\ worker' = [worker EXCEPT ![w] = [worker[w] EXCEPT !.pc = "tick"]]
    /\ UNCHANGED <<now, errors>>

\* The broker may have granted a lock whose answer never arrives.
GrantUnheard(o) == lock' \in {lock, [lock EXCEPT ![o] = IF Free(o) THEN now + TTL ELSE lock[o]]}

\* The call raises, before the broker granted the lock or after it, and the
\* occurrence is skipped; or the worker goes down during the call.
AcquireFails(w) ==
    /\ worker[w].pc = "acquire" /\ errors < MaxErrors
    /\ GrantUnheard(Target(w))
    /\ \E next \in {Off, [worker[w] EXCEPT !.pc = "tick"]} :
         worker' = [worker EXCEPT ![w] = next]
    /\ errors' = errors + 1
    /\ UNCHANGED <<now, fired>>

\* A loop that stops without forgetting its schedule.
MutStop(w) ==
    /\ Up(w)
    /\ worker' = [worker EXCEPT ![w].pc = "off"]
    /\ UNCHANGED <<now, lock, fired, errors>>

\* The worker shuts down or dies: run() cancels the loop wherever it is (when
\* that is in a lock call the broker has answered, see AcquireFails).
Stop(w) ==
    /\ Up(w)
    /\ worker' = [worker EXCEPT ![w] = Off]
    /\ UNCHANGED <<now, lock, fired, errors>>

\* purge deletes the expired locks: for Free, as if they had never been.
PurgeLocks ==
    /\ \E o \in Occurrence : lock[o] # 0 /\ Free(o)
    /\ lock' = [o \in Occurrence |-> IF Free(o) THEN 0 ELSE lock[o]]
    /\ UNCHANGED <<now, fired, worker, errors>>

\* An occurrence a worker has still to compete for.
Pending(w, c, o) ==
    /\ Up(w)
    /\ \/ o = worker[w].sched[c]
       \/ worker[w].pc = "acquire" /\ Target(w) = <<c, o>>

\* Time passes, but never so far that a worker would be later than MaxLag.
Tick ==
    /\ now < MaxTime
    /\ \A w \in Worker, o \in Occurrence : Pending(w, o[1], o[2]) => now < o[2] + MaxLag
    /\ now' = now + 1
    /\ UNCHANGED <<lock, fired, worker, errors>>

Next ==
    \/ \E w \in Worker :
         \/ \E sched \in [Cron -> UNION {Occurs[c] : c \in Cron}] : Boot(w, sched)
         \/ Wake(w)
         \/ \E c \in Cron : \E next \in Occurs[c] : Due(w, c, next)
         \/ Rest(w) \/ Acquire(w) \/ AcquireFails(w) \/ Stop(w)
    \/ PurgeLocks
    \/ Tick

Spec == Init /\ [][Next]_vars

-----------------------------------------------------------------------------

TypeOK ==
    /\ now \in Nat
    /\ lock \in [Occurrence -> Nat]
    /\ fired \in [Occurrence -> Nat]
    /\ worker \in [Worker -> Loop \cup {Off}]
    /\ errors \in Nat

\* "Each occurrence fires exactly once across the whole worker fleet", the
\* safety half: never twice, whatever workers start, stop, lag and disagree on
\* the time.  Needs MaxAhead + MaxLag < TTL.
AtMostOnce == \A o \in Occurrence : fired[o] <= 1

\* An occurrence worker w was up for and has gone past.
Past(w, o) ==
    /\ worker[w].first[o[1]] <= o[2] /\ o[2] < worker[w].sched[o[1]]
    /\ ~(worker[w].pc = "acquire" /\ Target(w) = o)

\* The other half: an occurrence that some worker was up for and has gone past
\* was fired by somebody, as long as no lock call failed or was cut short.
NoneMissed ==
    errors = 0 => \A w \in Worker : Up(w) => \A o \in Occurrence : Past(w, o) => fired[o] >= 1
===============================================================================
