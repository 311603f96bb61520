--------------------------- MODULE CronFleetProofs ---------------------------
(* What holds of the cron loop and its locks for every fleet, every set of    *)
(* crons, every skew of the clocks and every lag.                             *)
EXTENDS CronFleet, TLAPS

\* A lock must outlive the time the last worker may compete for its occurrence,
\* counted from the earliest time the first may.
LockOutlivesLag == MaxAhead + MaxLag < TTL

\* The schedule of a running worker holds occurrences only, and has not fallen
\* behind by more than MaxLag; what it competes for is not too early either.
Scheduled(w) ==
    /\ \A c \in Cron : /\ worker[w].sched[c] \in Occurs[c]
                       /\ now <= worker[w].sched[c] + MaxLag
    /\ worker[w].seen <= Clock(w)
    /\ worker[w].pc = "acquire" =>
         /\ worker[w].due \in Occurs[worker[w].target]
         /\ worker[w].due - MaxAhead <= now
         /\ now <= worker[w].due + MaxLag

\* The lock of a fired occurrence is held until nobody competes for it.
Closed(o) == \/ lock[o] >= o[2] - MaxAhead + TTL
             \/ now >= o[2] - MaxAhead + TTL

CronInv ==
    /\ TypeOK
    /\ \A w \in Worker : Up(w) => Scheduled(w)
    /\ \A o \in Occurrence : fired[o] >= 1 => Closed(o)
    /\ AtMostOnce

USE OccursAssumption, AheadAssumption, TTLAssumption, BoundsAssumption

-----------------------------------------------------------------------------

\* An occurrence is a pair of a cron and one of its timestamps.
LEMMA OccurrencePairs ==
    /\ \A c \in Cron, t \in Nat : <<c, t>> \in Occurrence <=> t \in Occurs[c]
    /\ \A o \in Occurrence : o[1] \in Cron /\ o[2] \in Occurs[o[1]] /\ o[2] \in Nat
<1>1. \A c \in Cron, t \in Nat : <<c, t>> \in Occurrence <=> t \in Occurs[c]
  BY DEF Occurrence
<1>2. \A o \in Occurrence : o[1] \in Cron /\ o[2] \in Occurs[o[1]] /\ o[2] \in Nat
  BY DEF Occurrence
<1> QED BY <1>1, <1>2

\* Only the record of the worker that moves changes.
LEMMA OneWorker ==
    ASSUME worker \in [Worker -> Loop \cup {Off}], NEW w \in Worker, NEW r,
           worker' = [worker EXCEPT ![w] = r]
    PROVE  /\ worker'[w] = r
           /\ \A v \in Worker \ {w} : worker'[v] = worker[v]
           /\ r \in Loop \cup {Off} => worker' \in [Worker -> Loop \cup {Off}]
BY DEF Loop, Off

\* A worker that is up has the record of a loop.
LEMMA UpLoop ==
    ASSUME TypeOK, NEW w \in Worker, Up(w)
    PROVE  worker[w] \in Loop
BY DEF TypeOK, Up, Off

\* The initial states are typed.
LEMMA InitTyped == Init => TypeOK
BY DEF Init, TypeOK

\* Every step preserves the types.
LEMMA NextTyped == TypeOK /\ [Next]_vars => TypeOK'
<1> SUFFICES ASSUME TypeOK, [Next]_vars PROVE TypeOK'
  OBVIOUS
<1> USE OccurrencePairs DEF TypeOK
<1>t. ASSUME NEW w \in Worker, worker[w].pc # "off" PROVE worker[w] \in Loop
  BY <1>t, UpLoop DEF Up
<1>1. ASSUME NEW w \in Worker, NEW sched \in [Cron -> UNION {Occurs[c] : c \in Cron}],
             Boot(w, sched)
      PROVE  TypeOK'
  <2>1. sched \in [Cron -> Nat]
    <3>1. UNION {Occurs[c] : c \in Cron} \subseteq Nat
      OBVIOUS
    <3> QED BY <3>1
  <2>2. PICK c \in Cron :
          worker' = [worker EXCEPT ![w] =
            [pc |-> "sleep", sched |-> sched, first |-> sched, seen |-> Clock(w), todo |-> {},
             target |-> c, due |-> sched[c]]]
    BY <1>1 DEF Boot
  <2>3. Clock(w) \in Int
    BY DEF Clock
  <2>4. [pc |-> "sleep", sched |-> sched, first |-> sched, seen |-> Clock(w), todo |-> {},
         target |-> c, due |-> sched[c]] \in Loop
    BY <2>1, <2>3 DEF Loop
  <2> QED BY <1>1, <2>2, <2>4, OneWorker DEF Boot
<1>2. ASSUME NEW w \in Worker, Wake(w) PROVE TypeOK'
  <2>1. Clock(w) \in Int
    BY DEF Clock
  <2>2. [worker[w] EXCEPT !.pc = "tick", !.seen = Clock(w), !.todo = Cron] \in Loop
    BY <1>2, <1>t, <2>1 DEF Wake, Loop
  <2> QED BY <1>2, <2>2, OneWorker DEF Wake
<1>3. ASSUME NEW w \in Worker, NEW c \in Cron, NEW next \in Occurs[c], Due(w, c, next)
      PROVE  TypeOK'
  <2>1. worker[w] \in Loop /\ next \in Nat
    BY <1>3, <1>t DEF Due
  <2>2. [worker[w] EXCEPT !.pc = "acquire", !.todo = worker[w].todo \ {c},
                          !.target = c, !.due = worker[w].sched[c],
                          !.sched = [worker[w].sched EXCEPT ![c] = next]] \in Loop
    BY <2>1 DEF Loop
  <2> QED BY <1>3, <2>2, OneWorker DEF Due, Schedule
<1>4. ASSUME NEW w \in Worker, Rest(w) PROVE TypeOK'
  <2>1. [worker[w] EXCEPT !.pc = "sleep", !.todo = {}] \in Loop
    BY <1>4, <1>t DEF Rest, Loop
  <2> QED BY <1>4, <2>1, OneWorker DEF Rest
<1>5. ASSUME NEW w \in Worker, Acquire(w) PROVE TypeOK'
  <2>1. [worker[w] EXCEPT !.pc = "tick"] \in Loop
    BY <1>5, <1>t DEF Acquire, Loop
  <2>2. worker' \in [Worker -> Loop \cup {Off}]
    BY <1>5, <2>1, OneWorker DEF Acquire
  <2>3. lock' \in [Occurrence -> Nat] /\ fired' \in [Occurrence -> Nat]
    BY <1>5 DEF Acquire
  <2> QED BY <1>5, <2>2, <2>3 DEF Acquire
<1>6. ASSUME NEW w \in Worker, AcquireFails(w) PROVE TypeOK'
  <2>1. PICK next \in {Off, [worker[w] EXCEPT !.pc = "tick"]} :
          worker' = [worker EXCEPT ![w] = next]
    BY <1>6 DEF AcquireFails
  <2>2. next \in Loop \cup {Off}
    <3>1. worker[w] \in Loop
      BY <1>6, <1>t DEF AcquireFails, Off
    <3>2. [worker[w] EXCEPT !.pc = "tick"] \in Loop
      BY <3>1 DEF Loop
    <3> QED BY <2>1, <3>2
  <2>3. worker' \in [Worker -> Loop \cup {Off}]
    BY <2>1, <2>2, OneWorker
  <2>4. lock' \in [Occurrence -> Nat]
    BY <1>6 DEF AcquireFails, GrantUnheard
  <2> QED BY <1>6, <2>3, <2>4 DEF AcquireFails
<1>7. ASSUME NEW w \in Worker, Stop(w) PROVE TypeOK'
  BY <1>7, OneWorker DEF Stop
<1>8. CASE PurgeLocks
  <2>1. lock' \in [Occurrence -> Nat]
    BY <1>8 DEF PurgeLocks
  <2> QED BY <1>8, <2>1 DEF PurgeLocks
<1>9. CASE Tick
  BY <1>9 DEF Tick
<1>10. CASE UNCHANGED vars
  BY <1>10 DEF vars
<1> QED
  BY <1>1, <1>2, <1>3, <1>4, <1>5, <1>6, <1>7, <1>8, <1>9, <1>10 DEF Next

\* The time a worker reads differs from the broker's by its skew.
LEMMA Clocks ==
    ASSUME TypeOK, NEW w \in Worker
    PROVE  /\ Clock(w) \in Int
           /\ now - MaxLag <= Clock(w) /\ Clock(w) <= now + MaxAhead
BY DEF TypeOK, Clock

\* A worker whose schedule is in order stays so while nothing of it changes but
\* time, and time only as far as the lag allows.
LEMMA StaysScheduled ==
    ASSUME TypeOK, NEW w \in Worker, Up(w), Scheduled(w), worker'[w] = worker[w],
           \/ now' = now
           \/ Tick
    PROVE  Scheduled(w)'
<1>1. worker[w] \in Loop
  BY UpLoop
<1>2. now \in Int /\ Ahead[w] \in Int
  BY DEF TypeOK
<1>3. CASE now' = now
  BY <1>3 DEF Scheduled, Clock
<1>4. CASE Tick
  <2>1. now' = now + 1 /\ worker' = worker
    BY <1>4 DEF Tick
  <2>2. \A o \in Occurrence : Pending(w, o[1], o[2]) => now < o[2] + MaxLag
    BY <1>4 DEF Tick
  <2>3. ASSUME NEW c \in Cron PROVE now' <= worker[w].sched[c] + MaxLag
    <3>1. worker[w].sched[c] \in Occurs[c] /\ worker[w].sched[c] \in Nat
      BY <1>1 DEF Scheduled, Loop
    <3>2. <<c, worker[w].sched[c]>> \in Occurrence
      BY <3>1, OccurrencePairs
    <3>3. Pending(w, c, worker[w].sched[c])
      BY DEF Pending
    <3>4. now < worker[w].sched[c] + MaxLag
      BY <2>2, <3>2, <3>3
    <3> QED BY <2>1, <1>2, <3>1, <3>4
  <2>4. ASSUME worker[w].pc = "acquire" PROVE now' <= worker[w].due + MaxLag
    <3>1. worker[w].target \in Cron /\ worker[w].due \in Nat
      BY <1>1 DEF Loop
    <3>2. <<worker[w].target, worker[w].due>> \in Occurrence
      BY <2>4, <3>1, OccurrencePairs DEF Scheduled
    <3>3. Pending(w, worker[w].target, worker[w].due)
      BY <2>4 DEF Pending, Target
    <3>4. now < worker[w].due + MaxLag
      BY <2>2, <3>2, <3>3
    <3> QED BY <2>1, <1>2, <3>1, <3>4
  <2>5. worker[w].seen \in Int /\ worker[w].due \in Int
    BY <1>1 DEF Loop
  <2>6. worker[w].seen <= Clock(w)'
    BY <1>2, <2>1, <2>5 DEF Scheduled, Clock
  <2>7. worker[w].pc = "acquire" => worker[w].due - MaxAhead <= now'
    BY <1>2, <2>1, <2>5 DEF Scheduled
  <2> QED BY <2>1, <2>3, <2>4, <2>6, <2>7 DEF Scheduled
<1> QED BY <1>3, <1>4

\* A lock step leaves the occurrence closed once it is fired: the expiry of a
\* lock never moves back unless it has passed.
LEMMA StaysClosed ==
    ASSUME TypeOK, NEW o \in Occurrence, Closed(o), now' \in Nat, now' >= now,
           \/ lock'[o] = lock[o]
           \/ lock[o] <= now
    PROVE  Closed(o)'
BY OccurrencePairs DEF TypeOK, Closed

\* The invariant holds at the start.
LEMMA CronInit == Init => CronInv
<1> SUFFICES ASSUME Init PROVE CronInv
  OBVIOUS
<1>1. \A w \in Worker : ~Up(w)
  BY DEF Init, Up, Off
<1>2. \A o \in Occurrence : fired[o] = 0
  BY DEF Init
<1> QED BY <1>1, <1>2, InitTyped DEF CronInv, AtMostOnce

\* Every step preserves it.
LEMMA CronStep == LockOutlivesLag /\ CronInv /\ [Next]_vars => CronInv'
<1> SUFFICES ASSUME LockOutlivesLag, CronInv, [Next]_vars PROVE CronInv'
  OBVIOUS
<1>t. TypeOK /\ TypeOK'
  BY NextTyped DEF CronInv
<1>n. now \in Nat /\ now' \in Nat
  BY <1>t DEF TypeOK
\* What a step must show when it fires nothing and no lock is taken from its
\* holder.
<1>q. ASSUME now' >= now, fired' = fired,
             \A o \in Occurrence : lock'[o] = lock[o] \/ lock[o] <= now,
             \A w \in Worker : Up(w)' => Scheduled(w)'
      PROVE  CronInv'
  <2>1. \A o \in Occurrence : fired'[o] >= 1 => Closed(o)'
    BY <1>q, <1>t, <1>n, StaysClosed DEF CronInv
  <2>2. AtMostOnce'
    BY <1>q DEF CronInv, AtMostOnce
  <2> QED BY <1>q, <1>t, <2>1, <2>2 DEF CronInv
\* The other workers keep their schedules.
<1>o. ASSUME NEW w \in Worker, NEW r, worker' = [worker EXCEPT ![w] = r], now' = now,
             Up(w)' => Scheduled(w)'
      PROVE  \A v \in Worker : Up(v)' => Scheduled(v)'
  <2> SUFFICES ASSUME NEW v \in Worker, Up(v)' PROVE Scheduled(v)'
    OBVIOUS
  <2>1. CASE v = w
    BY <2>1, <1>o
  <2>2. CASE v # w
    <3>1. worker'[v] = worker[v]
      BY <2>2, <1>o, <1>t, OneWorker DEF TypeOK
    <3>2. Up(v) /\ Scheduled(v)
      BY <3>1 DEF Up, CronInv
    <3> QED BY <3>1, <3>2, <1>o, <1>t, StaysScheduled
  <2> QED BY <2>1, <2>2
<1>u. ASSUME NEW w \in Worker, worker[w].pc # "off"
      PROVE  worker[w] \in Loop /\ Up(w) /\ Scheduled(w)
  BY <1>u, <1>t, UpLoop DEF Up, CronInv
<1>1. ASSUME NEW w \in Worker, NEW sched \in [Cron -> UNION {Occurs[c] : c \in Cron}],
             Boot(w, sched)
      PROVE  CronInv'
  <2>1. PICK c \in Cron :
          worker' = [worker EXCEPT ![w] =
            [pc |-> "sleep", sched |-> sched, first |-> sched, seen |-> Clock(w), todo |-> {},
             target |-> c, due |-> sched[c]]]
    BY <1>1 DEF Boot
  <2>2. worker'[w] = [pc |-> "sleep", sched |-> sched, first |-> sched, seen |-> Clock(w),
                      todo |-> {}, target |-> c, due |-> sched[c]]
    BY <2>1, <1>t, OneWorker DEF TypeOK
  <2>3. UNCHANGED <<now, lock, fired>>
    BY <1>1 DEF Boot
  <2>4. \A d \in Cron : sched[d] \in Occurs[d] /\ sched[d] > Clock(w)
    BY <1>1 DEF Boot, NextRun
  <2>5. \A d \in Cron : now <= sched[d] + MaxLag
    <3> SUFFICES ASSUME NEW d \in Cron PROVE now <= sched[d] + MaxLag
      OBVIOUS
    <3>1. sched[d] \in Nat /\ sched[d] > Clock(w)
      BY <2>4
    <3> QED BY <3>1, <1>t, <1>n, Clocks
  <2>6. Clock(w)' = Clock(w) /\ Clock(w) \in Int
    BY <2>3, <1>t, Clocks DEF Clock
  <2>7. Scheduled(w)'
    BY <2>2, <2>3, <2>4, <2>5, <2>6 DEF Scheduled
  <2>8. \A v \in Worker : Up(v)' => Scheduled(v)'
    BY <2>1, <2>3, <2>7, <1>o
  <2> QED BY <2>3, <2>8, <1>n, <1>q
<1>2. ASSUME NEW w \in Worker, Wake(w) PROVE CronInv'
  <2>1. worker[w] \in Loop /\ Scheduled(w)
    BY <1>2, <1>u DEF Wake
  <2>2. worker'[w] = [worker[w] EXCEPT !.pc = "tick", !.seen = Clock(w), !.todo = Cron]
    BY <1>2, <1>t, OneWorker DEF Wake, TypeOK
  <2>3. worker'[w].pc = "tick" /\ worker'[w].seen = Clock(w) /\ worker'[w].sched = worker[w].sched
    BY <2>1, <2>2 DEF Loop
  <2>4. UNCHANGED <<now, lock, fired>>
    BY <1>2 DEF Wake
  <2>5. Clock(w)' = Clock(w) /\ Clock(w) \in Int
    BY <2>4, <1>t, Clocks DEF Clock
  <2>6. Scheduled(w)'
    BY <2>1, <2>3, <2>4, <2>5 DEF Scheduled
  <2>7. \A v \in Worker : Up(v)' => Scheduled(v)'
    BY <1>2, <2>4, <2>6, <1>o DEF Wake
  <2> QED BY <2>4, <2>7, <1>n, <1>q
<1>3. ASSUME NEW w \in Worker, NEW c \in Cron, NEW next \in Occurs[c], Due(w, c, next)
      PROVE  CronInv'
  <2>1. worker[w] \in Loop /\ Scheduled(w)
    BY <1>3, <1>u DEF Due
  <2>2. worker'[w] = [worker[w] EXCEPT !.pc = "acquire", !.todo = worker[w].todo \ {c},
                          !.target = c, !.due = worker[w].sched[c],
                          !.sched = [worker[w].sched EXCEPT ![c] = next]]
    BY <1>3, <1>t, OneWorker DEF Due, Schedule, TypeOK
  <2>3. /\ worker'[w].target = c /\ worker'[w].due = worker[w].sched[c]
        /\ worker'[w].sched = [worker[w].sched EXCEPT ![c] = next]
        /\ worker'[w].seen = worker[w].seen
    BY <2>1, <2>2 DEF Loop
  <2>4. UNCHANGED <<now, lock, fired>>
    BY <1>3 DEF Due, Schedule
  <2>5. /\ worker[w].sched \in [Cron -> Nat] /\ worker[w].seen \in Int /\ next \in Nat
        /\ \A d \in Cron : worker[w].sched[d] \in Nat
    BY <2>1 DEF Loop
  <2>6. next > worker[w].sched[c] /\ worker[w].seen >= worker[w].sched[c]
    BY <1>3 DEF Due, NextRun, IsDue
  <2>7. now <= worker[w].sched[c] + MaxLag
    BY <2>1 DEF Scheduled
  <2>8. worker[w].sched[c] - MaxAhead <= now
    <3>1. worker[w].seen <= Clock(w)
      BY <2>1 DEF Scheduled
    <3> QED BY <2>5, <2>6, <3>1, <1>t, <1>n, Clocks
  <2>9. \A d \in Cron : /\ worker'[w].sched[d] \in Occurs[d]
                        /\ now <= worker'[w].sched[d] + MaxLag
    <3> SUFFICES ASSUME NEW d \in Cron
                 PROVE  /\ worker'[w].sched[d] \in Occurs[d]
                        /\ now <= worker'[w].sched[d] + MaxLag
      OBVIOUS
    <3>1. CASE d = c
      <4>1. worker'[w].sched[d] = next
        BY <3>1, <2>3, <2>5
      <4> QED BY <3>1, <4>1, <2>5, <2>6, <2>7, <1>n
    <3>2. CASE d # c
      <4>1. worker'[w].sched[d] = worker[w].sched[d]
        BY <3>2, <2>3, <2>5
      <4> QED BY <4>1, <2>1 DEF Scheduled
    <3> QED BY <3>1, <3>2
  <2>10. worker[w].sched[c] \in Occurs[c]
    BY <2>1 DEF Scheduled
  <2>11. worker'[w].seen <= Clock(w)'
    BY <2>1, <2>3, <2>4 DEF Scheduled, Clock
  <2>12. Scheduled(w)'
    BY <2>3, <2>4, <2>7, <2>8, <2>9, <2>10, <2>11 DEF Scheduled
  <2>13. \A v \in Worker : Up(v)' => Scheduled(v)'
    BY <1>3, <2>4, <2>12, <1>o DEF Due, Schedule
  <2> QED BY <2>4, <2>13, <1>n, <1>q
<1>s. ASSUME NEW w \in Worker, worker[w].pc # "off", now' = now,
             NEW pc \in {"sleep", "tick"}, NEW r,
             worker' = [worker EXCEPT ![w] = r],
             r.pc = pc, r.sched = worker[w].sched, r.seen = worker[w].seen
      PROVE  \A v \in Worker : Up(v)' => Scheduled(v)'
  <2>1. Scheduled(w)
    BY <1>s, <1>u
  <2>2. worker'[w] = r
    BY <1>s, <1>t, OneWorker DEF TypeOK
  <2>3. Clock(w)' = Clock(w)
    BY <1>s DEF Clock
  <2>4. Scheduled(w)'
    BY <2>1, <2>2, <2>3, <1>s DEF Scheduled
  <2> QED BY <1>s, <2>4, <1>o
<1>4. ASSUME NEW w \in Worker, Rest(w) PROVE CronInv'
  <2>1. worker[w] \in Loop
    BY <1>4, <1>u DEF Rest
  <2> DEFINE r == [worker[w] EXCEPT !.pc = "sleep", !.todo = {}]
  <2>2. r.pc = "sleep" /\ r.sched = worker[w].sched /\ r.seen = worker[w].seen
    BY <2>1 DEF Loop
  <2>3. /\ worker[w].pc # "off" /\ UNCHANGED <<now, lock, fired>>
        /\ worker' = [worker EXCEPT ![w] = r]
    BY <1>4 DEF Rest
  <2> HIDE DEF r
  <2>4. \A v \in Worker : Up(v)' => Scheduled(v)'
    BY <2>2, <2>3, <1>s
  <2> QED BY <2>3, <2>4, <1>n, <1>q
<1>k. ASSUME NEW w \in Worker, worker[w].pc = "acquire"
      PROVE  /\ Target(w) \in Occurrence
             /\ Target(w)[2] - MaxAhead <= now /\ now <= Target(w)[2] + MaxLag
             /\ Target(w)[2] \in Nat
  <2>1. worker[w] \in Loop /\ Scheduled(w)
    BY <1>k, <1>u
  <2>2. worker[w].target \in Cron /\ worker[w].due \in Nat
    BY <2>1 DEF Loop
  <2> QED BY <2>1, <2>2, <1>k, OccurrencePairs DEF Scheduled, Target
<1>5. ASSUME NEW w \in Worker, Acquire(w) PROVE CronInv'
  <2>1. worker[w].pc = "acquire" /\ worker[w].pc # "off" /\ now' = now
    BY <1>5 DEF Acquire
  <2> DEFINE r == [worker[w] EXCEPT !.pc = "tick"]
  <2>0. PICK o \in Occurrence : o = Target(w)
    BY <2>1, <1>k
  <2>2. r.pc = "tick" /\ r.sched = worker[w].sched /\ r.seen = worker[w].seen
    BY <2>1, <1>u DEF Loop
  <2>3. worker' = [worker EXCEPT ![w] = r]
    BY <1>5 DEF Acquire
  <2> HIDE DEF r
  <2>4. \A v \in Worker : Up(v)' => Scheduled(v)'
    BY <2>1, <2>2, <2>3, <1>s
  <2>5. CASE ~Free(o)
    BY <2>0, <2>1, <2>4, <2>5, <1>5, <1>n, <1>q DEF Acquire
  <2>6. CASE Free(o)
    <3>1. /\ lock' = [lock EXCEPT ![o] = now + TTL]
          /\ fired' = [fired EXCEPT ![o] = fired[o] + 1]
      BY <2>0, <2>6, <1>5 DEF Acquire
    <3>2. /\ o \in Occurrence /\ o[2] \in Nat
          /\ o[2] - MaxAhead <= now /\ now <= o[2] + MaxLag
      BY <2>0, <2>1, <1>k
    <3>3. lock \in [Occurrence -> Nat] /\ fired \in [Occurrence -> Nat]
      BY <1>t DEF TypeOK
    <3>4. fired[o] = 0
      <4>1. lock[o] <= now /\ lock[o] \in Nat /\ fired[o] \in Nat
        BY <2>6, <3>2, <3>3 DEF Free
      <4>2. ~Closed(o)
        BY <4>1, <3>2, <1>n DEF Closed, LockOutlivesLag
      <4> QED BY <4>1, <4>2, <3>2 DEF CronInv
    <3>5. Closed(o)'
      BY <3>1, <3>2, <3>3, <2>1, <1>n DEF Closed
    <3>6. \A p \in Occurrence : fired'[p] >= 1 => Closed(p)'
      <4> SUFFICES ASSUME NEW p \in Occurrence, fired'[p] >= 1, p # o PROVE Closed(p)'
        BY <3>5
      <4>1. lock'[p] = lock[p] /\ fired'[p] = fired[p]
        BY <3>1, <3>3
      <4>2. now' \in Nat /\ now' >= now
        BY <2>1, <1>n
      <4> QED BY <4>1, <4>2, <1>t, StaysClosed DEF CronInv
    <3>7. AtMostOnce'
      BY <3>1, <3>2, <3>3, <3>4 DEF CronInv, AtMostOnce
    <3> QED BY <3>6, <3>7, <2>4, <1>t DEF CronInv
  <2> QED BY <2>5, <2>6
<1>6. ASSUME NEW w \in Worker, AcquireFails(w) PROVE CronInv'
  <2>1. worker[w].pc = "acquire" /\ worker[w].pc # "off" /\ now' = now /\ fired' = fired
    BY <1>6 DEF AcquireFails
  <2>2. \A p \in Occurrence : lock'[p] = lock[p] \/ lock[p] <= now
    BY <1>6, <1>t DEF AcquireFails, GrantUnheard, Free, TypeOK
  <2>3. PICK r \in {Off, [worker[w] EXCEPT !.pc = "tick"]} :
          worker' = [worker EXCEPT ![w] = r]
    BY <1>6 DEF AcquireFails
  <2>4. CASE r = Off
    <3>1. ~Up(w)'
      BY <2>3, <2>4, <1>t, OneWorker DEF Up, Off, TypeOK
    <3>2. \A v \in Worker : Up(v)' => Scheduled(v)'
      BY <3>1, <2>1, <2>3, <1>o
    <3> QED BY <3>2, <2>1, <2>2, <1>n, <1>q
  <2>5. CASE r = [worker[w] EXCEPT !.pc = "tick"]
    <3>1. r.pc = "tick" /\ r.sched = worker[w].sched /\ r.seen = worker[w].seen
      BY <2>1, <2>5, <1>u DEF Loop
    <3>2. \A v \in Worker : Up(v)' => Scheduled(v)'
      BY <3>1, <2>1, <2>3, <1>s
    <3> QED BY <3>2, <2>1, <2>2, <1>n, <1>q
  <2> QED BY <2>4, <2>5
<1>7. ASSUME NEW w \in Worker, Stop(w) PROVE CronInv'
  <2>1. worker' = [worker EXCEPT ![w] = Off] /\ UNCHANGED <<now, lock, fired>>
    BY <1>7 DEF Stop
  <2>2. ~Up(w)'
    BY <2>1, <1>t, OneWorker DEF Up, Off, TypeOK
  <2>3. \A v \in Worker : Up(v)' => Scheduled(v)'
    BY <2>1, <2>2, <1>o
  <2> QED BY <2>1, <2>3, <1>n, <1>q
<1>r. ASSUME worker' = worker, now' = now \/ Tick
      PROVE  \A v \in Worker : Up(v)' => Scheduled(v)'
  <2> SUFFICES ASSUME NEW v \in Worker, Up(v)' PROVE Scheduled(v)'
    OBVIOUS
  <2>1. Up(v) /\ Scheduled(v) /\ worker'[v] = worker[v]
    BY <1>r DEF Up, CronInv
  <2> QED BY <2>1, <1>r, <1>t, StaysScheduled
<1>8. CASE PurgeLocks
  <2>1. \A p \in Occurrence : lock'[p] = lock[p] \/ lock[p] <= now
    BY <1>8 DEF PurgeLocks, Free
  <2> QED BY <2>1, <1>8, <1>n, <1>q, <1>r DEF PurgeLocks
<1>9. CASE Tick
  BY <1>9, <1>n, <1>q, <1>r DEF Tick
<1>10. CASE UNCHANGED vars
  BY <1>10, <1>n, <1>q, <1>r DEF vars
<1> QED
  BY <1>1, <1>2, <1>3, <1>4, <1>5, <1>6, <1>7, <1>8, <1>9, <1>10 DEF Next

\* No occurrence fires twice over the whole fleet, whatever workers start, stop,
\* lag and disagree on the time, provided that a lock outlives the lag
\* (worker._cron_loop, acquire_cron_lock, CRON_LOCK_TTL).
THEOREM FiresAtMostOnce == LockOutlivesLag => (Spec => []AtMostOnce)
<1> SUFFICES ASSUME LockOutlivesLag PROVE Spec => []AtMostOnce
  OBVIOUS
<1>1. CronInv /\ [Next]_vars => CronInv'
  BY CronStep
<1>2. CronInv => AtMostOnce
  BY DEF CronInv
<1> QED BY CronInit, <1>1, <1>2, PTL DEF Spec

\* Every reachable state is typed.
THEOREM CronTyping == Spec => []TypeOK
  BY InitTyped, NextTyped, PTL DEF Spec

(***************************************************************************)
(* No occurrence is missed while no lock call fails.                        *)
(***************************************************************************)

\* An occurrence that worker w is past was fired by somebody.
Covered(w) == \A o \in Occurrence : Past(w, o) => fired[o] >= 1

\* Schedules hold occurrences, a lock was granted to somebody who fired, and
\* nothing is missed.
MissInv ==
    /\ TypeOK
    /\ \A o \in Occurrence : lock[o] # 0 => fired[o] >= 1
    /\ \A w \in Worker : Up(w) =>
         /\ \A c \in Cron : worker[w].sched[c] \in Occurs[c]
         /\ worker[w].pc = "acquire" => Target(w) \in Occurrence
         /\ Covered(w)

\* The invariant holds at the start.
LEMMA MissInit == Init => MissInv
<1> SUFFICES ASSUME Init PROVE MissInv
  OBVIOUS
<1>1. \A w \in Worker : ~Up(w)
  BY DEF Init, Up, Off
<1>2. \A o \in Occurrence : lock[o] = 0
  BY DEF Init
<1> QED BY <1>1, <1>2, InitTyped DEF MissInv

\* Every step preserves it.
LEMMA MissStep == MissInv /\ errors' = 0 /\ [Next]_vars => MissInv'
<1> SUFFICES ASSUME MissInv, errors' = 0, [Next]_vars PROVE MissInv'
  OBVIOUS
<1> DEFINE Fine(w) == /\ \A c \in Cron : worker[w].sched[c] \in Occurs[c]
                      /\ worker[w].pc = "acquire" => Target(w) \in Occurrence
                      /\ Covered(w)
<1>t. TypeOK /\ TypeOK'
  BY NextTyped DEF MissInv
<1>u. ASSUME NEW w \in Worker, worker[w].pc # "off"
      PROVE  worker[w] \in Loop /\ Fine(w)
  BY <1>u, <1>t, UpLoop DEF Up, MissInv
\* A fired occurrence stays fired, so a worker that does not move has missed
\* nothing.
<1>o. ASSUME NEW w \in Worker, NEW r, worker' = [worker EXCEPT ![w] = r],
             \A o \in Occurrence : fired'[o] >= fired[o],
             \A o \in Occurrence : lock'[o] # 0 => fired'[o] >= 1,
             Up(w)' => Fine(w)'
      PROVE  MissInv'
  <2> SUFFICES ASSUME NEW v \in Worker, Up(v)', v # w PROVE Fine(v)'
    BY <1>o, <1>t DEF MissInv
  <2>1. worker'[v] = worker[v]
    BY <1>o, <1>t, OneWorker DEF TypeOK
  <2>2. Up(v) /\ Fine(v)
    BY <2>1 DEF Up, MissInv
  <2>3. \A o \in Occurrence : fired[o] >= 1 => fired'[o] >= 1
    BY <1>o, <1>t DEF TypeOK
  <2> QED BY <2>1, <2>2, <2>3 DEF Covered, Past, Target
<1>q. ASSUME UNCHANGED <<lock, fired>>
      PROVE  /\ \A o \in Occurrence : fired'[o] >= fired[o]
             /\ \A o \in Occurrence : lock'[o] # 0 => fired'[o] >= 1
  BY <1>q, <1>t DEF MissInv, TypeOK
<1>1. ASSUME NEW w \in Worker, NEW sched \in [Cron -> UNION {Occurs[c] : c \in Cron}],
             Boot(w, sched)
      PROVE  MissInv'
  <2>1. PICK c \in Cron :
          worker' = [worker EXCEPT ![w] =
            [pc |-> "sleep", sched |-> sched, first |-> sched, seen |-> Clock(w), todo |-> {},
             target |-> c, due |-> sched[c]]]
    BY <1>1 DEF Boot
  <2>2. worker'[w] = [pc |-> "sleep", sched |-> sched, first |-> sched, seen |-> Clock(w),
                      todo |-> {}, target |-> c, due |-> sched[c]]
    BY <2>1, <1>t, OneWorker DEF TypeOK
  <2>3. \A d \in Cron : sched[d] \in Occurs[d] /\ sched[d] \in Nat
    BY <1>1 DEF Boot, NextRun
  <2>4. Covered(w)'
    BY <2>2, <2>3, OccurrencePairs DEF Covered, Past
  <2>5. Fine(w)'
    BY <2>2, <2>3, <2>4
  <2> QED BY <1>1, <2>1, <2>5, <1>o, <1>q DEF Boot
<1>s. ASSUME NEW w \in Worker, worker[w].pc \in {"sleep", "tick"}, UNCHANGED <<lock, fired>>,
             NEW r, worker' = [worker EXCEPT ![w] = r],
             r.pc \in {"sleep", "tick"}, r.sched = worker[w].sched, r.first = worker[w].first
      PROVE  MissInv'
  <2>1. worker'[w] = r
    BY <1>s, <1>t, OneWorker DEF TypeOK
  <2>2. Fine(w)
    BY <1>s, <1>u
  <2>3. Fine(w)'
    BY <2>1, <2>2, <1>s DEF Covered, Past
  <2> QED BY <2>3, <1>s, <1>o, <1>q
<1>2. ASSUME NEW w \in Worker, Wake(w) PROVE MissInv'
  <2> DEFINE r == [worker[w] EXCEPT !.pc = "tick", !.seen = Clock(w), !.todo = Cron]
  <2>1. r.pc = "tick" /\ r.sched = worker[w].sched /\ r.first = worker[w].first
    BY <1>2, <1>u DEF Wake, Loop
  <2>2. /\ worker' = [worker EXCEPT ![w] = r] /\ UNCHANGED <<lock, fired>>
        /\ worker[w].pc \in {"sleep", "tick"}
    BY <1>2 DEF Wake
  <2> HIDE DEF r
  <2> QED BY <2>1, <2>2, <1>s
<1>3. ASSUME NEW w \in Worker, NEW c \in Cron, NEW next \in Occurs[c], Due(w, c, next)
      PROVE  MissInv'
  <2>1. worker[w] \in Loop /\ Fine(w) /\ worker[w].pc = "tick"
    BY <1>3, <1>u DEF Due
  <2>2. worker'[w] = [worker[w] EXCEPT !.pc = "acquire", !.todo = worker[w].todo \ {c},
                          !.target = c, !.due = worker[w].sched[c],
                          !.sched = [worker[w].sched EXCEPT ![c] = next]]
    BY <1>3, <1>t, OneWorker DEF Due, Schedule, TypeOK
  <2>3. /\ Target(w)' = <<c, worker[w].sched[c]>> /\ worker'[w].pc = "acquire"
        /\ worker'[w].sched = [worker[w].sched EXCEPT ![c] = next]
        /\ worker'[w].first = worker[w].first
    BY <2>1, <2>2 DEF Loop, Target
  <2>4. UNCHANGED <<lock, fired>>
    BY <1>3 DEF Due, Schedule
  <2>5. /\ worker[w].sched \in [Cron -> Nat] /\ next \in Nat
        /\ \A d \in Cron : worker[w].sched[d] \in Nat
    BY <2>1 DEF Loop
  <2>6. \A o \in Occurs[c] : o > worker[w].sched[c] => next <= o
    BY <1>3 DEF Due, NextRun
  <2>7. worker[w].sched[c] \in Occurs[c]
    BY <2>1
  <2>8. Target(w)' \in Occurrence
    BY <2>3, <2>5, <2>7, OccurrencePairs
  <2>9. Covered(w)'
    <3> SUFFICES ASSUME NEW o \in Occurrence,
                        worker[w].first[o[1]] <= o[2], o[2] < worker'[w].sched[o[1]],
                        o # <<c, worker[w].sched[c]>>
                 PROVE  fired[o] >= 1
      BY <2>3, <2>4 DEF Covered, Past
    <3>1. o = <<o[1], o[2]>> /\ o[1] \in Cron /\ o[2] \in Occurs[o[1]] /\ o[2] \in Nat
      BY OccurrencePairs DEF Occurrence
    <3>2. o[2] < worker[w].sched[o[1]]
      <4>1. CASE o[1] # c
        BY <4>1, <3>1, <2>3, <2>5
      <4>2. CASE o[1] = c
        <5>1. o[2] < next /\ o[2] # worker[w].sched[c]
          BY <4>2, <3>1, <2>3, <2>5
        <5>2. ~(o[2] > worker[w].sched[c])
          BY <4>2, <5>1, <3>1, <2>5, <2>6
        <5> QED BY <4>2, <5>1, <5>2, <3>1, <2>5
      <4> QED BY <4>1, <4>2
    <3> QED BY <3>2, <2>1 DEF Covered, Past
  <2>10. \A d \in Cron : worker'[w].sched[d] \in Occurs[d]
    BY <2>1, <2>3, <2>5
  <2>11. Fine(w)'
    BY <2>8, <2>9, <2>10
  <2> QED BY <1>3, <2>4, <2>11, <1>o, <1>q DEF Due, Schedule
<1>4. ASSUME NEW w \in Worker, Rest(w) PROVE MissInv'
  <2> DEFINE r == [worker[w] EXCEPT !.pc = "sleep", !.todo = {}]
  <2>1. r.pc = "sleep" /\ r.sched = worker[w].sched /\ r.first = worker[w].first
    BY <1>4, <1>u DEF Rest, Loop
  <2>2. /\ worker' = [worker EXCEPT ![w] = r] /\ UNCHANGED <<lock, fired>>
        /\ worker[w].pc \in {"sleep", "tick"}
    BY <1>4 DEF Rest
  <2> HIDE DEF r
  <2> QED BY <2>1, <2>2, <1>s
<1>5. ASSUME NEW w \in Worker, Acquire(w) PROVE MissInv'
  <2>1. worker[w].pc = "acquire" /\ worker[w].pc # "off" /\ now' = now
    BY <1>5 DEF Acquire
  <2>2. worker[w] \in Loop /\ Fine(w)
    BY <2>1, <1>u
  <2>3. PICK o \in Occurrence : o = Target(w)
    BY <2>1, <2>2
  <2>4. worker'[w] = [worker[w] EXCEPT !.pc = "tick"]
    BY <1>5, <1>t, OneWorker DEF Acquire, TypeOK
  <2>5. /\ worker'[w].pc = "tick" /\ worker'[w].sched = worker[w].sched
        /\ worker'[w].first = worker[w].first
    BY <2>2, <2>4 DEF Loop
  <2>6. /\ lock \in [Occurrence -> Nat] /\ fired \in [Occurrence -> Nat] /\ now \in Nat
        /\ \A p \in Occurrence : lock[p] \in Nat /\ fired[p] \in Nat
    BY <1>t DEF TypeOK
  <2>7. /\ \A p \in Occurrence : fired'[p] >= fired[p]
        /\ \A p \in Occurrence : lock'[p] # 0 => fired'[p] >= 1
        /\ fired'[o] >= 1
    <3>1. CASE Free(o)
      <4>1. /\ lock' = [lock EXCEPT ![o] = now + TTL]
            /\ fired' = [fired EXCEPT ![o] = fired[o] + 1]
        BY <3>1, <2>3, <1>5 DEF Acquire
      <4> QED BY <4>1, <2>6 DEF MissInv
    <3>2. CASE ~Free(o)
      <4>1. UNCHANGED <<lock, fired>>
        BY <3>2, <2>3, <1>5 DEF Acquire
      <4>2. lock[o] # 0
        BY <3>2, <2>6 DEF Free
      <4>3. fired'[o] >= 1
        BY <4>1, <4>2 DEF MissInv
      <4> QED BY <4>1, <4>3, <1>q
    <3> QED BY <3>1, <3>2
  <2>8. Covered(w)'
    <3> SUFFICES ASSUME NEW p \in Occurrence, p # o,
                        worker[w].first[p[1]] <= p[2], p[2] < worker[w].sched[p[1]]
                 PROVE  fired'[p] >= 1
      BY <2>5, <2>7 DEF Covered, Past
    <3>1. fired[p] >= 1
      BY <2>2, <2>3 DEF Covered, Past
    <3>2. fired'[p] >= fired[p] /\ fired'[p] \in Nat /\ fired[p] \in Nat
      BY <2>6, <2>7, <1>t DEF TypeOK
    <3> QED BY <3>1, <3>2
  <2>9. Fine(w)'
    BY <2>2, <2>5, <2>8
  <2> QED BY <1>5, <2>7, <2>9, <1>o DEF Acquire
<1>6. ASSUME NEW w \in Worker, AcquireFails(w) PROVE MissInv'
  BY <1>6, <1>t DEF AcquireFails, TypeOK
<1>7. ASSUME NEW w \in Worker, Stop(w) PROVE MissInv'
  <2>1. worker' = [worker EXCEPT ![w] = Off] /\ UNCHANGED <<lock, fired>>
    BY <1>7 DEF Stop
  <2>2. ~Up(w)'
    BY <2>1, <1>t, OneWorker DEF Up, Off, TypeOK
  <2> QED BY <2>1, <2>2, <1>o, <1>q
<1>r. ASSUME worker' = worker, fired' = fired,
             \A o \in Occurrence : lock'[o] # 0 => lock[o] # 0
      PROVE  MissInv'
  <2>1. \A o \in Occurrence : lock'[o] # 0 => fired'[o] >= 1
    BY <1>r DEF MissInv
  <2>2. \A w \in Worker : Up(w)' => Fine(w)'
    BY <1>r DEF MissInv, Up, Covered, Past, Target
  <2> QED BY <2>1, <2>2, <1>t DEF MissInv
<1>8. CASE PurgeLocks
  BY <1>8, <1>r DEF PurgeLocks
<1>9. CASE Tick
  BY <1>9, <1>r DEF Tick
<1>10. CASE UNCHANGED vars
  BY <1>10, <1>r DEF vars
<1> HIDE DEF Fine
<1> QED
  BY <1>1, <1>2, <1>3, <1>4, <1>5, <1>6, <1>7, <1>8, <1>9, <1>10 DEF Next

\* While no lock call fails, an occurrence that some worker was up for and has
\* gone past was fired (worker._maybe_fire_cron, CronDef.next_run).
THEOREM MissesNone == Spec => []NoneMissed
<1> DEFINE Inv == TypeOK /\ (errors = 0 => MissInv)
<1>1. Init => Inv
  BY InitTyped, MissInit
<1>2. Inv /\ [Next]_vars => Inv'
  <2> SUFFICES ASSUME Inv, [Next]_vars PROVE Inv'
    OBVIOUS
  <2>1. TypeOK'
    BY NextTyped
  <2>2. errors' = 0 => errors = 0
    <3>1. errors' = errors \/ \E w \in Worker : AcquireFails(w)
      <4>1. CASE PurgeLocks \/ Tick \/ UNCHANGED vars
        BY <4>1 DEF PurgeLocks, Tick, vars
      <4>2. ASSUME NEW w \in Worker, NEW c \in Cron, NEW next \in Occurs[c], Due(w, c, next)
            PROVE  errors' = errors
        BY <4>2 DEF Due, Schedule
      <4>3. ASSUME NEW w \in Worker,
                   Wake(w) \/ Rest(w) \/ Acquire(w) \/ Stop(w) \/ \E sched : Boot(w, sched)
            PROVE  errors' = errors
        BY <4>3 DEF Boot, Wake, Rest, Acquire, Stop
      <4> QED BY <4>1, <4>2, <4>3 DEF Next
    <3>2. ASSUME NEW w \in Worker, AcquireFails(w) PROVE errors' = errors + 1
      BY <3>2 DEF AcquireFails
    <3> QED BY <3>1, <3>2 DEF TypeOK
  <2> QED BY <2>1, <2>2, MissStep
<1>3. Inv => NoneMissed
  BY DEF MissInv, NoneMissed, Covered
<1> HIDE DEF Inv
<1> QED BY <1>1, <1>2, <1>3, PTL DEF Spec
=============================================================================
