---------------------------- MODULE WorkerRegistry ----------------------------
(***************************************************************************)
(* The registry of workers: the entries that workers register, refresh and  *)
(* remove, and list_workers, which shows who is alive and, over Redis,      *)
(* reaps the entries of workers not heard of for long.                      *)
(*                                                                          *)
(* Time passes in ticks.  Clocks are kept as ages, which stop growing once  *)
(* no threshold lies above them.  A step is one call to Redis or one SQL    *)
(* statement, or one call of the in-memory broker.                          *)
(***************************************************************************)
EXTENDS Integers

CONSTANTS
    Worker,         \* worker ids, a fresh uuid4 for each Worker object
    Stalling,       \* the workers whose jobs may block their event loop
    Viewer,         \* callers of list_workers: dashboard, CLI, metrics
    Interval,       \* heartbeat_interval
    Latency,        \* the longest that the other workers' calls are late
    TTL,            \* WORKER_TTL
    ReapAfter,      \* _WORKER_REAP_AFTER
    MaxSkew,        \* largest difference of two clocks
    MaxErrors       \* bound: heartbeats that fail

ASSUME TimesAssumption == /\ Interval \in Nat \ {0} /\ Latency \in Nat \ {0}
                          /\ TTL \in Nat /\ MaxSkew \in Nat /\ MaxErrors \in Nat
                          /\ ReapAfter \in Nat /\ ReapAfter >= TTL
ASSUME StallingAssumption == Stalling \subseteq Worker

\* The age at which an entry is past every threshold on every clock.
MaxAge == ReapAfter + MaxSkew + 1

VARIABLES
    broker,     \* where the entries are: a hash in Redis, or the rows of a table
    mode,       \* what each worker is doing
    entry,      \* the workers with an entry in the registry
    age,        \* the time since the last_heartbeat of each entry
    beat,       \* where the heartbeat loop is
    wait,       \* the time left for the loop's next call to be done
    held,       \* the age of the time stamp of a write under way
    reap,       \* the stale entries that each viewer is about to delete
    errors      \* heartbeats that have failed

vars == <<broker, mode, entry, age, beat, wait, held, reap, errors>>
registry == <<entry, age>>
loop == <<beat, wait, held>>

\* From the registration to the end of the main loop.
Serving(w) == mode[w] = "serving"

Older(a) == IF a < MaxAge THEN a + 1 ELSE a

\* HDEL.
Remove(ids) ==
    /\ entry' = entry \ ids
    /\ age' = [w \in Worker |-> IF w \in ids THEN 0 ELSE age[w]]

-----------------------------------------------------------------------------
(* A worker.                                                                *)

\* Mutation: the loop sleeps before and after each heartbeat.
MutSleep(w) ==
    /\ beat' = [beat EXCEPT ![w] = "sleep"]
    /\ wait' = [wait EXCEPT ![w] = 2 * Interval + Latency]
    /\ held' = [held EXCEPT ![w] = 0]

\* _heartbeat_loop: asleep until its next call, which is done by `wait`.
Sleep(w) ==
    /\ beat' = [beat EXCEPT ![w] = "sleep"]
    /\ wait' = [wait EXCEPT ![w] = Interval + Latency]
    /\ held' = [held EXCEPT ![w] = 0]

\* register_worker, and the start of the heartbeat loop with a sleep.
Register(w) ==
    /\ mode[w] = "new"
    /\ mode' = [mode EXCEPT ![w] = "serving"]
    /\ entry' = entry \cup {w}
    /\ \E late \in 0..Latency : late <= MaxAge /\ age' = [age EXCEPT ![w] = late]
    /\ Sleep(w)
    /\ UNCHANGED <<broker, reap, errors>>

\* The sleep of the heartbeat loop is over.
Awake(w) == Serving(w) /\ beat[w] = "sleep" /\ wait[w] <= Latency

\* Over the SQL and the in-memory brokers a heartbeat is one step: the entry's time
\* stamp, if there is an entry.
BeatRow(w) ==
    /\ broker = "table" /\ Awake(w)
    /\ age' = [age EXCEPT ![w] = 0]
    /\ Sleep(w)
    /\ UNCHANGED <<broker, mode, entry, reap, errors>>

\* HGET: without an entry there is nothing to refresh.
BeatRead(w) ==
    /\ broker = "redis" /\ Awake(w)
    /\ IF w \in entry
       THEN beat' = [beat EXCEPT ![w] = "write"] /\ UNCHANGED <<wait, held>>
       ELSE Sleep(w)
    /\ UNCHANGED <<broker, mode, registry, reap, errors>>

\* Mutation: the entry is written back with the time stamp it was read with.
MutBeatWrite(w) ==
    /\ Serving(w) /\ beat[w] = "write"
    /\ entry' = entry \cup {w}
    /\ age' = age
    /\ Sleep(w)
    /\ UNCHANGED <<broker, mode, reap, errors>>

\* HSET with the time read after the HGET.
BeatWrite(w) ==
    /\ Serving(w) /\ beat[w] = "write"
    /\ entry' = entry \cup {w}
    /\ age' = [age EXCEPT ![w] = held[w]]
    /\ Sleep(w)
    /\ UNCHANGED <<broker, mode, reap, errors>>

\* Either call raises; the exception is suppressed and the loop goes on.
BeatFails(w) ==
    /\ Awake(w) \/ (Serving(w) /\ beat[w] = "write")
    /\ errors < MaxErrors
    /\ errors' = errors + 1
    /\ Sleep(w)
    /\ UNCHANGED <<broker, mode, registry, reap>>

\* The main loop ends: the heartbeat is cancelled, a write under way done or
\* not, before the jobs in flight are waited for.
StopBeat(w, next) ==
    /\ Serving(w)
    /\ mode' = [mode EXCEPT ![w] = next]
    /\ beat' = [beat EXCEPT ![w] = "ended"]
    /\ wait' = [wait EXCEPT ![w] = 0] /\ held' = [held EXCEPT ![w] = 0]
    /\ \/ UNCHANGED registry
       \/ /\ beat[w] = "write"
          /\ entry' = entry \cup {w}
          /\ age' = [age EXCEPT ![w] = held[w]]
    /\ UNCHANGED <<broker, reap, errors>>

Stop(w) == StopBeat(w, "draining")

\* After the drain: deregister_worker, an exception of which is suppressed.
Deregister(w) ==
    /\ mode[w] = "draining"
    /\ mode' = [mode EXCEPT ![w] = "gone"]
    /\ UNCHANGED registry \/ Remove({w})
    /\ UNCHANGED <<broker, loop, reap, errors>>

\* The process is killed, serving or draining.
Crash(w) ==
    \/ StopBeat(w, "gone")
    \/ /\ mode[w] = "draining"
       /\ mode' = [mode EXCEPT ![w] = "gone"]
       /\ UNCHANGED <<broker, registry, loop, reap, errors>>

-----------------------------------------------------------------------------
(* list_workers.                                                            *)

\* What a clock that is ahead by skew shows of a worker.
Alive(w, skew) == w \in entry /\ age[w] + skew < TTL

Stale(skew) == {w \in entry : age[w] + skew > ReapAfter}

\* HGETALL: what is stale by the viewer's clock is left out of the answer.
List(v) ==
    /\ broker = "redis" /\ reap[v] = {}
    /\ \E skew \in (-MaxSkew)..MaxSkew : reap' = [reap EXCEPT ![v] = Stale(skew)]
    /\ UNCHANGED <<broker, mode, registry, loop, errors>>

\* Mutation: stale entries are left out of the answer but not deleted.
MutReap(v) ==
    /\ reap[v] # {}
    /\ reap' = [reap EXCEPT ![v] = {}]
    /\ UNCHANGED <<broker, mode, registry, loop, errors>>

\* HDEL of what was stale then.
Reap(v) ==
    /\ reap[v] # {}
    /\ Remove(reap[v])
    /\ reap' = [reap EXCEPT ![v] = {}]
    /\ UNCHANGED <<broker, mode, loop, errors>>

-----------------------------------------------------------------------------

\* Time passes, but no worker is later than Latency unless its loop is blocked.
Tick ==
    /\ \A w \in Worker \ Stalling : Serving(w) => wait[w] > 0
    /\ wait' = [w \in Worker |-> IF wait[w] > 0 THEN wait[w] - 1 ELSE wait[w]]
    /\ age' = [w \in Worker |-> IF w \in entry THEN Older(age[w]) ELSE age[w]]
    /\ held' = [w \in Worker |->
                   IF beat[w] = "write" THEN Older(held[w]) ELSE held[w]]
    /\ UNCHANGED <<broker, mode, entry, beat, reap, errors>>

Init ==
    /\ broker \in {"redis", "table"}
    /\ mode = [w \in Worker |-> "new"]
    /\ entry = {} /\ age = [w \in Worker |-> 0]
    /\ beat = [w \in Worker |-> "sleep"]
    /\ wait = [w \in Worker |-> 0] /\ held = [w \in Worker |-> 0]
    /\ reap = [v \in Viewer |-> {}]
    /\ errors = 0

Next ==
    \/ \E w \in Worker :
          \/ Register(w) \/ BeatRow(w) \/ BeatRead(w) \/ BeatWrite(w) \/ BeatFails(w)
          \/ Stop(w) \/ Deregister(w) \/ Crash(w)
    \/ \E v \in Viewer : List(v) \/ Reap(v)
    \/ Tick

Spec == Init /\ [][Next]_vars

\* Clocks go on, the event loop runs the heartbeats, a drain ends, and the
\* dashboard keeps looking.  No worker has to start, stop or fail.
Fairness ==
    /\ WF_vars(Tick)
    /\ \A w \in Worker : WF_vars(BeatRow(w) \/ BeatRead(w) \/ BeatWrite(w)) /\ WF_vars(Deregister(w))
    /\ \A v \in Viewer : SF_vars(List(v) /\ reap'[v] # {}) /\ WF_vars(Reap(v))

FairSpec == Spec /\ Fairness

-----------------------------------------------------------------------------
(* Properties.                                                              *)

\* The variables keep their types.
TypeOK ==
    /\ broker \in {"redis", "table"}
    /\ mode \in [Worker -> {"new", "serving", "draining", "gone"}]
    /\ entry \subseteq Worker /\ age \in [Worker -> 0..MaxAge]
    /\ beat \in [Worker -> {"sleep", "write", "ended"}]
    /\ wait \in [Worker -> 0..(Interval + Latency)] /\ held \in [Worker -> 0..MaxAge]
    /\ reap \in [Viewer -> SUBSET Worker] /\ errors \in Nat

\* Heartbeats are frequent enough: the longest silence of a serving worker,
\* of which MaxErrors heartbeats failed and the last was late, stays below the
\* threshold on every clock.
BeatsOutliveTTL == Latency + (MaxErrors + 1) * (Interval + Latency) + MaxSkew < TTL

\* Whoever lists the workers sees every serving one whose loop is not blocked,
\* as alive: late and failed heartbeats, skewed clocks, and the reaping of
\* entries that were read before they were refreshed never hide it.
ServingShown ==
    BeatsOutliveTTL =>
        \A w \in Worker \ Stalling : Serving(w) => Alive(w, MaxSkew)

\* "So a crashed worker does not linger in the dashboard forever": over Redis, the
\* entry of a worker that has left or died is removed at last, and no heartbeat
\* brings it back; in a table it stays, and is shown as dead for good.
GoneLeaves == \A w \in Worker :
    mode[w] = "gone" ~> [](IF broker = "redis" THEN w \notin entry ELSE ~Alive(w, 0))
===============================================================================
