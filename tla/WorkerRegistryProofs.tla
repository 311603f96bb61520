------------------------- MODULE WorkerRegistryProofs -------------------------
(***************************************************************************)
(* Whoever lists the workers sees every serving one whose event loop is not *)
(* blocked as alive, for any workers, viewers, intervals and thresholds     *)
(* that leave room for the heartbeats that may be late or fail.             *)
(***************************************************************************)
EXTENDS WorkerRegistry, TLAPS

-----------------------------------------------------------------------------
(* The types.                                                               *)

LEMMA OlderType ==
  ASSUME NEW a \in 0..MaxAge
  PROVE  Older(a) \in 0..MaxAge /\ Older(a) \in {a, a + 1}
BY TimesAssumption DEF Older, MaxAge

\* Falling asleep keeps the types of the heartbeat loop.
LEMMA SleepType ==
  ASSUME TypeOK, NEW w \in Worker, Sleep(w)
  PROVE  /\ beat' \in [Worker -> {"sleep", "write", "ended"}]
         /\ wait' \in [Worker -> 0..(Interval + Latency)]
         /\ held' \in [Worker -> 0..MaxAge]
<1>1. Interval + Latency \in 0..(Interval + Latency) /\ 0 \in 0..MaxAge
  BY TimesAssumption DEF MaxAge
<1> QED BY <1>1 DEF Sleep, TypeOK

\* Removing entries keeps the types of the registry.
LEMMA RemoveType ==
  ASSUME TypeOK, NEW ids, Remove(ids)
  PROVE  entry' \subseteq Worker /\ age' \in [Worker -> 0..MaxAge]
<1>1. 0 \in 0..MaxAge
  BY TimesAssumption DEF MaxAge
<1> QED BY <1>1 DEF Remove, TypeOK

\* Every step preserves the types.
LEMMA TypeStep == TypeOK /\ [Next]_vars => TypeOK'
<1> SUFFICES ASSUME TypeOK, [Next]_vars PROVE TypeOK'
  OBVIOUS
<1>z. 0 \in 0..MaxAge /\ 0 \in 0..(Interval + Latency)
  BY TimesAssumption DEF MaxAge
<1>1. ASSUME NEW w \in Worker, Register(w) PROVE TypeOK'
  <2>1. age' \in [Worker -> 0..MaxAge]
    BY <1>1 DEF Register, TypeOK
  <2>2. Sleep(w)
    BY <1>1 DEF Register
  <2> QED BY <1>1, <2>1, <2>2, SleepType DEF Register, TypeOK
<1>2. ASSUME NEW w \in Worker, BeatRow(w) PROVE TypeOK'
  <2>1. Sleep(w)
    BY <1>2 DEF BeatRow
  <2> QED BY <1>2, <1>z, <2>1, SleepType DEF BeatRow, TypeOK
<1>3. ASSUME NEW w \in Worker, BeatRead(w) PROVE TypeOK'
  <2>1. CASE w \in entry
    BY <1>3, <2>1 DEF BeatRead, TypeOK, registry
  <2>2. CASE w \notin entry
    BY <1>3, <2>2, SleepType DEF BeatRead, TypeOK, registry
  <2> QED BY <2>1, <2>2
<1>4. ASSUME NEW w \in Worker, BeatWrite(w) PROVE TypeOK'
  <2>1. Sleep(w)
    BY <1>4 DEF BeatWrite
  <2> QED BY <1>4, <2>1, SleepType DEF BeatWrite, TypeOK
<1>5. ASSUME NEW w \in Worker, BeatFails(w) PROVE TypeOK'
  <2>1. Sleep(w)
    BY <1>5 DEF BeatFails
  <2> QED BY <1>5, <2>1, SleepType, TimesAssumption DEF BeatFails, TypeOK, registry
<1>6. ASSUME NEW w \in Worker, NEW next \in {"draining", "gone"}, StopBeat(w, next)
      PROVE  TypeOK'
  <2>1. entry' \subseteq Worker /\ age' \in [Worker -> 0..MaxAge]
    BY <1>6 DEF StopBeat, TypeOK, registry
  <2> QED BY <1>6, <1>z, <2>1 DEF StopBeat, TypeOK
<1>7. ASSUME NEW w \in Worker, Deregister(w) PROVE TypeOK'
  <2>1. entry' \subseteq Worker /\ age' \in [Worker -> 0..MaxAge]
    BY <1>7, RemoveType DEF Deregister, TypeOK, registry
  <2> QED BY <1>7, <2>1 DEF Deregister, TypeOK, loop
<1>8. ASSUME NEW w \in Worker, Stop(w) \/ Crash(w) PROVE TypeOK'
  BY <1>8, <1>6 DEF Stop, Crash, TypeOK, registry, loop
<1>9. ASSUME NEW v \in Viewer, List(v) PROVE TypeOK'
  BY <1>9 DEF List, Stale, TypeOK, registry, loop
<1>10. ASSUME NEW v \in Viewer, Reap(v) PROVE TypeOK'
  <2>1. entry' \subseteq Worker /\ age' \in [Worker -> 0..MaxAge]
    BY <1>10, RemoveType DEF Reap
  <2> QED BY <1>10, <2>1 DEF Reap, TypeOK, loop
<1>11. CASE Tick
  <2>1. wait' \in [Worker -> 0..(Interval + Latency)]
    BY <1>11, TimesAssumption DEF Tick, TypeOK
  <2>2. age' \in [Worker -> 0..MaxAge] /\ held' \in [Worker -> 0..MaxAge]
    BY <1>11, OlderType DEF Tick, TypeOK
  <2> QED BY <1>11, <2>1, <2>2 DEF Tick, TypeOK
<1>12. CASE UNCHANGED vars
  BY <1>12 DEF vars, TypeOK
<1> QED
  BY <1>1, <1>2, <1>3, <1>4, <1>5, <1>7, <1>8, <1>9, <1>10, <1>11, <1>12 DEF Next

\* The variables keep their types.
LEMMA TypeInit == Init => TypeOK
<1>1. 0 \in 0..MaxAge /\ 0 \in 0..(Interval + Latency)
  BY TimesAssumption DEF MaxAge
<1> QED BY <1>1 DEF Init, TypeOK

\* The variables keep their types.
THEOREM TypeCorrect == Spec => []TypeOK
BY TypeInit, TypeStep, PTL DEF Spec

-----------------------------------------------------------------------------
(* How long an entry goes without a heartbeat.                              *)

\* From one call of the heartbeat loop to the end of the next.
Round == Interval + Latency

\* The longest silence when e heartbeats have failed.
Silence(e) == Latency + (e + 1) * Round

LEMMA SilenceGrows ==
  ASSUME NEW e \in Nat
  PROVE  /\ Silence(e) \in Nat /\ Round \in Nat
         /\ Silence(e + 1) = Silence(e) + Round
         /\ Latency + Round <= Silence(e)
<1>1. PICK r \in Nat : r = Round
  BY TimesAssumption DEF Round
<1>2. e * r \in Nat /\ (e + 1) * r = e * r + r /\ (e + 2) * r = e * r + r + r
  OBVIOUS
<1>3. (e + 1) + 1 = e + 2
  OBVIOUS
<1> QED BY <1>1, <1>2, <1>3, TimesAssumption DEF Silence

\* No silence is longer than that with all the failures.
LEMMA SilenceMost ==
  ASSUME NEW e \in Nat, e <= MaxErrors
  PROVE  Silence(e) <= Silence(MaxErrors)
<1>1. PICK r \in Nat : r = Round
  BY TimesAssumption DEF Round
<1>2. PICK d \in Nat : MaxErrors = e + d
  <2>1. MaxErrors - e \in Nat /\ MaxErrors = e + (MaxErrors - e)
    BY TimesAssumption
  <2> QED BY <2>1
<1>3. d * r \in Nat /\ (e + 1) * r \in Nat
  OBVIOUS
<1>4. (MaxErrors + 1) * r = (e + 1) * r + d * r
  BY <1>2
<1> QED BY <1>1, <1>3, <1>4, TimesAssumption DEF Silence

-----------------------------------------------------------------------------
(* A serving worker keeps its entry, and keeps it young.                    *)

Prompt == Worker \ Stalling

\* The entry's age now and the time left for the next call add up to at most
\* the longest silence; a write under way carries a time stamp just as young;
\* and no viewer is about to delete the entry.
Shown(w) ==
    /\ Serving(w) =>
          /\ w \in entry
          /\ age[w] + wait[w] <= Silence(errors)
          /\ beat[w] = "sleep" => held[w] = 0
          /\ beat[w] = "write" => held[w] + wait[w] <= Latency
    /\ mode[w] = "new" => w \notin entry
    /\ mode[w] \in {"new", "serving"} => \A v \in Viewer : w \notin reap[v]

ShownInv == TypeOK /\ errors <= MaxErrors /\ \A w \in Prompt : Shown(w)

\* What a step leaves alone of a worker is shown as before.
LEMMA Elsewhere ==
  ASSUME ShownInv, NEW w \in Prompt, TypeOK', errors' \in {errors, errors + 1},
         mode'[w] = mode[w], w \in entry' <=> w \in entry, age'[w] = age[w],
         beat'[w] = beat[w], wait'[w] = wait[w], held'[w] = held[w],
         \A v \in Viewer : reap'[v] \subseteq reap[v]
  PROVE  Shown(w)'
<1>1. PICK e \in Nat : e = errors
  BY DEF ShownInv, TypeOK
<1>2. Silence(e + 1) = Silence(e) + Round /\ Silence(e) \in Nat /\ Round \in Nat
  BY SilenceGrows
<1>3. errors' \in {e, e + 1}
  BY <1>1
<1>4. Silence(e) <= Silence(errors')
  <2>1. CASE errors' = e
    BY <2>1, <1>2
  <2>2. CASE errors' = e + 1
    BY <2>2, <1>2
  <2> QED BY <1>3, <2>1, <2>2
<1>5. Silence(errors') \in Nat
  <2>1. CASE errors' = e
    BY <2>1, <1>2
  <2>2. CASE errors' = e + 1
    BY <2>2, <1>2
  <2> QED BY <1>3, <2>1, <2>2
<1>6. PICK a \in Int, b \in Int : a = age[w] /\ b = wait[w]
  BY DEF ShownInv, TypeOK, Prompt
<1>7. Shown(w)
  BY DEF ShownInv
<1>8. Serving(w)' => Serving(w)
  BY DEF Serving
<1>9. Serving(w) => a + b <= Silence(errors')
  BY <1>1, <1>2, <1>4, <1>5, <1>6, <1>7 DEF Shown
<1> QED BY <1>6, <1>7, <1>8, <1>9 DEF Shown, Serving

\* A heartbeat loop falls asleep after a call: the entry is no older than the
\* longest silence less a round.
LEMMA SleepShown ==
  ASSUME ShownInv, NEW w \in Prompt, TypeOK', Sleep(w), w \in entry',
         mode'[w] = "serving", errors' \in Nat, age'[w] + Round <= Silence(errors'),
         \A v \in Viewer : w \notin reap'[v]
  PROVE  Shown(w)'
<1>1. wait'[w] = Round /\ beat'[w] = "sleep" /\ held'[w] = 0
  BY DEF Sleep, ShownInv, TypeOK, Prompt, Round
<1> QED BY <1>1 DEF Shown, Serving

\* A young entry is refreshed, and the loop falls asleep.
LEMMA FreshShown ==
  ASSUME ShownInv, NEW w \in Prompt, TypeOK', Sleep(w), w \in entry',
         mode'[w] = "serving", errors' = errors, age'[w] <= Latency,
         \A v \in Viewer : w \notin reap'[v]
  PROVE  Shown(w)'
<1>1. Latency + Round <= Silence(errors') /\ Silence(errors') \in Nat /\ Round \in Nat
        /\ errors' \in Nat
  BY SilenceGrows DEF ShownInv, TypeOK
<1>2. age'[w] \in Int
  BY DEF TypeOK, Prompt
<1>3. age'[w] + Round <= Silence(errors')
  <2>1. PICK s \in Nat : s = Silence(errors')
    BY <1>1
  <2>2. PICK r \in Nat : r = Round
    BY <1>1
  <2>3. Latency \in Nat /\ Latency + r <= s
    BY <1>1, <2>1, <2>2, TimesAssumption
  <2>4. age'[w] + r <= s
    BY <1>2, <2>3
  <2> QED BY <2>1, <2>2, <2>4
<1> QED BY <1>1, <1>3, SleepShown

LEMMA RegisterShown ==
  ASSUME ShownInv, TypeOK', NEW w \in Worker, Register(w), NEW u \in Prompt
  PROVE  Shown(u)'
<1>1. PICK late \in 0..Latency : age' = [age EXCEPT ![w] = late]
  BY DEF Register
<1>2. /\ mode[w] = "new" /\ mode' = [mode EXCEPT ![w] = "serving"]
      /\ entry' = entry \cup {w} /\ Sleep(w) /\ reap' = reap /\ errors' = errors
  BY DEF Register
<1>3. CASE u = w
  <2>1. age'[u] <= Latency /\ mode'[u] = "serving" /\ u \in entry'
    BY <1>1, <1>2, <1>3, TimesAssumption DEF ShownInv, TypeOK
  <2>2. \A v \in Viewer : u \notin reap'[v]
    BY <1>2, <1>3 DEF ShownInv, Shown
  <2> QED BY <1>2, <1>3, <2>1, <2>2, FreshShown
<1>4. CASE u # w
  BY <1>1, <1>2, <1>4, Elsewhere DEF Sleep, ShownInv, TypeOK, Prompt
<1> QED BY <1>3, <1>4

LEMMA BeatRowShown ==
  ASSUME ShownInv, TypeOK', NEW w \in Worker, BeatRow(w), NEW u \in Prompt
  PROVE  Shown(u)'
<1>1. /\ mode[w] = "serving" /\ mode' = mode /\ age' = [age EXCEPT ![w] = 0]
      /\ entry' = entry /\ Sleep(w) /\ reap' = reap /\ errors' = errors
  BY DEF BeatRow, Awake, Serving
<1>2. CASE u = w
  <2>1. age'[u] <= Latency /\ mode'[u] = "serving"
    BY <1>1, <1>2, TimesAssumption DEF ShownInv, TypeOK
  <2>2. u \in entry' /\ \A v \in Viewer : u \notin reap'[v]
    BY <1>1, <1>2 DEF ShownInv, Shown, Serving
  <2> QED BY <1>1, <1>2, <2>1, <2>2, FreshShown
<1>3. CASE u # w
  BY <1>1, <1>3, Elsewhere DEF Sleep, ShownInv, TypeOK, Prompt
<1> QED BY <1>2, <1>3

LEMMA BeatReadShown ==
  ASSUME ShownInv, TypeOK', NEW w \in Worker, BeatRead(w), NEW u \in Prompt
  PROVE  Shown(u)'
<1>1. /\ mode[w] = "serving" /\ beat[w] = "sleep" /\ wait[w] <= Latency /\ mode' = mode
      /\ age' = age /\ entry' = entry /\ reap' = reap /\ errors' = errors
  BY DEF BeatRead, Awake, Serving, registry
<1>2. CASE u = w
  <2>1. Shown(u) /\ u \in entry /\ held[u] = 0
    BY <1>1, <1>2 DEF ShownInv, Shown, Serving
  <2>2. beat' = [beat EXCEPT ![u] = "write"] /\ wait' = wait /\ held' = held
    BY <1>2, <2>1 DEF BeatRead
  <2>3. beat'[u] = "write" /\ held'[u] + wait'[u] <= Latency
    BY <1>1, <1>2, <2>1, <2>2 DEF ShownInv, TypeOK
  <2> QED BY <1>1, <2>1, <2>2, <2>3 DEF Shown, Serving
<1>3. CASE u # w
  <2>1. beat'[u] = beat[u] /\ wait'[u] = wait[u] /\ held'[u] = held[u]
    BY <1>3 DEF BeatRead, Sleep, ShownInv, TypeOK, Prompt
  <2> QED BY <1>1, <2>1, Elsewhere
<1> QED BY <1>2, <1>3

LEMMA BeatWriteShown ==
  ASSUME ShownInv, TypeOK', NEW w \in Worker, BeatWrite(w), NEW u \in Prompt
  PROVE  Shown(u)'
<1>1. /\ mode[w] = "serving" /\ beat[w] = "write" /\ mode' = mode
      /\ age' = [age EXCEPT ![w] = held[w]]
      /\ entry' = entry \cup {w} /\ Sleep(w) /\ reap' = reap /\ errors' = errors
  BY DEF BeatWrite, Serving
<1>2. CASE u = w
  <2>1. held[u] + wait[u] <= Latency /\ held[u] \in Nat /\ wait[u] \in Nat
    BY <1>1, <1>2 DEF ShownInv, Shown, Serving, TypeOK
  <2>2. age'[u] <= Latency /\ mode'[u] = "serving"
    BY <1>1, <1>2, <2>1, TimesAssumption DEF ShownInv, TypeOK
  <2>3. u \in entry' /\ \A v \in Viewer : u \notin reap'[v]
    BY <1>1, <1>2 DEF ShownInv, Shown
  <2> QED BY <1>1, <1>2, <2>2, <2>3, FreshShown
<1>3. CASE u # w
  BY <1>1, <1>3, Elsewhere DEF Sleep, ShownInv, TypeOK, Prompt
<1> QED BY <1>2, <1>3

LEMMA BeatFailsShown ==
  ASSUME ShownInv, TypeOK', NEW w \in Worker, BeatFails(w), NEW u \in Prompt
  PROVE  Shown(u)'
<1>1. /\ mode[w] = "serving" /\ mode' = mode /\ age' = age
      /\ entry' = entry /\ Sleep(w) /\ reap' = reap /\ errors' = errors + 1
  BY DEF BeatFails, Awake, Serving, registry
<1>2. CASE u = w
  <2>1. u \in entry' /\ mode'[u] = "serving" /\ \A v \in Viewer : u \notin reap'[v]
    BY <1>1, <1>2 DEF ShownInv, Shown, Serving
  <2>2. PICK e \in Nat, a \in Nat, b \in Nat : e = errors /\ a = age[u] /\ b = wait[u]
    BY DEF ShownInv, TypeOK, Prompt
  <2>3. a + b <= Silence(e)
    BY <1>1, <1>2, <2>2 DEF ShownInv, Shown, Serving
  <2>4. Silence(e + 1) = Silence(e) + Round /\ Silence(e) \in Nat /\ Round \in Nat
    BY SilenceGrows
  <2>5. a + Round <= Silence(e + 1)
    BY <2>3, <2>4
  <2>6. errors' = e + 1 /\ age'[u] = a
    BY <1>1, <2>2
  <2> QED BY <1>1, <1>2, <2>1, <2>5, <2>6, SleepShown
<1>3. CASE u # w
  BY <1>1, <1>3, Elsewhere DEF Sleep, ShownInv, TypeOK, Prompt
<1> QED BY <1>2, <1>3

\* Workers that are no longer serving are not shown by duty.
LEMMA StopShown ==
  ASSUME ShownInv, TypeOK', NEW w \in Worker, NEW u \in Prompt,
         NEW next \in {"draining", "gone"}, StopBeat(w, next)
  PROVE  Shown(u)'
<1>1. /\ mode' = [mode EXCEPT ![w] = next] /\ beat' = [beat EXCEPT ![w] = "ended"]
      /\ wait' = [wait EXCEPT ![w] = 0] /\ held' = [held EXCEPT ![w] = 0]
      /\ reap' = reap /\ errors' = errors
      /\ u # w => (u \in entry' <=> u \in entry)
  BY DEF StopBeat, registry
<1>2. CASE u = w
  BY <1>1, <1>2 DEF Shown, Serving, ShownInv, TypeOK
<1>3. CASE u # w
  <2>1. age'[u] = age[u]
    BY <1>3 DEF StopBeat, registry, ShownInv, TypeOK, Prompt
  <2> QED BY <1>1, <1>3, <2>1, Elsewhere DEF ShownInv, TypeOK, Prompt
<1> QED BY <1>2, <1>3

LEMMA LeaveShown ==
  ASSUME ShownInv, TypeOK', NEW w \in Worker, NEW u \in Prompt, Deregister(w) \/ Crash(w)
  PROVE  Shown(u)'
<1>1. CASE StopBeat(w, "gone")
  BY <1>1, StopShown
<1>2. CASE ~StopBeat(w, "gone")
  <2>1. /\ mode[w] = "draining" /\ mode' = [mode EXCEPT ![w] = "gone"]
        /\ UNCHANGED loop /\ reap' = reap /\ errors' = errors
        /\ UNCHANGED registry \/ Remove({w})
    BY <1>2 DEF Deregister, Crash
  <2>2. CASE u = w
    BY <2>1, <2>2 DEF Shown, Serving, ShownInv, TypeOK
  <2>3. CASE u # w
    <3>1. age'[u] = age[u] /\ (u \in entry' <=> u \in entry)
      BY <2>1, <2>3 DEF registry, Remove, ShownInv, TypeOK, Prompt
    <3> QED BY <2>1, <2>3, <3>1, Elsewhere DEF loop, ShownInv, TypeOK, Prompt
  <2> QED BY <2>2, <2>3
<1> QED BY <1>1, <1>2

\* By no clock is the entry of a serving worker stale.
LEMMA NeverStale ==
  ASSUME BeatsOutliveTTL, ShownInv, NEW u \in Prompt, Serving(u)
  PROVE  age[u] + MaxSkew < TTL
<1>1. PICK e \in Nat, a \in Nat, b \in Nat : e = errors /\ a = age[u] /\ b = wait[u]
  BY DEF ShownInv, TypeOK, Prompt
<1>2. a + b <= Silence(e) /\ e <= MaxErrors
  BY <1>1 DEF ShownInv, Shown
<1>3. Silence(e) <= Silence(MaxErrors)
  BY <1>2, SilenceMost
<1>4. Silence(e) \in Nat /\ Silence(MaxErrors) \in Nat
  BY SilenceGrows, TimesAssumption
<1>5. Silence(MaxErrors) + MaxSkew < TTL
  BY DEF BeatsOutliveTTL, Silence, Round
<1>6. a + MaxSkew < TTL
  BY <1>2, <1>3, <1>4, <1>5, TimesAssumption
<1> QED BY <1>1, <1>6

LEMMA ListShown ==
  ASSUME BeatsOutliveTTL, ShownInv, TypeOK', NEW v \in Viewer, List(v), NEW u \in Prompt
  PROVE  Shown(u)'
<1>1. PICK skew \in (-MaxSkew)..MaxSkew : reap' = [reap EXCEPT ![v] = Stale(skew)]
  BY DEF List
<1>2. UNCHANGED <<mode, registry, loop, errors>>
  BY DEF List
<1>3. Shown(u)
  BY DEF ShownInv
<1>4. ASSUME mode[u] \in {"new", "serving"} PROVE u \notin Stale(skew)
  <2>1. CASE mode[u] = "new"
    BY <2>1, <1>3 DEF Shown, Stale
  <2>2. CASE mode[u] = "serving"
    <3>1. age[u] + MaxSkew < TTL
      BY <2>2, NeverStale DEF Serving
    <3>2. age[u] \in Nat
      BY DEF ShownInv, TypeOK, Prompt
    <3>3. ~(age[u] + skew > ReapAfter)
      BY <3>1, <3>2, TimesAssumption
    <3> QED BY <3>3 DEF Stale
  <2> QED BY <1>4, <2>1, <2>2
<1>5. mode[u] \in {"new", "serving"} => \A x \in Viewer : u \notin reap'[x]
  BY <1>1, <1>3, <1>4 DEF Shown, ShownInv, TypeOK
<1> QED BY <1>2, <1>3, <1>5 DEF Shown, Serving, registry, loop

LEMMA ReapShown ==
  ASSUME ShownInv, TypeOK', NEW v \in Viewer, Reap(v), NEW u \in Prompt
  PROVE  Shown(u)'
<1>1. /\ Remove(reap[v]) /\ reap' = [reap EXCEPT ![v] = {}]
      /\ UNCHANGED <<mode, loop, errors>>
  BY DEF Reap
<1>2. \A x \in Viewer : reap'[x] \subseteq reap[x]
  BY <1>1 DEF ShownInv, TypeOK
<1>3. CASE u \in reap[v]
  <2>1. mode[u] \notin {"new", "serving"}
    BY <1>3 DEF ShownInv, Shown
  <2> QED BY <1>1, <2>1 DEF Shown, Serving
<1>4. CASE u \notin reap[v]
  <2>1. age'[u] = age[u] /\ (u \in entry' <=> u \in entry)
    BY <1>1, <1>4 DEF Remove, Prompt
  <2> QED BY <1>1, <1>2, <2>1, Elsewhere DEF loop
<1> QED BY <1>3, <1>4

\* Time makes the entry older by as much as it brings the next call nearer.
LEMMA TickShown ==
  ASSUME ShownInv, TypeOK', Tick, NEW u \in Prompt
  PROVE  Shown(u)'
<1>1. UNCHANGED <<mode, entry, beat, reap, errors>>
  BY DEF Tick
<1>2. Shown(u)
  BY DEF ShownInv
<1>3. ASSUME Serving(u)
      PROVE  /\ age'[u] + wait'[u] <= Silence(errors)
             /\ beat[u] = "sleep" => held'[u] = 0
             /\ beat[u] = "write" => held'[u] + wait'[u] <= Latency
  <2>1. u \in entry /\ wait[u] > 0
    BY <1>2, <1>3 DEF Shown, Tick, Prompt
  <2>2. PICK a \in 0..MaxAge, b \in Nat, h \in 0..MaxAge, e \in Nat :
           a = age[u] /\ b = wait[u] /\ h = held[u] /\ e = errors
    BY DEF ShownInv, TypeOK, Prompt
  <2>3. b > 0 /\ wait'[u] = b - 1 /\ age'[u] = Older(a)
          /\ held'[u] = IF beat[u] = "write" THEN Older(h) ELSE h
    BY <2>1, <2>2 DEF Tick, Prompt
  <2>4. Older(a) \in {a, a + 1} /\ Older(h) \in {h, h + 1}
    BY OlderType
  <2>5. a + b <= Silence(e) /\ Silence(e) \in Nat
    BY <1>2, <1>3, <2>2, SilenceGrows DEF Shown
  <2>6. Older(a) + (b - 1) <= Silence(e)
    BY <2>2, <2>3, <2>4, <2>5
  <2>7. beat[u] = "write" => Older(h) + (b - 1) <= Latency
    <3>1. beat[u] = "write" => h + b <= Latency
      BY <1>2, <1>3, <2>2 DEF Shown
    <3> QED BY <2>2, <2>3, <2>4, <3>1, TimesAssumption
  <2>8. beat[u] = "sleep" => h = 0
    BY <1>2, <1>3, <2>2 DEF Shown
  <2> QED BY <2>2, <2>3, <2>6, <2>7, <2>8
<1> QED BY <1>1, <1>2, <1>3 DEF Shown, Serving

\* Every step preserves the invariant.
LEMMA ShownStep == ASSUME BeatsOutliveTTL PROVE ShownInv /\ [Next]_vars => ShownInv'
<1> SUFFICES ASSUME ShownInv, [Next]_vars PROVE ShownInv'
  OBVIOUS
<1>1. TypeOK'
  BY TypeStep DEF ShownInv
<1>2. errors' <= MaxErrors
  <2>1. errors \in Nat /\ errors <= MaxErrors
    BY DEF ShownInv, TypeOK
  <2>2. errors' = errors \/ (errors < MaxErrors /\ errors' = errors + 1)
    <3>1. ASSUME NEW w \in Worker, BeatFails(w) PROVE errors < MaxErrors /\ errors' = errors + 1
      BY <3>1 DEF BeatFails
    <3> QED
      BY <3>1 DEF Next, Register, BeatRow, BeatRead, BeatWrite, Stop, StopBeat, Deregister,
         Crash, List, Reap, Tick, vars
  <2> QED BY <2>1, <2>2, TimesAssumption
<1>3. ASSUME NEW u \in Prompt PROVE Shown(u)'
  <2>1. ASSUME NEW w \in Worker,
               Register(w) \/ BeatRow(w) \/ BeatRead(w) \/ BeatWrite(w) \/ BeatFails(w)
        PROVE  Shown(u)'
    BY <1>1, <2>1, RegisterShown, BeatRowShown, BeatReadShown, BeatWriteShown, BeatFailsShown
  <2>2. ASSUME NEW w \in Worker, Stop(w) \/ Deregister(w) \/ Crash(w) PROVE Shown(u)'
    BY <1>1, <2>2, StopShown, LeaveShown DEF Stop
  <2>3. ASSUME NEW v \in Viewer, List(v) \/ Reap(v) PROVE Shown(u)'
    BY <1>1, <2>3, ListShown, ReapShown
  <2>4. CASE Tick
    BY <1>1, <2>4, TickShown
  <2>5. CASE UNCHANGED vars
    BY <1>1, <2>5, Elsewhere DEF vars, ShownInv, TypeOK
  <2> QED BY <2>1, <2>2, <2>3, <2>4, <2>5 DEF Next
<1> QED BY <1>1, <1>2, <1>3 DEF ShownInv

\* Whoever lists the workers sees every serving one whose loop is not blocked
\* as alive: late and failed heartbeats, skewed clocks, and the reaping of
\* entries read before they were refreshed never hide it, as long as TTL leaves
\* room for them (Worker._heartbeat_loop, heartbeat_worker, list_workers).
THEOREM ServingWorkersShown == Spec => []ServingShown
<1>1. CASE BeatsOutliveTTL
  <2>1. Init => ShownInv
    <3> SUFFICES ASSUME Init PROVE ShownInv
      OBVIOUS
    <3>1. \A u \in Prompt : Shown(u)
      BY DEF Init, Shown, Serving, Prompt
    <3> QED BY <3>1, TypeInit, TimesAssumption DEF ShownInv, Init
  <2>2. ShownInv => ServingShown
    BY NeverStale DEF ShownInv, Shown, ServingShown, Alive, Prompt
  <2>3. ShownInv /\ [Next]_vars => ShownInv'
    BY <1>1, ShownStep
  <2> QED BY <2>1, <2>2, <2>3, PTL DEF Spec
<1>2. CASE ~BeatsOutliveTTL
  <2>1. ServingShown
    BY <1>2 DEF ServingShown
  <2> QED BY <2>1, PTL
<1> QED BY <1>1, <1>2
===============================================================================
