------------------------- MODULE RedisDeliveryProofs -------------------------
(***************************************************************************)
(* Theorems about where the jobs of RedisJobs are and what is stored of      *)
(* them: a lost process strands one job at most, nothing else does; without  *)
(* dependencies, a job is never in two places and never claimed before its   *)
(* run_at; without cancels too, the index agrees with the records, every job *)
(* lives as JobLifecycle promises, and a purge deletes finished jobs only.   *)
(***************************************************************************)
EXTENDS RedisJobsProofs, FunctionTheorems

-----------------------------------------------------------------------------
(* The places a job can be in: with a process, in a list, in a deferred set. *)

\* p has job k: a slot that was delivered it, a client about to push it.
Holds(p, k) == \/ p \in Slot /\ Delivered(p, k)
               \/ p \in Client /\ WillPush(p, k)

\* The same of a process that is in a given state after a step.
HoldsAs(p, state, k) ==
    /\ state.job = k
    /\ \/ p \in Slot /\ state.pc \in {"popped", "claimed", "invoke", "register", "check",
                                      "get", "write"}
       \/ p \in Client /\ state.pc \in {"register", "check"}
       \/ p \in Client /\ state.pc \in {"get", "write"} /\ (state.push \/ state.next = "enqueue")

InList(q, t, k) == \E i \in DOMAIN pending[q][t] : pending[q][t][i] = k

LEMMA HoldsMoved ==
  ASSUME Types, NEW p \in Proc, NEW state, Become(p, state), NEW k
  PROVE  /\ Holds(p, k)' <=> HoldsAs(p, state, k)
         /\ \A r \in Proc \ {p} : Holds(r, k)' <=> Holds(r, k)
<1>1. proc'[p] = state /\ \A r \in Proc \ {p} : proc'[r] = proc[r]
  BY Moved
<1>2. Holds(p, k)' <=> HoldsAs(p, state, k)
  BY <1>1 DEF Holds, HoldsAs, Delivered, WillPush
<1>3. ASSUME NEW r \in Proc \ {p} PROVE Holds(r, k)' <=> Holds(r, k)
  BY <1>1 DEF Holds, Delivered, WillPush
<1> QED BY <1>2, <1>3

\* Who is in a list after an LPUSH.
LEMMA LPushIn ==
  ASSUME Types, NEW j \in Job, NEW queue \in Queue, LPush(j, queue),
         NEW q \in Queue, NEW t \in Tier, NEW k
  PROVE  InList(q, t, k)' <=> InList(q, t, k) \/ (k = j /\ q = queue /\ t = TierOf(j))
<1>1. ASSUME InList(q, t, k)' PROVE InList(q, t, k) \/ (k = j /\ q = queue /\ t = TierOf(j))
  <2>1. PICK i \in DOMAIN pending'[q][t] : pending'[q][t][i] = k
    BY <1>1 DEF InList
  <2> QED BY <2>1, LPushEntries DEF InList
<1>2. PICK list \in Seq(Job) : list = pending[q][t]
  BY DEF Types, TypeOK
<1>3. PICK longer : longer = <<j>> \o list
  OBVIOUS
<1>4. Len(longer) = Len(list) + 1 /\ longer[1] = j
      /\ \A i \in DOMAIN list : i + 1 \in DOMAIN longer /\ longer[i + 1] = list[i]
  BY <1>3
<1>5. CASE q = queue /\ t = TierOf(j)
  <2>1. pending'[q][t] = longer
    BY <1>2, <1>3, <1>5, LPushType
  <2>2. 1 \in DOMAIN longer
    BY <1>2, <1>3, <1>4
  <2>3. ASSUME k = j PROVE InList(q, t, k)'
    BY <1>4, <2>1, <2>2, <2>3 DEF InList
  <2>4. ASSUME InList(q, t, k) PROVE InList(q, t, k)'
    <3>1. PICK i \in DOMAIN list : list[i] = k
      BY <1>2, <2>4 DEF InList
    <3>2. PICK n : n = i + 1
      OBVIOUS
    <3>3. n \in DOMAIN longer /\ longer[n] = k
      BY <1>4, <3>1, <3>2
    <3> QED BY <2>1, <3>3 DEF InList
  <2> QED BY <1>1, <1>5, <2>3, <2>4
<1>6. CASE ~(q = queue /\ t = TierOf(j))
  <2>1. pending'[q][t] = list
    BY <1>2, <1>6, LPushType
  <2> QED BY <1>1, <1>2, <1>6, <2>1 DEF InList
<1> QED BY <1>5, <1>6

\* A script pushes every id it was given: as many as the set has, and none twice.
LEMMA OrdersAll ==
  ASSUME NEW S \in SUBSET Job, NEW order \in Orders(S), NEW k \in S
  PROVE  \E i \in DOMAIN order : order[i] = k
<1>1. IsFiniteSet(S) /\ Cardinality(S) \in Nat
  BY JobAssumption, FS_Subset, FS_CardinalityType
<1>2. PICK n \in Nat : n = Cardinality(S)
  BY <1>1
<1>3. PICK N : N = 1 .. n
  OBVIOUS
<1>4. order \in [N -> S] /\ \A x, y \in N : order[x] = order[y] => x = y
  BY <1>2, <1>3 DEF Orders
<1>5. order \in Injection(N, S)
  BY <1>4, Fun_IsInj
<1>6. Cardinality(N) = n
  BY <1>3, FS_Interval
<1>7. order \in Surjection(N, S)
  BY <1>1, <1>2, <1>5, <1>6, FS_Injection
<1> QED BY <1>4, <1>7 DEF Surjection

LEMMA PromoteIn ==
  ASSUME Types, NEW s \in Slot, PromoteDeferred(s),
         NEW q \in Queue, NEW t \in Tier, NEW k
  PROVE  InList(q, t, k)' <=> \/ InList(q, t, k)
                              \/ <<q, t>> \in RipeCells(s) /\ k \in Ripe(q, t)
<1>1. PICK list \in Seq(Job) : list = pending[q][t]
  BY DEF Types, TypeOK
<1>2. CASE <<q, t>> \notin RipeCells(s)
  <2>1. pending'[q][t] = list
    BY <1>1, <1>2, PromoteShape
  <2> QED BY <1>1, <1>2, <2>1 DEF InList
<1>3. CASE <<q, t>> \in RipeCells(s)
  <2>1. PICK order \in Orders(Ripe(q, t)) : pending'[q][t] = order \o list
    BY <1>1, <1>3, PromoteShape
  <2>2. Ripe(q, t) \in SUBSET Job
    BY DEF Ripe
  <2>3. order \in Seq(Ripe(q, t)) /\ order \in Seq(Job)
    BY <2>2, OrdersType
  <2>4. PICK longer : longer = order \o list
    OBVIOUS
  <2>5. pending'[q][t] = longer
    BY <2>1, <2>4
  <2>6. /\ \A i \in DOMAIN order : i \in DOMAIN longer /\ longer[i] = order[i]
        /\ \A i \in DOMAIN list : /\ i + Len(order) \in DOMAIN longer
                                  /\ longer[i + Len(order)] = list[i]
    <3>1. /\ DOMAIN order = 1 .. Len(order) /\ DOMAIN list = 1 .. Len(list)
          /\ Len(order) \in Nat /\ Len(list) \in Nat
          /\ DOMAIN longer = 1 .. Len(order) + Len(list)
      BY <1>1, <2>3, <2>4
    <3>2. \A i \in 1 .. Len(order) + Len(list) :
             longer[i] = IF i <= Len(order) THEN order[i] ELSE list[i - Len(order)]
      BY <1>1, <2>3, <2>4
    <3>3. PICK m \in Nat, n \in Nat : m = Len(order) /\ n = Len(list)
      BY <3>1
    <3>4. \A i \in 1 .. m : i \in DOMAIN longer /\ longer[i] = order[i]
      BY <3>1, <3>2, <3>3
    <3>5. ASSUME NEW i \in 1 .. n
          PROVE  i + m \in DOMAIN longer /\ longer[i + m] = list[i]
      <4>1. PICK x \in 1 .. m + n : x = i + m
        BY <3>3
      <4>2. ~(x <= m) /\ x - m = i
        BY <4>1
      <4> QED BY <3>1, <3>2, <3>3, <4>1, <4>2
    <3> QED BY <3>1, <3>3, <3>4, <3>5
  <2>7. ASSUME InList(q, t, k) PROVE InList(q, t, k)'
    <3>1. PICK i \in DOMAIN list : list[i] = k
      BY <1>1, <2>7 DEF InList
    <3>2. PICK n : n = i + Len(order)
      OBVIOUS
    <3>3. n \in DOMAIN longer /\ longer[n] = k
      BY <2>6, <3>1, <3>2
    <3> QED BY <2>5, <3>3 DEF InList
  <2>8. ASSUME k \in Ripe(q, t) PROVE InList(q, t, k)'
    <3>1. PICK i \in DOMAIN order : order[i] = k
      BY <2>2, <2>8, OrdersAll
    <3> QED BY <2>5, <2>6, <3>1 DEF InList
  <2>9. ASSUME InList(q, t, k)' PROVE InList(q, t, k) \/ k \in Ripe(q, t)
    <3>1. PICK i \in DOMAIN longer : longer[i] = k
      BY <2>5, <2>9 DEF InList
    <3>2. i \in 1 .. Len(order) + Len(list)
      BY <1>1, <2>3, <2>4, <3>1
    <3>3. CASE i <= Len(order)
      <4>1. i \in DOMAIN order /\ order[i] = k
        BY <2>3, <2>6, <3>1, <3>2, <3>3
      <4>2. order[i] \in Ripe(q, t)
        BY <2>3, <4>1
      <4> QED BY <4>1, <4>2
    <3>4. CASE i > Len(order)
      <4>1. PICK n : n = i - Len(order)
        OBVIOUS
      <4>2. n \in DOMAIN list /\ n + Len(order) = i
        BY <1>1, <2>3, <3>2, <3>4, <4>1
      <4>3. list[n] = k
        BY <2>6, <3>1, <4>2
      <4> QED BY <1>1, <4>2, <4>3 DEF InList
    <3> QED BY <2>3, <3>2, <3>3, <3>4
  <2> QED BY <1>3, <2>7, <2>8, <2>9
<1> QED BY <1>2, <1>3

\* What a pop takes, it takes from one list, and leaves the rest.
LEMMA PopIn ==
  ASSUME Types, NEW s \in Slot, NEW i \in DOMAIN Queues[s], NEW t \in Tier, Pop(s, i, t)
  PROVE  \E q \in Queue, j \in Job, state \in ProcState :
           /\ Become(s, state) /\ state.pc = "popped" /\ state.job = j
           /\ InList(q, t, j)
           /\ \A r \in Queue, u \in Tier, k \in Job :
                /\ InList(r, u, k)' => InList(r, u, k)
                /\ InList(r, u, k) /\ k # j => InList(r, u, k)'
           /\ \A x \in DOMAIN pending'[q][t] : /\ x \in DOMAIN pending[q][t]
                                               /\ pending'[q][t][x] = pending[q][t][x]
                                               /\ x # Len(pending[q][t])
           /\ Len(pending[q][t]) \in DOMAIN pending[q][t]
           /\ pending[q][t][Len(pending[q][t])] = j
           /\ \A r \in Queue, u \in Tier : r # q \/ u # t => pending'[r][u] = pending[r][u]
<1>1. PICK q \in Queue, list \in Seq(Job) :
         /\ list = pending[q][t] /\ Len(list) \in Nat \ {0}
         /\ pending'[q][t] = SubSeq(list, 1, Len(list) - 1)
         /\ \A r \in Queue, u \in Tier : r # q \/ u # t => pending'[r][u] = pending[r][u]
         /\ list[Len(list)] \in Job
         /\ \E state : /\ Formed(state) /\ Become(s, state) /\ state.pc = "popped"
                       /\ state.job = list[Len(list)]
  <2>1. PICK q \in Queue, list \in Seq(Job) : Pops(s, q, t, list)
    BY PopShape
  <2> QED BY <2>1 DEF Pops
<1>2. PICK n \in Nat \ {0} : n = Len(list)
  BY <1>1
<1>3. PICK shorter : shorter = SubSeq(list, 1, n - 1)
  OBVIOUS
<1>4. /\ DOMAIN list = 1 .. n /\ DOMAIN shorter = 1 .. n - 1
      /\ \A x \in 1 .. n - 1 : shorter[x] = list[x]
  BY <1>2, <1>3
<1>5. pending'[q][t] = shorter /\ pending[q][t] = list
  BY <1>1, <1>2, <1>3
<1>6. PICK j \in Job : j = list[n]
  BY <1>1, <1>2
<1>7. n \in DOMAIN list
  BY <1>4
<1>8. InList(q, t, j)
  BY <1>5, <1>6, <1>7 DEF InList
<1>9. ASSUME NEW r \in Queue, NEW u \in Tier, NEW k \in Job
      PROVE  /\ InList(r, u, k)' => InList(r, u, k)
             /\ InList(r, u, k) /\ k # j => InList(r, u, k)'
  <2>1. CASE r = q /\ u = t
    <3>1. InList(r, u, k)' => InList(r, u, k)
      BY <1>4, <1>5, <2>1 DEF InList
    <3>2. ASSUME InList(r, u, k), k # j PROVE InList(r, u, k)'
      <4>1. PICK x \in 1 .. n : list[x] = k
        BY <1>4, <1>5, <2>1, <3>2 DEF InList
      <4>2. x \in 1 .. n - 1
        BY <1>6, <3>2, <4>1
      <4> QED BY <1>4, <1>5, <2>1, <4>1, <4>2 DEF InList
    <3> QED BY <3>1, <3>2
  <2>2. CASE ~(r = q /\ u = t)
    <3>1. pending'[r][u] = pending[r][u]
      BY <1>1, <2>2
    <3> QED BY <3>1 DEF InList
  <2> QED BY <2>1, <2>2
<1>10. \A x \in DOMAIN shorter : x \in DOMAIN list /\ shorter[x] = list[x] /\ x # n
  BY <1>4
<1>11. /\ \A x \in DOMAIN pending'[q][t] : /\ x \in DOMAIN pending[q][t]
                                           /\ pending'[q][t][x] = pending[q][t][x]
                                           /\ x # Len(pending[q][t])
       /\ Len(pending[q][t]) \in DOMAIN pending[q][t]
       /\ pending[q][t][Len(pending[q][t])] = j
  BY <1>1, <1>2, <1>5, <1>6, <1>7, <1>10
<1>12. PICK state \in ProcState : Become(s, state) /\ state.pc = "popped" /\ state.job = j
  BY <1>1, <1>2, <1>6 DEF Formed
<1> QED BY <1>1, <1>8, <1>9, <1>11, <1>12

-----------------------------------------------------------------------------
(* No stranded job.                                                         *)

\* The job is in some place.
Pursued(k) == \/ \E p \in Proc : Holds(p, k)
              \/ \E q \in Queue, t \in Tier : InList(q, t, k)
              \/ \E q \in Queue : deferred[q][k] # "none"

\* The statuses of the jobs that someone has to finish.
LIVE == RUNNABLE \cup {"running"}

\* The jobs that nobody will finish, as far as their places tell.
Astray == {k \in Job : record[k].status \in LIVE /\ ~Pursued(k)}

\* A process that stores a job as runnable pushes it as well, or is a client that
\* goes on to push it; one that stores it as running is a slot that goes on to run it.
SendsAs(p, state) ==
    /\ state.pc \in {"get", "write"} /\ state.held.status \in RUNNABLE =>
         state.push \/ (p \in Client /\ state.next = "enqueue")
    /\ state.pc \in {"get", "write"} /\ state.held.status = "running" =>
         p \in Slot /\ state.next = "invoke"
    /\ state.pc \in {"register", "check"} => state.held.status # "running"
Sending == \A p \in Proc : SendsAs(p, proc[p])

\* A step after which no job is astray that was not before.
Keeps == Sending' /\ \A k \in Job : k \in Astray' => k \in Astray

LEMMA PursuedSource ==
  ASSUME NEW k \in Job
  PROVE  Pursued(k) => Sources(k) # {} \/ \E c \in Client : WillPush(c, k)
<1>1. ASSUME NEW s \in Slot, Delivered(s, k) PROVE <<"slot", s>> \in Sources(k)
  BY <1>1 DEF Sources
<1>2. ASSUME NEW q \in Queue, NEW t \in Tier, NEW i \in Entries(q, t, k)
      PROVE  <<"list", <<<<q, t>>, i>>>> \in Sources(k)
  <2>1. PICK c \in Queue \X Tier : c = <<q, t>>
    OBVIOUS
  <2>2. <<c, i>> \in {c} \X Entries(c[1], c[2], k)
    BY <2>1
  <2>3. <<c, i>> \in Listings(k)
    BY <2>2 DEF Listings
  <2> QED BY <2>1, <2>3 DEF Sources
<1>3. ASSUME NEW q \in Queue, deferred[q][k] # "none" PROVE <<"deferred", q>> \in Sources(k)
  BY <1>3 DEF Sources
<1>4. \A q \in Queue, t \in Tier : InList(q, t, k) => Entries(q, t, k) # {}
  BY DEF InList, Entries
<1> QED BY <1>1, <1>2, <1>3, <1>4 DEF Pursued, Holds

\* A step of p that puts every job it lets go of in another place, or stores it
\* as one that cannot run.
LEMMA PursuitMoves ==
  ASSUME Types, Sending, NEW p \in Proc, NEW state, Become(p, state), SendsAs(p, state),
         \A k \in Job : record'[k].status \in LIVE =>
            \/ HoldsAs(p, state, k)
            \/ \E q \in Queue, t \in Tier : InList(q, t, k)'
            \/ \E q \in Queue : deferred'[q][k] # "none"
            \/ /\ record[k].status \in LIVE /\ ~Holds(p, k)
               /\ \A q \in Queue, t \in Tier : InList(q, t, k) => InList(q, t, k)'
               /\ \A q \in Queue : deferred[q][k] # "none" => deferred'[q][k] # "none"
  PROVE  Keeps
<1>1. proc'[p] = state /\ \A r \in Proc \ {p} : proc'[r] = proc[r]
  BY Moved
<1>2. \A r \in Proc : SendsAs(r, proc[r])'
  BY <1>1 DEF Sending, SendsAs
<1>3. ASSUME NEW k \in Job, k \in Astray' PROVE k \in Astray
  <2>1. record'[k].status \in LIVE /\ ~Pursued(k)'
    BY <1>3 DEF Astray
  <2>2. ~HoldsAs(p, state, k)
    BY <2>1, HoldsMoved DEF Pursued
  <2>3. /\ record[k].status \in LIVE /\ ~Holds(p, k)
        /\ \A q \in Queue, t \in Tier : InList(q, t, k) => InList(q, t, k)'
        /\ \A q \in Queue : deferred[q][k] # "none" => deferred'[q][k] # "none"
    BY <2>1, <2>2 DEF Pursued
  <2>4. \A r \in Proc : Holds(r, k) => Holds(r, k)'
    BY <2>3, HoldsMoved
  <2>5. ~Pursued(k)
    BY <2>1, <2>3, <2>4 DEF Pursued
  <2> QED BY <2>3, <2>5 DEF Astray
<1> QED BY <1>2, <1>3 DEF Keeps, Sending

\* A step of p that moves nothing but p.
LEMMA PursuitGoesOn ==
  ASSUME Types, Sending, NEW p \in Proc, NEW state, Become(p, state),
         pending' = pending, deferred' = deferred, SendsAs(p, state),
         \A k \in Job : record'[k].status \in LIVE =>
            \/ HoldsAs(p, state, k)
            \/ record[k].status \in LIVE /\ ~Holds(p, k)
  PROVE  Keeps
<1>1. \A q \in Queue, t \in Tier, k \in Job : InList(q, t, k) => InList(q, t, k)'
  BY DEF InList
<1> QED BY <1>1, PursuitMoves

\* A step of p that stores nothing.
LEMMA PursuitLocal ==
  ASSUME Types, Sending, NEW p \in Proc, NEW state, Become(p, state), UNCHANGED store,
         SendsAs(p, state),
         \A k \in Job : record[k].status \in LIVE /\ Holds(p, k) => HoldsAs(p, state, k)
  PROVE  Keeps
<1>1. record' = record /\ pending' = pending /\ deferred' = deferred
  BY DEF store
<1> QED BY <1>1, PursuitGoesOn

LEMMA WorkPursues ==
  ASSUME Types, Sending, NEW s \in Slot, Work(s)
  PROVE  Keeps
<1>0. s \in Proc /\ s \notin Client
  BY SetsAssumption DEF Proc
<1>1. CASE Load(s)
  <2>1. proc[s].pc = "popped" /\ UNCHANGED store
    BY <1>1, LoadShape
  <2>2. PICK state : /\ Become(s, state) /\ state.job = proc[s].job
                     /\ \/ state.pc = "claimed"
                        \/ state.pc = "gone" /\ ~Exists(proc[s].job)
    BY <1>1, LoadShape
  <2>3. SendsAs(s, state)
    BY <2>2 DEF SendsAs
  <2>4. \A k \in Job : record[k].status \in LIVE /\ Holds(s, k) => HoldsAs(s, state, k)
    BY <1>0, <2>1, <2>2 DEF Holds, HoldsAs, Delivered, Exists, LIVE, RUNNABLE
  <2> QED BY <1>0, <2>1, <2>2, <2>3, <2>4, PursuitLocal
<1>2. CASE Drop(s)
  <2>1. /\ proc[s].pc = "gone" /\ proc[s].job \in Job /\ Become(s, Idle)
        /\ Forget(proc[s].job, {}, JobStatus)
    BY <1>2, DropShape
  <2>2. PICK j \in Job : j = proc[s].job
    BY <2>1
  <2>3. /\ record' = [record EXCEPT ![j] = Absent]
        /\ pending' = pending /\ deferred' = deferred
    BY <2>1, <2>2 DEF Forget
  <2>4. record \in [Job -> Record]
    BY DEF Types, TypeOK
  <2>5. SendsAs(s, Idle)
    BY DEF SendsAs, Idle
  <2>6. \A k \in Job : record'[k].status \in LIVE =>
                         record[k].status \in LIVE /\ ~Holds(s, k)
    BY <1>0, <2>1, <2>3, <2>4 DEF Holds, Delivered, Absent, LIVE, RUNNABLE
  <2> QED BY <1>0, <2>1, <2>3, <2>5, <2>6, PursuitGoesOn
<1>3. CASE RejectUnknown(s) \/ Succeed(s) \/ MoveToDLQ(s) \/ Fail(s)
  <2>1. proc[s].pc \in {"claimed", "invoke"} /\ UNCHANGED store
    BY <1>3, ConcludeShape
  <2>2. PICK state : /\ Become(s, state) /\ state.pc = "get" /\ state.job = proc[s].job
                     /\ state.held.status \in {"failed", "dead", "completed"}
    BY <1>3, ConcludeShape
  <2>3. SendsAs(s, state)
    BY <2>2 DEF SendsAs, RUNNABLE
  <2>4. \A k \in Job : record[k].status \in LIVE /\ Holds(s, k) => HoldsAs(s, state, k)
    BY <1>0, <2>1, <2>2 DEF Holds, HoldsAs, Delivered
  <2> QED BY <1>0, <2>1, <2>2, <2>3, <2>4, PursuitLocal
<1>4. CASE CheckCancelled(s)
  <2>1. proc[s].pc = "claimed" /\ UNCHANGED store
    BY <1>4, CheckCancelledShape
  <2>2. ASSUME record[proc[s].job].status = "cancelled", Become(s, Idle) PROVE Keeps
    <3>1. SendsAs(s, Idle)
      BY DEF SendsAs, Idle
    <3>2. \A k \in Job : ~(record[k].status \in LIVE /\ Holds(s, k))
      BY <1>0, <2>2 DEF Holds, Delivered, LIVE, RUNNABLE
    <3> QED BY <1>0, <2>1, <2>2, <3>1, <3>2, PursuitLocal
  <2>3. ASSUME NEW state, Become(s, state), state.job = proc[s].job, state.pc = "get",
               state.held.status = "running", state.next = "invoke"
        PROVE  Keeps
    <3>1. SendsAs(s, state)
      BY <1>0, <2>3 DEF SendsAs, RUNNABLE
    <3>2. \A k \in Job : record[k].status \in LIVE /\ Holds(s, k) => HoldsAs(s, state, k)
      BY <1>0, <2>1, <2>3 DEF Holds, HoldsAs, Delivered
    <3> QED BY <1>0, <2>1, <2>3, <3>1, <3>2, PursuitLocal
  <2>4. CASE record[proc[s].job].status = "cancelled"
    BY <1>4, <2>2, <2>4 DEF CheckCancelled
  <2>5. CASE record[proc[s].job].status # "cancelled"
    <3>1. proc'[s].pc = "get"
      <4>1. PICK j \in Job : j = proc[s].job
        BY <1>0, <2>1, OwnerType DEF Owning
      <4>2. PICK state : state = Writing(j, [proc[s].held EXCEPT !.status = "running"],
                                         FALSE, "invoke")
        OBVIOUS
      <4>3. state.pc = "get"
        BY <4>2 DEF Writing, Idle
      <4>4. Become(s, state)
        BY <1>4, <2>5, <4>1, <4>2 DEF CheckCancelled
      <4> QED BY <1>0, <4>3, <4>4, Moved
    <3>2. ~Become(s, Idle)
      BY <1>0, <3>1, Moved DEF Idle
    <3> QED BY <1>4, <2>3, <3>2, CheckCancelledShape
  <2> QED BY <2>4, <2>5
<1>5. ASSUME NEW due \in BOOLEAN, ScheduleRetry(s, due) PROVE Keeps
  <2>1. proc[s].pc = "invoke" /\ UNCHANGED store
    BY <1>5, ScheduleRetryShape
  <2>2. PICK state : /\ Become(s, state) /\ state.job = proc[s].job
                     /\ state.held.status = "retrying"
                     /\ \/ state.pc = "get" /\ state.push
                        \/ state.pc = "register"
    BY <1>5, ScheduleRetryShape
  <2>3. SendsAs(s, state)
    BY <2>2 DEF SendsAs
  <2>4. \A k \in Job : record[k].status \in LIVE /\ Holds(s, k) => HoldsAs(s, state, k)
    BY <1>0, <2>1, <2>2 DEF Holds, HoldsAs, Delivered
  <2> QED BY <1>0, <2>1, <2>2, <2>3, <2>4, PursuitLocal
<1> QED BY <1>1, <1>2, <1>3, <1>4, <1>5 DEF Work

LEMMA DequeuePursues ==
  ASSUME Types, Sending, NEW s \in Slot, Dequeue(s)
  PROVE  Keeps
<1>0. s \in Proc
  BY DEF Proc
<1>1. ASSUME PromoteDeferred(s) PROVE Keeps
  <2>1. record' = record /\ proc' = proc
    BY <1>1 DEF PromoteDeferred
  <2>2. ASSUME NEW k \in Job, Pursued(k) PROVE Pursued(k)'
    <3>2. CASE \E p \in Proc : Holds(p, k)
      BY <2>1, <3>2 DEF Pursued, Holds, Delivered, WillPush
    <3>3. CASE \E q \in Queue, t \in Tier : InList(q, t, k)
      BY <1>1, <3>3, PromoteIn DEF Pursued
    <3>4. ASSUME NEW q \in Queue, deferred[q][k] # "none" PROVE Pursued(k)'
      <4>1. TierOf(k) \in Tier
        BY TierType
      <4>2. CASE <<q, TierOf(k)>> \in RipeCells(s) /\ deferred[q][k] = "due"
        <5>1. k \in Ripe(q, TierOf(k))
          BY <4>2 DEF Ripe
        <5>2. InList(q, TierOf(k), k)'
          BY <1>1, <4>1, <4>2, <5>1, PromoteIn
        <5> QED BY <4>1, <5>2 DEF Pursued
      <4>3. CASE ~(<<q, TierOf(k)>> \in RipeCells(s) /\ deferred[q][k] = "due")
        <5>1. deferred'[q][k] # "none"
          BY <1>1, <3>4, <4>3, PromoteShape
        <5> QED BY <5>1 DEF Pursued
      <4> QED BY <4>2, <4>3
    <3> QED BY <2>2, <3>2, <3>3, <3>4 DEF Pursued
  <2> QED BY <2>1, <2>2 DEF Keeps, Astray, Sending, SendsAs
<1>2. ASSUME NEW i \in DOMAIN Queues[s], NEW t \in Tier, Pop(s, i, t) PROVE Keeps
  <2>1. proc[s].pc = "idle" /\ record' = record /\ deferred' = deferred
    BY <1>2 DEF Pop
  <2>2. PICK j \in Job, state \in ProcState :
           /\ Become(s, state) /\ state.pc = "popped" /\ state.job = j
           /\ \A r \in Queue, u \in Tier, k \in Job :
                InList(r, u, k) /\ k # j => InList(r, u, k)'
    BY <1>2, PopIn
  <2>3. SendsAs(s, state)
    BY <2>2 DEF SendsAs
  <2>4. HoldsAs(s, state, j)
    BY <2>2 DEF HoldsAs
  <2>5. \A k \in Job : ~Holds(s, k)
    BY <2>1 DEF Holds, Delivered, WillPush
  <2> QED BY <1>0, <2>1, <2>2, <2>3, <2>4, <2>5, PursuitMoves
<1> QED BY <1>1, <1>2 DEF Dequeue

LEMMA WritePursues ==
  ASSUME Types, Sending, NEW p \in Proc, Write(p)
  PROVE  Keeps
<1>1. PICK j \in Job : j = proc[p].job
  BY WriteShape
<1>2. PICK job \in Record : job = proc[p].held
  BY WriteShape
<1>3. proc[p].pc = "write" /\ record' = [record EXCEPT ![j] = job] /\ Continue(p)
  BY <1>1, <1>2, WriteShape
<1>4. /\ ~proc[p].push \/ job.status = "waiting" => pending' = pending /\ deferred' = deferred
      /\ proc[p].push /\ job.status # "waiting" /\ job.due =>
           LPush(j, job.queue) /\ deferred' = deferred
      /\ proc[p].push /\ job.status # "waiting" /\ ~job.due =>
           /\ pending' = pending
           /\ deferred'[job.queue][j] = "later"
           /\ \A q \in Queue, k \in Job : q # job.queue \/ k # j =>
                deferred'[q][k] = deferred[q][k]
  BY <1>1, <1>2, WriteShape
<1>5. record'[j] = job /\ \A k \in Job : k # j => record'[k] = record[k]
  BY <1>3 DEF Types, TypeOK
<1>6. job.queue \in Queue
  BY DEF Record
<1>7. \A k \in Job : k # j => ~Holds(p, k)
  BY <1>1 DEF Holds, Delivered, WillPush
<1>8. \A q \in Queue, t \in Tier, k \in Job : InList(q, t, k) => InList(q, t, k)'
  <2>1. CASE pending' = pending
    BY <2>1 DEF InList
  <2>2. CASE LPush(j, job.queue)
    BY <1>6, <2>2, LPushIn
  <2> QED BY <1>4, <2>1, <2>2
<1>9. \A q \in Queue, k \in Job : deferred[q][k] # "none" => deferred'[q][k] # "none"
  BY <1>4, <1>6
<1>10. PICK state :
          /\ Become(p, state)
          /\ proc[p].next = "invoke" => state.pc = "invoke" /\ state.job = j
          /\ proc[p].next = "resolve" => state.pc = "resolve"
          /\ proc[p].next = "enqueue" => /\ state.job = j /\ state.held = job
                                         /\ \/ state.pc = "get" /\ state.push
                                            \/ state.pc = "register"
          /\ proc[p].next = "look" => state.pc \in {"promote", "idle"}
          /\ proc[p].next \notin {"invoke", "resolve", "enqueue", "look"} => state.pc = "idle"
  BY <1>1, <1>2, <1>3, ContinueShape
<1>11. SendsAs(p, state)
  <2>1. job.status = "running" => proc[p].next = "invoke"
    BY <1>2, <1>3 DEF Sending, SendsAs
  <2> QED BY <1>10, <2>1 DEF SendsAs
<1>12. ASSUME job.status \in LIVE
       PROVE  \/ HoldsAs(p, state, j)
              \/ \E q \in Queue, t \in Tier : InList(q, t, j)'
              \/ \E q \in Queue : deferred'[q][j] # "none"
  <2>1. job.status # "waiting"
    BY <1>12 DEF LIVE, RUNNABLE
  <2>2. CASE proc[p].push /\ job.due
    <3>1. LPush(j, job.queue) /\ TierOf(j) \in Tier
      BY <1>4, <2>1, <2>2, TierType
    <3>2. InList(job.queue, TierOf(j), j)'
      BY <1>6, <3>1, LPushIn
    <3> QED BY <1>6, <3>1, <3>2
  <2>3. CASE proc[p].push /\ ~job.due
    BY <1>4, <1>6, <2>1, <2>3
  <2>4. CASE ~proc[p].push
    <3>1. \/ p \in Client /\ proc[p].next = "enqueue"
          \/ p \in Slot /\ proc[p].next = "invoke"
      BY <1>2, <1>3, <1>12, <2>4 DEF Sending, SendsAs, LIVE
    <3> QED BY <1>10, <3>1 DEF HoldsAs
  <2> QED BY <2>2, <2>3, <2>4
<1> QED BY <1>5, <1>7, <1>8, <1>9, <1>10, <1>11, <1>12, PursuitMoves

LEMMA WakePursues ==
  ASSUME Types, Sending, NEW p \in Proc, Wake(p)
  PROVE  Keeps
<1>1. PICK j \in Job : j = proc[p].job
  BY WakeShape
<1>2. PICK queue \in Queue : queue = proc[p].held.queue
  BY WakeShape
<1>3. PICK job \in Record : record' = [record EXCEPT ![j] = job]
  BY <1>1, WakeShape
<1>4. proc[p].pc = "wake" /\ deferred' = deferred /\ LPush(j, queue)
  BY <1>1, <1>2, WakeShape
<1>5. PICK state : Become(p, state) /\ state.pc \in {"idle", "promote"}
  BY WakeShape
<1>6. \A k \in Job : k # j => record'[k] = record[k]
  BY <1>3 DEF Types, TypeOK
<1>7. InList(queue, TierOf(j), j)' /\ TierOf(j) \in Tier
  BY <1>4, TierType, LPushIn
<1>8. \A q \in Queue, t \in Tier, k \in Job : InList(q, t, k) => InList(q, t, k)'
  BY <1>4, LPushIn
<1>9. \A k \in Job : ~Holds(p, k)
  BY <1>4 DEF Holds, Delivered, WillPush
<1>10. SendsAs(p, state)
  BY <1>5 DEF SendsAs
<1> QED BY <1>4, <1>5, <1>6, <1>7, <1>8, <1>9, <1>10, PursuitMoves

LEMMA BrokerPursues ==
  ASSUME Types, Sending, NEW p \in Proc, Broker(p)
  PROVE  Keeps
<1>1. CASE GetOld(p)
  <2>1. PICK state : /\ Become(p, state) /\ state.pc = "write" /\ state.job = proc[p].job
                     /\ state.held = proc[p].held
                     /\ state.push = proc[p].push /\ state.next = proc[p].next
    BY <1>1, GetOldShape
  <2>2. proc[p].pc = "get" /\ UNCHANGED store
    BY <1>1, GetOldShape
  <2>3. SendsAs(p, state)
    BY <2>1, <2>2 DEF Sending, SendsAs
  <2>4. \A k \in Job : Holds(p, k) => HoldsAs(p, state, k)
    BY <2>1, <2>2 DEF Holds, HoldsAs, Delivered, WillPush
  <2> QED BY <2>1, <2>2, <2>3, <2>4, PursuitLocal
<1>2. CASE Register(p)
  <2>1. PICK state : /\ Become(p, state) /\ state.pc = "check" /\ state.job = proc[p].job
                     /\ state.held = proc[p].held
    BY <1>2, RegisterShape
  <2>2. /\ proc[p].pc = "register" /\ record' = record /\ pending' = pending
        /\ deferred' = deferred
    BY <1>2, RegisterShape
  <2>3. SendsAs(p, state)
    BY <2>1, <2>2 DEF Sending, SendsAs
  <2>4. \A k \in Job : Holds(p, k) => HoldsAs(p, state, k)
    BY <2>1, <2>2 DEF Holds, HoldsAs, Delivered, WillPush
  <2> QED BY <2>1, <2>2, <2>3, <2>4, PursuitGoesOn
<1>3. ASSUME NEW d \in Job, CheckDep(p, d) PROVE Keeps
  <2>1. PICK state : /\ Become(p, state) /\ state.job = proc[p].job
                     /\ state.held = proc[p].held \/ state.held.status = "waiting"
                     /\ \/ state.pc = "get" /\ state.push
                        \/ state.pc = "check"
    BY <1>3, CheckDepShape
  <2>2. proc[p].pc = "check" /\ UNCHANGED store
    BY <1>3, CheckDepShape
  <2>3. SendsAs(p, state)
    BY <2>1, <2>2 DEF Sending, SendsAs
  <2>4. \A k \in Job : Holds(p, k) => HoldsAs(p, state, k)
    BY <2>1, <2>2 DEF Holds, HoldsAs, Delivered, WillPush
  <2> QED BY <2>1, <2>2, <2>3, <2>4, PursuitLocal
<1>4. ASSUME proc[p].pc \in {"resolve", "promote", "deps"}, UNCHANGED store,
             \E state : Become(p, state) /\ state.pc \in {"idle", "promote", "deps", "wake"}
      PROVE  Keeps
  <2>1. PICK state : Become(p, state) /\ state.pc \in {"idle", "promote", "deps", "wake"}
    BY <1>4
  <2>2. SendsAs(p, state)
    BY <2>1 DEF SendsAs
  <2>3. \A k \in Job : ~Holds(p, k)
    BY <1>4 DEF Holds, Delivered, WillPush
  <2> QED BY <1>4, <2>1, <2>2, <2>3, PursuitLocal
<1>5. CASE Resolve(p)
  BY <1>4, <1>5, ResolveShape
<1>6. ASSUME NEW j \in Job, PromoteGet(p, j) PROVE Keeps
  BY <1>4, <1>6, PromoteGetShape
<1>7. ASSUME NEW d \in Job, PromoteDep(p, d) PROVE Keeps
  BY <1>4, <1>7, PromoteDepShape
<1> QED BY <1>1, <1>2, <1>3, <1>5, <1>6, <1>7, WritePursues, WakePursues DEF Broker

LEMMA ClientPursues ==
  ASSUME Types, Sending, NEW c \in Client, Query(c) \/ \E j \in Job : Call(c, j)
  PROVE  Keeps
<1>0. c \in Proc
  BY DEF Proc
<1>1. ASSUME UNCHANGED store, proc[c].pc = "idle",
             \E state : Become(c, state) /\ SendsAs(c, state)
      PROVE  Keeps
  <2>1. \A k \in Job : ~Holds(c, k)
    BY <1>1 DEF Holds, Delivered, WillPush
  <2> QED BY <1>0, <1>1, <2>1, PursuitLocal
<1>2. CASE Query(c)
  BY <1>1, <1>2, QueryShape DEF SendsAs
<1>3. ASSUME NEW j \in Job, NEW due \in BOOLEAN, Enqueue(c, j, due) PROVE Keeps
  BY <1>1, <1>3, EnqueueShape DEF SendsAs
<1>4. ASSUME NEW j \in Job, CancelJob(c, j) PROVE Keeps
  BY <1>1, <1>4, CancelShape DEF SendsAs, RUNNABLE
<1>5. ASSUME NEW j \in Job, RetryJob(c, j) PROVE Keeps
  BY <1>1, <1>5, RetryShape DEF SendsAs
<1>6. ASSUME NEW j \in Job, ReplayDeadJob(c, j) PROVE Keeps
  BY <1>1, <1>6, ReplayShape DEF SendsAs
<1>7. ASSUME NEW j \in Job, Call(c, j) PROVE Keeps
  BY <1>3, <1>4, <1>5, <1>6, <1>7 DEF Call
<1> QED BY <1>2, <1>7

LEMMA MaintainPursues ==
  ASSUME Types, Sending, NEW c \in Client, Maintain(c)
  PROVE  Keeps
<1>0. c \in Proc
  BY DEF Proc
<1>1. ASSUME proc[c].pc \in {"reap", "list", "fetch", "forget"},
             pending' = pending, deferred' = deferred,
             \A k \in Job : record'[k].status \in LIVE => record'[k] = record[k],
             \E state : Become(c, state) /\ state.pc \in {"idle", "reap", "list", "fetch", "forget"}
      PROVE  Keeps
  <2>1. PICK state : Become(c, state) /\ state.pc \in {"idle", "reap", "list", "fetch", "forget"}
    BY <1>1
  <2>2. SendsAs(c, state)
    BY <2>1 DEF SendsAs
  <2>3. \A k \in Job : ~Holds(c, k)
    BY <1>1 DEF Holds, Delivered, WillPush
  <2> QED BY <1>0, <1>1, <2>1, <2>2, <2>3, PursuitGoesOn
<1>2. ASSUME NEW j \in Job, NEW queues, NEW statuses, Forget(j, queues, statuses)
      PROVE  /\ pending' = pending /\ deferred' = deferred
             /\ \A k \in Job : record'[k].status \in LIVE => record'[k] = record[k]
  <2>1. /\ pending' = pending /\ deferred' = deferred
        /\ record' = [record EXCEPT ![j] = Absent]
    BY <1>2 DEF Forget
  <2>2. record'[j] = Absent /\ \A k \in Job : k # j => record'[k] = record[k]
    BY <2>1 DEF Types, TypeOK
  <2>3. Absent.status \notin LIVE
    BY DEF Absent, LIVE, RUNNABLE
  <2> QED BY <2>1, <2>2, <2>3
<1>3. ASSUME NEW m \in proc[c].left, ReapForget(c, m) PROVE Keeps
  BY <1>1, <1>2, <1>3, ReapForgetShape
<1>4. CASE ReapRemove(c)
  BY <1>1, <1>4, ReapRemoveShape
<1>5. CASE PurgeList(c)
  BY <1>1, <1>5, PurgeListShape DEF store
<1>6. ASSUME NEW old \in BOOLEAN, PurgeFetch(c, old) PROVE Keeps
  BY <1>1, <1>6, PurgeFetchShape DEF store
<1>7. CASE PurgeForget(c)
  <2>1. Idle.pc = "idle"
    BY DEF Idle
  <2> QED BY <1>1, <1>2, <1>7, <2>1, PurgeForgetShape
<1> QED BY <1>3, <1>4, <1>5, <1>6, <1>7 DEF Maintain

LEMMA ClockPursues ==
  ASSUME Types, Sending, NEW j \in Job, RunAtPasses(j) \/ ResultExpires(j)
  PROVE  Keeps
<1>1. CASE RunAtPasses(j)
  <2>1. /\ pending' = pending
        /\ \A k \in Job : record'[k].status = record[k].status
        /\ \A q \in Queue, k \in Job : deferred'[q][k] = "none" <=> deferred[q][k] = "none"
    BY <1>1, RunAtPassesShape
  <2>2. \A p \in Proc :
          /\ proc'[p].pc = proc[p].pc /\ proc'[p].job = proc[p].job
          /\ proc'[p].push = proc[p].push /\ proc'[p].next = proc[p].next
          /\ proc'[p].held.status = proc[p].held.status
    BY <1>1, RunAtPassesShape
  <2>3. \A p \in Proc, k \in Job : Holds(p, k) => Holds(p, k)'
    BY <2>2 DEF Holds, Delivered, WillPush, Proc
  <2>4. \A q \in Queue, t \in Tier, k \in Job : InList(q, t, k) => InList(q, t, k)'
    BY <2>1 DEF InList
  <2>5. \A k \in Job : Pursued(k) => Pursued(k)'
    BY <2>1, <2>3, <2>4 DEF Pursued
  <2> QED BY <2>1, <2>2, <2>5 DEF Keeps, Astray, Sending, SendsAs
<1>2. CASE ResultExpires(j)
  <2>1. /\ record' = [record EXCEPT ![j] = Absent]
        /\ pending' = pending /\ deferred' = deferred /\ proc' = proc
    BY <1>2 DEF ResultExpires
  <2>2. record'[j] = Absent /\ \A k \in Job : k # j => record'[k] = record[k]
    BY <2>1 DEF Types, TypeOK
  <2>3. Absent.status \notin LIVE
    BY DEF Absent, LIVE, RUNNABLE
  <2>4. \A k \in Job : Pursued(k) => Pursued(k)'
    BY <2>1 DEF Pursued, Holds, Delivered, WillPush, InList
  <2> QED BY <2>1, <2>2, <2>3, <2>4 DEF Keeps, Astray, Sending, SendsAs
<1> QED BY <1>1, <1>2

LEMMA SendingInit == Init => Sending /\ Astray = {}
<1> SUFFICES ASSUME Init PROVE Sending /\ Astray = {}
  OBVIOUS
<1>1. Sending
  BY DEF Init, Idle, Sending, SendsAs
<1>2. \A j \in Job : record[j].status \notin LIVE
  BY DEF Init, Absent, LIVE, RUNNABLE
<1> QED BY <1>1, <1>2 DEF Astray

\* A lost process had one job at most.
LEMMA CrashPursues ==
  ASSUME Types, Sending, NEW p \in Proc, Crash(p)
  PROVE  Sending' /\ crashes' = crashes + 1 /\ \E x : Astray' \subseteq Astray \cup {x}
<1>1. PICK x : x = proc[p].job
  OBVIOUS
<1>2. Become(p, Idle) /\ crashes' = crashes + 1 /\ UNCHANGED store
  BY DEF Crash, Return
<1>3. record' = record /\ pending' = pending /\ deferred' = deferred
  BY <1>2 DEF store
<1>4. proc'[p] = Idle /\ \A r \in Proc \ {p} : proc'[r] = proc[r]
  BY <1>2, Moved
<1>5. Sending'
  BY <1>4 DEF Sending, SendsAs, Idle
<1>6. ASSUME NEW k \in Job \ {x}, Pursued(k) PROVE Pursued(k)'
  <2>1. ~Holds(p, k)
    BY <1>1 DEF Holds, Delivered, WillPush
  <2>2. \A r \in Proc : Holds(r, k) => Holds(r, k)'
    BY <1>2, <2>1, HoldsMoved
  <2> QED BY <1>3, <1>6, <2>2 DEF Pursued, InList
<1>7. Astray' \subseteq Astray \cup {x}
  BY <1>3, <1>6 DEF Astray
<1> QED BY <1>2, <1>5, <1>7

LEMMA StepPursues ==
  ASSUME Types, Sending, [Next]_vars
  PROVE  Keeps \/ \E p \in Proc : Crash(p)
<1>1. CASE UNCHANGED vars
  BY <1>1 DEF vars, store, Keeps, Astray, Sending, Pursued, Holds, Delivered, WillPush, InList,
              SendsAs
<1>2. ASSUME NEW s \in Slot, Dequeue(s) \/ Work(s) PROVE Keeps
  BY <1>2, DequeuePursues, WorkPursues
<1>3. ASSUME NEW p \in Proc, Broker(p) PROVE Keeps
  BY <1>3, BrokerPursues
<1>4. ASSUME NEW c \in Client, Maintain(c) \/ Query(c) \/ \E j \in Job : Call(c, j)
      PROVE  Keeps
  BY <1>4, MaintainPursues, ClientPursues
<1>5. ASSUME NEW j \in Job, RunAtPasses(j) \/ ResultExpires(j) PROVE Keeps
  BY <1>5, ClockPursues
<1> QED BY <1>1, <1>2, <1>3, <1>4, <1>5 DEF Next

\* The losses are counted, and no other step uncounts them.
LEMMA CrashesGrow ==
  ASSUME Types, [Next]_vars
  PROVE  crashes' = crashes \/ \E p \in Proc : Crash(p)
<1>1. CASE UNCHANGED vars
  BY <1>1 DEF vars
<1>2. ASSUME NEW s \in Slot, Dequeue(s) PROVE crashes' = crashes
  BY <1>2 DEF Dequeue, PromoteDeferred, Pop
<1>3. ASSUME NEW s \in Slot, Work(s) PROVE crashes' = crashes
  BY <1>3 DEF Work, Load, Drop, RejectUnknown, CheckCancelled, Succeed, ScheduleRetry,
              MoveToDLQ, Fail, Conclude
<1>4. ASSUME NEW p \in Proc, Broker(p) PROVE crashes' = crashes
  BY <1>4 DEF Broker, GetOld, Write, Register, Resolve, Wake, CheckDep, PromoteGet, PromoteDep
<1>5. ASSUME NEW c \in Client, Maintain(c) PROVE crashes' = crashes
  BY <1>5 DEF Maintain, ReapForget, ReapRemove, PurgeList, PurgeFetch, PurgeForget
<1>6. ASSUME NEW c \in Client, NEW j \in Job, Call(c, j) PROVE crashes' = crashes
  BY <1>6 DEF Call, Enqueue, CancelJob, RetryJob, ReplayDeadJob, Called
<1>7. ASSUME NEW c \in Client, Query(c) PROVE crashes' = crashes
  BY <1>7 DEF Query, Reap, Called
<1>8. ASSUME NEW j \in Job, RunAtPasses(j) \/ ResultExpires(j) PROVE crashes' = crashes
  BY <1>8 DEF RunAtPasses, ResultExpires
<1> QED BY <1>1, <1>2, <1>3, <1>4, <1>5, <1>6, <1>7, <1>8 DEF Next

\* The jobs astray, which the stranded ones are among.
FewAstray == Cardinality(Astray) <= crashes

LEMMA AstrayCounted ==
  ASSUME Types, Sending, FewAstray, [Next]_vars
  PROVE  Sending' /\ FewAstray'
<1>1. /\ IsFiniteSet(Astray) /\ IsFiniteSet(Astray')
  <2>1. Astray \in SUBSET Job /\ Astray' \in SUBSET Job
    BY DEF Astray
  <2> QED BY <2>1, JobAssumption, FS_Subset
<1>2. Cardinality(Astray) \in Nat /\ Cardinality(Astray') \in Nat
  BY <1>1, FS_CardinalityType
<1>3. Cardinality(Astray) <= crashes /\ crashes \in Nat
  BY DEF FewAstray, Types, TypeOK
<1>4. CASE Keeps /\ crashes' = crashes
  <2>1. Sending' /\ Astray' \in SUBSET Astray
    BY <1>4 DEF Keeps, Astray
  <2>2. Cardinality(Astray') <= Cardinality(Astray)
    BY <1>1, <2>1, FS_Subset
  <2> QED BY <1>2, <1>3, <1>4, <2>1, <2>2 DEF FewAstray
<1>5. ASSUME NEW p \in Proc, Crash(p) PROVE Sending' /\ FewAstray'
  <2>1. Sending' /\ crashes' = crashes + 1
    BY <1>5, CrashPursues
  <2>2. PICK x : Astray' \in SUBSET (Astray \cup {x})
    BY <1>5, CrashPursues
  <2>3. /\ IsFiniteSet(Astray \cup {x})
        /\ Cardinality(Astray \cup {x}) = IF x \in Astray THEN Cardinality(Astray)
                                          ELSE Cardinality(Astray) + 1
    BY <1>1, FS_AddElement
  <2>4. Cardinality(Astray') <= Cardinality(Astray \cup {x})
    BY <2>2, <2>3, FS_Subset
  <2> QED BY <1>2, <1>3, <2>1, <2>3, <2>4 DEF FewAstray
<1> QED BY <1>4, <1>5, StepPursues, CrashesGrow

LEMMA StrandedCounted == FewAstray /\ Types => NotStranded
<1> SUFFICES ASSUME FewAstray, Types PROVE NotStranded
  OBVIOUS
<1>1. Stranded \in SUBSET Astray
  BY PursuedSource DEF Stranded, Astray, LIVE
<1>2. IsFiniteSet(Astray)
  BY JobAssumption, FS_Subset DEF Astray
<1>3. IsFiniteSet(Stranded) /\ Cardinality(Stranded) <= Cardinality(Astray)
  BY <1>1, <1>2, FS_Subset
<1>4. Cardinality(Astray) \in Nat /\ Cardinality(Stranded) \in Nat
  BY <1>2, <1>3, FS_CardinalityType
<1> QED BY <1>3, <1>4 DEF FewAstray, NotStranded, Types, TypeOK

\* A lost process strands one job at most, the one it was delivered or was about to
\* push, and nothing else strands any: whatever the dependencies, the cancels, the
\* retries, the purges and the expiries, however many workers and callers there are
\* and however their round trips interleave, every other job stored as pending,
\* retrying or running is queued, delivered or about to be pushed.
THEOREM NoneStranded == Spec => []NotStranded
<1>1. Init => FewAstray
  <2> SUFFICES ASSUME Init PROVE FewAstray
    OBVIOUS
  <2>1. Astray = {} /\ crashes = 0
    BY SendingInit DEF Init
  <2> QED BY <2>1, FS_EmptySet DEF FewAstray
<1> QED BY <1>1, SendingInit, AstrayCounted, StrandedCounted, TypesHold, PTL DEF Spec

-----------------------------------------------------------------------------
(* Jobs without dependencies: what each process can be in the middle of.    *)

\* Two callers that requeue the same failed job push it twice, one that requeues a
\* cancelled job may push it while a slot still has it, and so do two processes that
\* promote a job whose dependencies have completed.
Alone == /\ \A j \in Job : DependsOn[j] = {}
         /\ "retry" \in Ops => Cancels = {}
         /\ Ops \cap {"retry", "replay"} # {} => \A c, d \in Client : c = d

\* The jobs that nothing of it breaks, whatever the others do, and who may requeue.
Solo == {j \in Job : DependsOn[j] = {} /\ ("retry" \in Ops => j \notin Cancels)}
OneCaller == Ops \cap {"retry", "replay"} # {} => \A c, d \in Client : c = d

LEMMA AloneSolo == ASSUME Alone PROVE Solo = Job /\ OneCaller
BY SetsAssumption DEF Alone, Solo, OneCaller

\* The statuses that the end of an attempt stores.
Ended == {"completed", "failed", "dead"}

\* A slot stores a start, an outcome or a retry, which it pushes.
SlotScript(state) ==
    /\ state.pc \in {"idle", "popped", "gone", "claimed", "invoke", "resolve", "get", "write"}
    /\ state.pc \in {"get", "write"} =>
         \/ state.push /\ state.held.status = "retrying" /\ state.next = "look"
         \/ ~state.push /\ state.held.status = "running" /\ state.next = "invoke"
         \/ ~state.push /\ state.held.status = "completed" /\ state.next = "resolve"
         \/ ~state.push /\ state.held.status \in {"failed", "dead"} /\ state.next = "return"

\* A client stores a job it pushes, at once or next, or one it cancels.
ClientScript(state) ==
    /\ state.pc \in {"idle", "get", "write", "reap", "list", "fetch", "forget"}
    /\ state.pc \in {"get", "write"} =>
         \/ state.push /\ state.held.status = "pending" /\ state.next \in {"look", "return"}
         \/ ~state.push /\ state.held.status = "pending" /\ state.next = "enqueue"
         \/ /\ ~state.push /\ state.held.status = "cancelled" /\ state.next = "return"
            /\ state.job \in Cancels

ScriptAs(p, state) == /\ p \in Slot => SlotScript(state)
                      /\ p \in Client => ClientScript(state)

Scripted == /\ \A p \in Proc : ScriptAs(p, proc[p])
            /\ \A j \in Job : dependents[j] = {} /\ record[j].status # "waiting"
            /\ \A j \in Job : record[j].status = "cancelled" => j \in Cancels

\* A step of p that stores nothing a dependency is about.
LEMMA ScriptFrame ==
  ASSUME Types, Scripted, NEW p \in Proc, NEW state, Become(p, state), ScriptAs(p, state),
         \A j \in Job : dependents'[j] \subseteq dependents[j],
         \A j \in Job : record'[j].status \in {"waiting", "cancelled"} =>
            \/ record'[j].status = record[j].status
            \/ record'[j].status = "cancelled" /\ j \in Cancels
  PROVE  Scripted'
<1>1. proc'[p] = state /\ \A r \in Proc \ {p} : proc'[r] = proc[r]
  BY Moved
<1>2. \A r \in Proc : ScriptAs(r, proc[r])'
  BY <1>1 DEF Scripted, ScriptAs, SlotScript, ClientScript
<1>3. \A j \in Job : dependents'[j] = {} /\ record'[j].status # "waiting"
  BY DEF Scripted
<1>4. \A j \in Job : record'[j].status = "cancelled" => j \in Cancels
  BY DEF Scripted
<1> QED BY <1>2, <1>3, <1>4 DEF Scripted

LEMMA ScriptLocal ==
  ASSUME Types, Scripted, NEW p \in Proc, NEW state, Become(p, state), ScriptAs(p, state),
         UNCHANGED store
  PROVE  Scripted'
<1>1. record' = record /\ dependents' = dependents
  BY DEF store
<1> QED BY <1>1, ScriptFrame

LEMMA ForgetScript ==
  ASSUME Types, Scripted, NEW p \in Proc, NEW state, Become(p, state), ScriptAs(p, state),
         NEW j \in Job, NEW queues, NEW statuses, Forget(j, queues, statuses)
  PROVE  Scripted'
<1>1. record' = [record EXCEPT ![j] = Absent] /\ dependents' = [dependents EXCEPT ![j] = {}]
  BY DEF Forget
<1>2. \A k \in Job : k # j => record'[k] = record[k]
  BY <1>1 DEF Types, TypeOK
<1>3. record'[j].status = "absent"
  BY <1>1 DEF Types, TypeOK, Absent
<1>4. \A k \in Job : dependents'[k] \subseteq dependents[k]
  BY <1>1 DEF Types, TypeOK
<1> QED BY <1>2, <1>3, <1>4, ScriptFrame

\* What a write stores and pushes, and where its process goes on.
Stores(p, j, job, state) ==
    /\ proc[p].pc = "write" /\ j = proc[p].job /\ job = proc[p].held
    /\ Formed(state) /\ Become(p, state)
    /\ record' = [record EXCEPT ![j] = job]
    /\ record'[j] = job /\ \A k \in Job : k # j => record'[k] = record[k]
    /\ UNCHANGED <<dependents, submitted, calls, crashes>>
    /\ \/ /\ proc[p].push /\ job.status \in {"pending", "retrying"}
          /\ p \in Slot <=> job.status = "retrying"
          /\ state.pc = "idle" /\ state.job = None
          /\ job.due => LPush(j, job.queue) /\ deferred' = deferred
          /\ ~job.due => /\ pending' = pending /\ deferred'[job.queue][j] = "later"
                         /\ \A q \in Queue, k \in Job : q # job.queue \/ k # j =>
                              deferred'[q][k] = deferred[q][k]
       \/ /\ ~proc[p].push /\ pending' = pending /\ deferred' = deferred
          /\ \/ /\ p \in Slot /\ job.status = "running"
                /\ state.pc = "invoke" /\ state.job = j /\ state.held = job
             \/ /\ p \in Slot /\ job.status = "completed"
                /\ state.pc = "resolve" /\ state.job = j /\ state.held = job
             \/ /\ p \in Slot /\ job.status \in {"failed", "dead"}
                /\ state.pc = "idle" /\ state.job = None
             \/ /\ p \in Client /\ job.status = "pending" /\ proc[p].next = "enqueue"
                /\ state.pc = "get" /\ state.job = j /\ state.held = job
                /\ state.push /\ state.next = "look"
             \/ /\ p \in Client /\ job.status = "cancelled" /\ j \in Cancels
                /\ state.pc = "idle" /\ state.job = None

LEMMA SoloWrite ==
  ASSUME Types, NEW p \in Proc, Write(p), ScriptAs(p, proc[p]), DependsOn[proc[p].job] = {}
  PROVE  \E j \in Job, job \in Record, state \in ProcState : Stores(p, j, job, state)
<1>1. PICK j \in Job : j = proc[p].job
  BY WriteShape
<1>2. PICK job \in Record : job = proc[p].held
  BY WriteShape
<1>3. /\ proc[p].pc = "write" /\ record' = [record EXCEPT ![j] = job] /\ Continue(p)
      /\ UNCHANGED <<dependents, submitted, calls, crashes>>
  BY <1>1, <1>2, WriteShape
<1>4. /\ ~proc[p].push => pending' = pending /\ deferred' = deferred
      /\ proc[p].push /\ job.status # "waiting" /\ job.due =>
           LPush(j, job.queue) /\ deferred' = deferred
      /\ proc[p].push /\ job.status # "waiting" /\ ~job.due =>
           /\ pending' = pending
           /\ deferred'[job.queue][j] = "later"
           /\ \A q \in Queue, k \in Job : q # job.queue \/ k # j =>
                deferred'[q][k] = deferred[q][k]
  BY <1>1, <1>2, WriteShape
<1>5. record'[j] = job /\ \A k \in Job : k # j => record'[k] = record[k]
  BY <1>3 DEF Types, TypeOK
<1>6. PICK state \in ProcState :
          /\ Formed(state) /\ Become(p, state)
          /\ proc[p].next = "invoke" =>
               state.pc = "invoke" /\ state.job = j /\ state.held = job
          /\ proc[p].next = "resolve" =>
               state.pc = "resolve" /\ state.job = j /\ state.held = job
          /\ proc[p].next = "enqueue" => /\ state.job = j /\ state.held = job
                                         /\ state.pc = "get" /\ state.push /\ state.next = "look"
          /\ proc[p].next = "look" /\ job.status # "waiting" =>
               state.pc = "idle" /\ state.job = None
          /\ proc[p].next = "return" => state.pc = "idle" /\ state.job = None
  BY <1>1, <1>2, <1>3, ContinueShape DEF Formed
<1>7. CASE p \in Slot
  <2>1. \/ proc[p].push /\ job.status = "retrying" /\ proc[p].next = "look"
        \/ ~proc[p].push /\ job.status = "running" /\ proc[p].next = "invoke"
        \/ ~proc[p].push /\ job.status = "completed" /\ proc[p].next = "resolve"
        \/ ~proc[p].push /\ job.status \in {"failed", "dead"} /\ proc[p].next = "return"
    BY <1>2, <1>3, <1>7 DEF ScriptAs, SlotScript
  <2>2. CASE proc[p].push
    <3>1. job.status = "retrying" /\ state.pc = "idle" /\ state.job = None
      BY <1>6, <2>1, <2>2
    <3>2. /\ job.due => LPush(j, job.queue) /\ deferred' = deferred
          /\ ~job.due => /\ pending' = pending /\ deferred'[job.queue][j] = "later"
                         /\ \A q \in Queue, k \in Job : q # job.queue \/ k # j =>
                              deferred'[q][k] = deferred[q][k]
      BY <1>4, <2>2, <3>1
    <3> QED BY <1>1, <1>2, <1>3, <1>5, <1>6, <1>7, <2>2, <3>1, <3>2 DEF Stores
  <2>3. CASE ~proc[p].push
    <3>1. \/ job.status = "running" /\ state.pc = "invoke" /\ state.job = j /\ state.held = job
          \/ job.status = "completed" /\ state.pc = "resolve" /\ state.job = j /\ state.held = job
          \/ job.status \in {"failed", "dead"} /\ state.pc = "idle" /\ state.job = None
      BY <1>6, <2>1, <2>3
    <3>2. pending' = pending /\ deferred' = deferred
      BY <1>4, <2>3
    <3> QED BY <1>1, <1>2, <1>3, <1>5, <1>6, <1>7, <2>3, <3>1, <3>2 DEF Stores
  <2> QED BY <2>2, <2>3
<1>8. CASE p \in Client
  <2>1. p \notin Slot
    BY <1>8, SetsAssumption
  <2>2. \/ proc[p].push /\ job.status = "pending" /\ proc[p].next \in {"look", "return"}
        \/ ~proc[p].push /\ job.status = "pending" /\ proc[p].next = "enqueue"
        \/ /\ ~proc[p].push /\ job.status = "cancelled" /\ proc[p].next = "return"
           /\ j \in Cancels
    BY <1>1, <1>2, <1>3, <1>8 DEF ScriptAs, ClientScript
  <2>3. CASE proc[p].push
    <3>1. job.status = "pending" /\ state.pc = "idle" /\ state.job = None
      BY <1>6, <2>2, <2>3
    <3>2. /\ job.due => LPush(j, job.queue) /\ deferred' = deferred
          /\ ~job.due => /\ pending' = pending /\ deferred'[job.queue][j] = "later"
                         /\ \A q \in Queue, k \in Job : q # job.queue \/ k # j =>
                              deferred'[q][k] = deferred[q][k]
      BY <1>4, <2>3, <3>1
    <3> QED BY <1>1, <1>2, <1>3, <1>5, <1>6, <2>1, <2>3, <3>1, <3>2 DEF Stores
  <2>4. CASE ~proc[p].push
    <3>1. \/ /\ job.status = "pending" /\ proc[p].next = "enqueue"
             /\ state.pc = "get" /\ state.job = j /\ state.held = job
             /\ state.push /\ state.next = "look"
          \/ /\ job.status = "cancelled" /\ j \in Cancels
             /\ state.pc = "idle" /\ state.job = None
      BY <1>6, <2>2, <2>4
    <3>2. pending' = pending /\ deferred' = deferred
      BY <1>4, <2>4
    <3> QED BY <1>1, <1>2, <1>3, <1>5, <1>6, <1>8, <2>4, <3>1, <3>2 DEF Stores
  <2> QED BY <2>3, <2>4
<1> QED BY <1>7, <1>8 DEF Proc

LEMMA WriteScript ==
  ASSUME Alone, Types, Scripted, NEW p \in Proc, Write(p)
  PROVE  \E j \in Job, job \in Record, state \in ProcState : Stores(p, j, job, state)
<1>1. proc[p].job \in Job
  BY WriteShape
<1>2. DependsOn[proc[p].job] = {} /\ ScriptAs(p, proc[p])
  BY <1>1 DEF Alone, Scripted
<1> QED BY <1>2, SoloWrite

LEMMA WorkScript ==
  ASSUME Alone, Types, Scripted, NEW s \in Slot, Dequeue(s) \/ Work(s)
  PROVE  Scripted'
<1>0. s \in Proc /\ s \notin Client
  BY SetsAssumption DEF Proc
<1>1. ASSUME NEW state, Become(s, state), SlotScript(state), UNCHANGED store PROVE Scripted'
  BY <1>0, <1>1, ScriptLocal DEF ScriptAs
<1>2. ASSUME PromoteDeferred(s) PROVE Scripted'
  BY <1>2 DEF PromoteDeferred, Scripted, ScriptAs, SlotScript, ClientScript
<1>3. ASSUME NEW i \in DOMAIN Queues[s], NEW t \in Tier, Pop(s, i, t) PROVE Scripted'
  <2>1. PICK state : Become(s, state) /\ state.pc = "popped"
    BY <1>3, PopShape DEF Pops
  <2>2. SlotScript(state)
    BY <2>1 DEF SlotScript
  <2>3. record' = record /\ dependents' = dependents
    BY <1>3 DEF Pop
  <2> QED BY <1>0, <2>1, <2>2, <2>3, ScriptFrame DEF ScriptAs
<1>4. CASE Load(s)
  <2>1. PICK state : Become(s, state) /\ state.pc \in {"claimed", "gone"}
    BY <1>4, LoadShape
  <2> QED BY <1>1, <1>4, <2>1, LoadShape DEF SlotScript
<1>5. CASE Drop(s)
  BY <1>0, <1>5, DropShape, ForgetScript DEF ScriptAs, SlotScript, Idle
<1>6. CASE RejectUnknown(s) \/ Succeed(s) \/ MoveToDLQ(s) \/ Fail(s)
  <2>1. PICK state : /\ Become(s, state) /\ state.pc = "get" /\ ~state.push
                     /\ \/ state.held.status \in {"failed", "dead"} /\ state.next = "return"
                        \/ state.held.status = "completed" /\ state.next = "resolve"
    BY <1>6, ConcludeShape
  <2>2. SlotScript(state)
    BY <2>1 DEF SlotScript
  <2> QED BY <1>1, <1>6, <2>1, <2>2, ConcludeShape
<1>7. CASE CheckCancelled(s)
  <2>1. PICK state : /\ Become(s, state)
                     /\ \/ state.pc = "idle"
                        \/ /\ state.pc = "get" /\ ~state.push /\ state.next = "invoke"
                           /\ state.held.status = "running"
    BY <1>7, CheckCancelledShape DEF Idle
  <2>2. SlotScript(state)
    BY <2>1 DEF SlotScript
  <2> QED BY <1>1, <1>7, <2>1, <2>2, CheckCancelledShape
<1>8. ASSUME NEW due \in BOOLEAN, ScheduleRetry(s, due) PROVE Scripted'
  <2>1. proc[s].job \in Job
    BY <1>0, <1>8, ScheduleRetryShape, OwnerType DEF Owning
  <2>2. PICK state : /\ Become(s, state) /\ state.pc = "get" /\ state.push
                     /\ state.next = "look" /\ state.held.status = "retrying"
    BY <1>8, <2>1, ScheduleRetryShape DEF Alone
  <2>3. SlotScript(state)
    BY <2>2 DEF SlotScript
  <2> QED BY <1>1, <1>8, <2>2, <2>3, ScheduleRetryShape
<1> QED BY <1>2, <1>3, <1>4, <1>5, <1>6, <1>7, <1>8 DEF Dequeue, Work

\* Of what a job with dependencies makes a process do, nothing is done.
LEMMA NoDependencySteps ==
  ASSUME Scripted, NEW p \in Proc, Broker(p)
  PROVE  GetOld(p) \/ Write(p) \/ (p \in Slot /\ Resolve(p))
<1>1. proc[p].pc \in {"idle", "popped", "gone", "claimed", "invoke", "resolve", "get", "write",
                      "reap", "list", "fetch", "forget"}
      /\ (proc[p].pc = "resolve" => p \in Slot)
  BY DEF Scripted, ScriptAs, SlotScript, ClientScript, Proc
<1> QED BY <1>1 DEF Broker, Register, Wake, CheckDep, PromoteGet, PromoteDep, Resolve

\* A completed job has nobody to promote.
LEMMA ResolveScript ==
  ASSUME Types, Scripted, NEW s \in Slot, Resolve(s)
  PROVE  /\ proc[s].pc = "resolve" /\ UNCHANGED <<store, submitted, calls, crashes>>
         /\ \E state : Formed(state) /\ Become(s, state) /\ state.pc = "idle" /\ state.job = None
<1>1. s \in Proc
  BY DEF Proc
<1>2. dependents[proc[s].job] = {}
  BY <1>1, ResolveShape DEF Scripted
<1> QED BY <1>1, <1>2, ResolveShape

LEMMA BrokerScript ==
  ASSUME Alone, Types, Scripted, NEW p \in Proc, Broker(p)
  PROVE  Scripted'
<1>1. CASE GetOld(p)
  <2>1. PICK state : /\ Become(p, state) /\ state.pc = "write" /\ state.job = proc[p].job
                     /\ state.held = proc[p].held
                     /\ state.push = proc[p].push /\ state.next = proc[p].next
    BY <1>1, GetOldShape
  <2>2. proc[p].pc = "get" /\ UNCHANGED store
    BY <1>1, GetOldShape
  <2>3. ScriptAs(p, proc[p])
    BY DEF Scripted
  <2>4. ScriptAs(p, state)
    BY <2>1, <2>2, <2>3 DEF ScriptAs, SlotScript, ClientScript
  <2> QED BY <2>1, <2>2, <2>4, ScriptLocal
<1>2. CASE Write(p)
  <2>1. PICK j \in Job, job \in Record, state \in ProcState :
           /\ Become(p, state) /\ record'[j] = job /\ dependents' = dependents
           /\ \A k \in Job : k # j => record'[k] = record[k]
           /\ \/ /\ job.status \in {"pending", "retrying"} /\ state.pc = "idle"
              \/ /\ p \in Slot /\ job.status = "running" /\ state.pc = "invoke"
              \/ /\ p \in Slot /\ job.status = "completed" /\ state.pc = "resolve"
              \/ /\ p \in Slot /\ job.status \in {"failed", "dead"} /\ state.pc = "idle"
              \/ /\ p \in Client /\ job.status = "pending" /\ state.pc = "get"
                 /\ state.held = job /\ state.push /\ state.next = "look"
              \/ /\ job.status = "cancelled" /\ j \in Cancels /\ state.pc = "idle"
    BY <1>2, WriteScript DEF Stores
  <2>2. p \in Slot => p \notin Client
    BY SetsAssumption
  <2>3. ScriptAs(p, state)
    BY <2>1, <2>2 DEF ScriptAs, SlotScript, ClientScript
  <2> QED BY <2>1, <2>3, ScriptFrame
<1>3. CASE p \in Slot /\ Resolve(p)
  <2>1. PICK state : Become(p, state) /\ state.pc = "idle"
    BY <1>3, ResolveScript
  <2>2. ScriptAs(p, state)
    BY <2>1 DEF ScriptAs, SlotScript, ClientScript
  <2> QED BY <1>3, <2>1, <2>2, ResolveScript, ScriptLocal
<1> QED BY <1>1, <1>2, <1>3, NoDependencySteps

LEMMA ClientScripts ==
  ASSUME Alone, Types, Scripted, NEW c \in Client,
         Maintain(c) \/ Query(c) \/ \E j \in Job : Call(c, j)
  PROVE  Scripted'
<1>0. c \in Proc /\ c \notin Slot
  BY SetsAssumption DEF Proc
<1>1. ASSUME NEW state, Become(c, state), ClientScript(state), UNCHANGED store PROVE Scripted'
  BY <1>0, <1>1, ScriptLocal DEF ScriptAs
<1>2. ASSUME NEW state, Become(c, state), UNCHANGED store,
             state.pc \in {"idle", "reap", "list", "fetch", "forget"}
      PROVE  Scripted'
  BY <1>1, <1>2 DEF ClientScript
<1>3. CASE Query(c)
  BY <1>2, <1>3, QueryShape
<1>4. ASSUME NEW j \in Job, NEW due \in BOOLEAN, Enqueue(c, j, due) PROVE Scripted'
  <2>1. PICK state : /\ Become(c, state) /\ state.held.status = "pending"
                     /\ state.pc = "get" /\ state.push /\ state.next = "look"
    BY <1>4, EnqueueShape DEF Alone
  <2> QED BY <1>1, <1>4, <2>1, EnqueueShape DEF ClientScript
<1>5. ASSUME NEW j \in Cancels, j \in Job, CancelJob(c, j) PROVE Scripted'
  <2>1. PICK state : /\ Become(c, state) /\ state.held.status = "cancelled" /\ state.job = j
                     /\ state.pc = "get" /\ ~state.push /\ state.next = "return"
    BY <1>5, CancelShape
  <2> QED BY <1>1, <1>5, <2>1, CancelShape DEF ClientScript
<1>6. ASSUME NEW j \in Job, RetryJob(c, j) PROVE Scripted'
  <2>1. PICK state : /\ Become(c, state) /\ state.held.status = "pending"
                     /\ state.pc = "get" /\ state.push /\ state.next = "return"
    BY <1>6, RetryShape
  <2> QED BY <1>1, <1>6, <2>1, RetryShape DEF ClientScript
<1>7. ASSUME NEW j \in Job, ReplayDeadJob(c, j) PROVE Scripted'
  <2>1. PICK state : /\ Become(c, state) /\ state.held.status = "pending"
                     /\ state.pc = "get" /\ ~state.push /\ state.next = "enqueue"
    BY <1>7, ReplayShape
  <2> QED BY <1>1, <1>7, <2>1, ReplayShape DEF ClientScript
<1>8. ASSUME NEW j \in Job, Call(c, j) PROVE Scripted'
  BY <1>4, <1>5, <1>6, <1>7, <1>8 DEF Call
<1>9. ASSUME NEW j \in Job, NEW queues, NEW statuses, Forget(j, queues, statuses),
             NEW state, Become(c, state), state.pc \in {"idle", "reap"}
      PROVE  Scripted'
  <2>1. ScriptAs(c, state)
    BY <1>0, <1>9 DEF ScriptAs, ClientScript
  <2> QED BY <1>0, <1>9, <2>1, ForgetScript
<1>10. ASSUME NEW m \in proc[c].left, ReapForget(c, m) PROVE Scripted'
  BY <1>9, <1>10, ReapForgetShape
<1>11. CASE ReapRemove(c)
  <2>1. PICK state : Become(c, state) /\ state.pc \in {"idle", "list"}
    BY <1>11, ReapRemoveShape
  <2>2. ScriptAs(c, state)
    BY <1>0, <2>1 DEF ScriptAs, ClientScript
  <2> QED BY <1>0, <1>11, <2>1, <2>2, ReapRemoveShape, ScriptFrame
<1>12. CASE PurgeList(c)
  BY <1>2, <1>12, PurgeListShape
<1>13. ASSUME NEW old \in BOOLEAN, PurgeFetch(c, old) PROVE Scripted'
  BY <1>2, <1>13, PurgeFetchShape
<1>14. CASE PurgeForget(c)
  <2>1. Idle.pc = "idle"
    BY DEF Idle
  <2> QED BY <1>9, <1>14, <2>1, PurgeForgetShape
<1> QED BY <1>3, <1>8, <1>10, <1>11, <1>12, <1>13, <1>14 DEF Maintain

LEMMA ScriptedHolds ==
  ASSUME Alone
  PROVE  /\ Init => Scripted
         /\ Types /\ Scripted /\ [Next]_vars => Scripted'
<1>1. ASSUME Init PROVE Scripted
  <2>1. \A p \in Proc : ScriptAs(p, proc[p])
    BY <1>1 DEF Init, Idle, ScriptAs, SlotScript, ClientScript
  <2> QED BY <1>1, <2>1 DEF Init, Absent, Scripted
<1>2. ASSUME Types, Scripted, [Next]_vars PROVE Scripted'
  <2>1. CASE UNCHANGED vars
    BY <1>2, <2>1 DEF vars, store, Scripted, ScriptAs, SlotScript, ClientScript
  <2>2. ASSUME NEW p \in Proc, Crash(p) PROVE Scripted'
    <3>1. ScriptAs(p, Idle)
      BY DEF ScriptAs, SlotScript, ClientScript, Idle
    <3>2. Become(p, Idle) /\ UNCHANGED store
      BY <2>2 DEF Crash, Return
    <3> QED BY <1>2, <3>1, <3>2, IdleType, ScriptLocal
  <2>3. ASSUME NEW j \in Job, RunAtPasses(j) PROVE Scripted'
    <3>1. /\ dependents' = dependents
          /\ \A k \in Job : record'[k].status = record[k].status
          /\ \A p \in Proc :
               /\ proc'[p].pc = proc[p].pc /\ proc'[p].job = proc[p].job
               /\ proc'[p].push = proc[p].push /\ proc'[p].next = proc[p].next
               /\ proc'[p].held.status = proc[p].held.status
      BY <1>2, <2>3, RunAtPassesShape
    <3>2. \A p \in Proc : ScriptAs(p, proc[p])'
      BY <1>2, <3>1 DEF Scripted, ScriptAs, SlotScript, ClientScript
    <3> QED BY <1>2, <3>1, <3>2 DEF Scripted
  <2>4. ASSUME NEW j \in Job, ResultExpires(j) PROVE Scripted'
    <3>1. /\ record' = [record EXCEPT ![j] = Absent]
          /\ dependents' = dependents /\ proc' = proc
      BY <2>4 DEF ResultExpires
    <3>2. record'[j].status = "absent" /\ \A k \in Job : k # j => record'[k] = record[k]
      BY <1>2, <3>1 DEF Types, TypeOK, Absent
    <3> QED BY <1>2, <3>1, <3>2 DEF Scripted, ScriptAs, SlotScript, ClientScript
  <2>5. CASE Next
    BY <1>2, <2>2, <2>3, <2>4, <2>5, WorkScript, BrokerScript, ClientScripts DEF Next
  <2> QED BY <1>2, <2>1, <2>5
<1> QED BY <1>1, <1>2

-----------------------------------------------------------------------------
(* Jobs without dependencies, among others: the same of the processes that   *)
(* are at one.                                                               *)

Rooted == /\ \A p \in Proc : proc[p].job \in Solo => ScriptAs(p, proc[p])
          /\ \A k \in Solo : /\ record[k].status # "waiting"
                             /\ record[k].status = "cancelled" => k \in Cancels

LEMMA SoloJobs ==
  /\ Solo \subseteq Job /\ None \notin Solo /\ Solo' = Solo
  /\ \A k \in Solo : DependsOn[k] = {}
BY JobAssumption DEF Solo

LEMMA ScriptedRooted ==
  ASSUME Scripted
  PROVE  Rooted
BY SoloJobs DEF Scripted, Rooted

\* A step of p that stores no job without dependencies as waiting.
LEMMA RootFrame ==
  ASSUME Types, Rooted, NEW p \in Proc, NEW state, Become(p, state),
         state.job \in Solo => ScriptAs(p, state),
         \A k \in Solo : record'[k].status \in {"waiting", "cancelled"} =>
            \/ record'[k].status = record[k].status
            \/ record'[k].status = "cancelled" /\ k \in Cancels
  PROVE  Rooted'
<1>1. proc'[p] = state /\ \A r \in Proc \ {p} : proc'[r] = proc[r]
  BY Moved
<1>2. ASSUME NEW r \in Proc, proc'[r].job \in Solo PROVE ScriptAs(r, proc[r])'
  <2>1. CASE r = p
    BY <1>1, <1>2, <2>1 DEF ScriptAs, SlotScript, ClientScript
  <2>2. CASE r # p
    BY <1>1, <1>2, <2>2 DEF Rooted, ScriptAs, SlotScript, ClientScript
  <2> QED BY <2>1, <2>2
<1>3. \A k \in Solo : /\ record'[k].status # "waiting"
                      /\ record'[k].status = "cancelled" => k \in Cancels
  BY DEF Rooted
<1> QED BY <1>2, <1>3, SoloJobs DEF Rooted, Proc

LEMMA RootLocal ==
  ASSUME Types, Rooted, NEW p \in Proc, NEW state, Become(p, state),
         state.job \in Solo => ScriptAs(p, state), UNCHANGED store
  PROVE  Rooted'
<1>1. record' = record
  BY DEF store
<1> QED BY <1>1, RootFrame

LEMMA ForgetRoots ==
  ASSUME Types, Rooted, NEW p \in Proc, NEW state, Become(p, state),
         state.job \in Solo => ScriptAs(p, state),
         NEW j \in Job, NEW queues, NEW statuses, Forget(j, queues, statuses)
  PROVE  Rooted'
<1>1. record' = [record EXCEPT ![j] = Absent]
  BY DEF Forget
<1>2. record'[j].status = "absent" /\ \A k \in Job : k # j => record'[k] = record[k]
  BY <1>1 DEF Types, TypeOK, Absent
<1> QED BY <1>2, SoloJobs, RootFrame

LEMMA WorkRoots ==
  ASSUME Types, Rooted, NEW s \in Slot, Dequeue(s) \/ Work(s)
  PROVE  Rooted'
<1>0. s \in Proc /\ s \notin Client
  BY SetsAssumption DEF Proc
<1>1. ASSUME NEW state, Become(s, state), UNCHANGED store, state.job \in Solo => SlotScript(state)
      PROVE  Rooted'
  BY <1>0, <1>1, RootLocal DEF ScriptAs
<1>2. ASSUME PromoteDeferred(s) PROVE Rooted'
  BY <1>2, SoloJobs DEF PromoteDeferred, Rooted, ScriptAs, SlotScript, ClientScript, Proc
<1>3. ASSUME NEW i \in DOMAIN Queues[s], NEW t \in Tier, Pop(s, i, t) PROVE Rooted'
  <2>1. PICK state : Become(s, state) /\ state.pc = "popped"
    BY <1>3, PopShape DEF Pops
  <2>2. SlotScript(state)
    BY <2>1 DEF SlotScript
  <2>3. record' = record
    BY <1>3 DEF Pop
  <2> QED BY <1>0, <2>1, <2>2, <2>3, RootFrame DEF ScriptAs
<1>4. CASE Load(s)
  <2>1. PICK state : Become(s, state) /\ state.pc \in {"claimed", "gone"}
    BY <1>4, LoadShape
  <2> QED BY <1>1, <1>4, <2>1, LoadShape DEF SlotScript
<1>5. CASE Drop(s)
  <2>1. ScriptAs(s, Idle)
    BY <1>0 DEF ScriptAs, SlotScript, Idle
  <2> QED BY <1>0, <1>5, <2>1, DropShape, ForgetRoots
<1>6. CASE RejectUnknown(s) \/ Succeed(s) \/ MoveToDLQ(s) \/ Fail(s)
  <2>1. PICK state : /\ Become(s, state) /\ state.pc = "get" /\ ~state.push
                     /\ \/ state.held.status \in {"failed", "dead"} /\ state.next = "return"
                        \/ state.held.status = "completed" /\ state.next = "resolve"
    BY <1>6, ConcludeShape
  <2>2. SlotScript(state)
    BY <2>1 DEF SlotScript
  <2> QED BY <1>1, <1>6, <2>1, <2>2, ConcludeShape
<1>7. CASE CheckCancelled(s)
  <2>1. PICK state : /\ Become(s, state)
                     /\ \/ state.pc = "idle"
                        \/ /\ state.pc = "get" /\ ~state.push /\ state.next = "invoke"
                           /\ state.held.status = "running"
    BY <1>7, CheckCancelledShape DEF Idle
  <2>2. SlotScript(state)
    BY <2>1 DEF SlotScript
  <2> QED BY <1>1, <1>7, <2>1, <2>2, CheckCancelledShape
<1>8. ASSUME NEW due \in BOOLEAN, ScheduleRetry(s, due) PROVE Rooted'
  <2>1. PICK state : /\ Become(s, state) /\ state.job = proc[s].job
                     /\ state.held.status = "retrying"
                     /\ DependsOn[proc[s].job] = {} =>
                          state.pc = "get" /\ state.push /\ state.next = "look"
    BY <1>8, ScheduleRetryShape
  <2>2. state.job \in Solo => SlotScript(state)
    BY <2>1, SoloJobs DEF SlotScript
  <2> QED BY <1>1, <1>8, <2>1, <2>2, ScheduleRetryShape
<1> QED BY <1>2, <1>3, <1>4, <1>5, <1>6, <1>7, <1>8 DEF Dequeue, Work

\* A step of p that stores and pushes none of them, and holds none after it.
Elsewhere(p, state) ==
    /\ Become(p, state) /\ state.job \notin Solo
    /\ \A k \in Solo : record'[k] = record[k]
    /\ submitted \subseteq submitted'
    /\ pending' = pending \/ \E j \in Job \ Solo, queue \in Queue : LPush(j, queue)
    /\ \A q \in Queue, k \in Solo : deferred'[q][k] = deferred[q][k]

LEMMA WriteElsewhere ==
  ASSUME Types, NEW p \in Proc, Write(p), proc[p].job \notin Solo
  PROVE  \E state : Elsewhere(p, state)
<1>1. PICK j \in Job : j = proc[p].job
  BY WriteShape
<1>2. PICK job \in Record : job = proc[p].held
  BY WriteShape
<1>3. PICK state : Become(p, state) /\ state.job \in {j, None}
  <2>1. proc[p].pc = "write" /\ Continue(p)
    BY WriteShape
  <2>2. PICK state :
           /\ Become(p, state)
           /\ proc[p].next \in {"invoke", "resolve", "enqueue"} => state.job = proc[p].job
           /\ proc[p].next \notin {"invoke", "resolve", "enqueue"} => state.job = None
    BY <2>1, ContinueShape
  <2> QED BY <1>1, <2>2
<1>4. record' = [record EXCEPT ![j] = job] /\ submitted' = submitted
  BY <1>1, <1>2, WriteShape
<1>5. \A k \in Job : k # j => record'[k] = record[k]
  BY <1>4 DEF Types, TypeOK
<1>6. job.queue \in Queue
  BY DEF Record
<1>7. /\ pending' = pending \/ LPush(j, job.queue)
      /\ \A q \in Queue, k \in Job : k # j => deferred'[q][k] = deferred[q][k]
  BY <1>1, <1>2, WriteShape
<1>8. Elsewhere(p, state)
  BY <1>1, <1>3, <1>4, <1>5, <1>6, <1>7, SoloJobs DEF Elsewhere
<1> QED BY <1>8

\* What a process does because of dependencies.
LEMMA DependencySteps ==
  ASSUME Types, Rooted, NEW p \in Proc,
         Register(p) \/ Resolve(p) \/ Wake(p)
           \/ \E j \in Job : CheckDep(p, j) \/ PromoteGet(p, j) \/ PromoteDep(p, j)
  PROVE  \E state : Elsewhere(p, state)
<1>1. ASSUME NEW j \in Job, proc[p].job = j, proc[p].pc \in {"register", "check", "deps", "wake"}
      PROVE  j \notin Solo
  BY <1>1 DEF Rooted, ScriptAs, SlotScript, ClientScript, Proc
<1>2. ASSUME NEW state, Become(p, state), state.job \notin Solo,
             UNCHANGED <<record, pending, deferred, submitted>>
      PROVE  \E next : Elsewhere(p, next)
  BY <1>2 DEF Elsewhere
<1>3. CASE Register(p)
  <2>1. PICK j \in Job : j = proc[p].job
    BY <1>3, RegisterShape
  <2>2. proc[p].pc = "register" /\ UNCHANGED <<record, pending, deferred, submitted>>
    BY <1>3, RegisterShape
  <2>3. PICK state : Become(p, state) /\ state.job = j
    BY <1>3, <2>1, RegisterShape
  <2> QED BY <1>1, <1>2, <2>1, <2>2, <2>3
<1>4. CASE Resolve(p)
  BY <1>2, <1>4, SoloJobs, ResolveShape DEF store
<1>5. CASE Wake(p)
  <2>1. PICK j \in Job : j = proc[p].job
    BY <1>5, WakeShape
  <2>2. PICK queue \in Queue : queue = proc[p].held.queue
    BY <1>5, WakeShape
  <2>3. /\ proc[p].pc = "wake" /\ LPush(j, queue) /\ deferred' = deferred
        /\ submitted' = submitted
    BY <1>5, <2>1, <2>2, WakeShape
  <2>4. PICK job \in Record : record' = [record EXCEPT ![j] = job]
    BY <1>5, <2>1, WakeShape
  <2>5. \A k \in Job : k # j => record'[k] = record[k]
    BY <2>4 DEF Types, TypeOK
  <2>6. PICK state : Become(p, state) /\ state.job = None
    BY <1>5, WakeShape
  <2>7. j \in Job \ Solo
    BY <1>1, <2>1, <2>3
  <2>8. Elsewhere(p, state)
    BY <2>3, <2>5, <2>6, <2>7, SoloJobs DEF Elsewhere
  <2> QED BY <2>8
<1>6. ASSUME NEW d \in Job, CheckDep(p, d) PROVE \E next : Elsewhere(p, next)
  <2>1. PICK j \in Job : j = proc[p].job
    BY <1>6, CheckDepShape
  <2>2. proc[p].pc = "check" /\ UNCHANGED <<record, pending, deferred, submitted>>
    BY <1>6, CheckDepShape DEF store
  <2>3. PICK state : Become(p, state) /\ state.job = j
    BY <1>6, <2>1, CheckDepShape
  <2> QED BY <1>1, <1>2, <2>1, <2>2, <2>3
<1>7. ASSUME NEW j \in Job, PromoteGet(p, j) PROVE \E next : Elsewhere(p, next)
  <2>1. UNCHANGED <<record, pending, deferred, submitted>>
    BY <1>7, PromoteGetShape DEF store
  <2>2. PICK state : /\ Become(p, state)
                     /\ record[j].status = "waiting" => state.job = j
                     /\ record[j].status # "waiting" => state.job = None
    BY <1>7, PromoteGetShape
  <2>3. state.job \notin Solo
    BY <2>2, SoloJobs DEF Rooted
  <2> QED BY <1>2, <2>1, <2>2, <2>3
<1>8. ASSUME NEW d \in Job, PromoteDep(p, d) PROVE \E next : Elsewhere(p, next)
  <2>1. proc[p].pc = "deps" /\ UNCHANGED <<record, pending, deferred, submitted>>
    BY <1>8, PromoteDepShape DEF store
  <2>2. PICK j \in Job : j = proc[p].job
    BY <2>1, OwnerType DEF Owning
  <2>3. PICK state : Become(p, state) /\ state.job \in {j, None}
    BY <1>8, <2>2, PromoteDepShape
  <2> QED BY <1>1, <1>2, <2>1, <2>2, <2>3, SoloJobs
<1> QED BY <1>3, <1>4, <1>5, <1>6, <1>7, <1>8

\* A process writes, or is at no such job after the step.
LEMMA BrokerCases ==
  ASSUME Types, Rooted, NEW p \in Proc, Broker(p)
  PROVE  \/ GetOld(p)
         \/ /\ Write(p) /\ proc[p].job \in Solo /\ ScriptAs(p, proc[p])
            /\ DependsOn[proc[p].job] = {}
         \/ \E state : Elsewhere(p, state)
<1>1. CASE Write(p)
  BY <1>1, WriteElsewhere, SoloJobs DEF Rooted
<1> QED BY <1>1, DependencySteps DEF Broker

LEMMA ElsewhereRoots ==
  ASSUME Types, Rooted, NEW p \in Proc, NEW state, Elsewhere(p, state)
  PROVE  Rooted'
BY RootFrame DEF Elsewhere

LEMMA BrokerRoots ==
  ASSUME Types, Rooted, NEW p \in Proc, Broker(p)
  PROVE  Rooted'
<1>1. CASE GetOld(p)
  <2>1. PICK state : /\ Become(p, state) /\ state.pc = "write" /\ state.job = proc[p].job
                     /\ state.held = proc[p].held
                     /\ state.push = proc[p].push /\ state.next = proc[p].next
    BY <1>1, GetOldShape
  <2>2. proc[p].pc = "get" /\ UNCHANGED store
    BY <1>1, GetOldShape
  <2>3. state.job \in Solo => ScriptAs(p, proc[p])
    BY <2>1 DEF Rooted
  <2>4. state.job \in Solo => ScriptAs(p, state)
    BY <2>1, <2>2, <2>3 DEF ScriptAs, SlotScript, ClientScript
  <2> QED BY <2>1, <2>2, <2>4, RootLocal
<1>2. CASE Write(p) /\ ScriptAs(p, proc[p]) /\ DependsOn[proc[p].job] = {}
  <2>1. PICK j \in Job, job \in Record, state \in ProcState :
           /\ Become(p, state) /\ record'[j] = job
           /\ \A k \in Job : k # j => record'[k] = record[k]
           /\ \/ /\ job.status \in {"pending", "retrying"} /\ state.pc = "idle"
              \/ /\ p \in Slot /\ job.status = "running" /\ state.pc = "invoke"
              \/ /\ p \in Slot /\ job.status = "completed" /\ state.pc = "resolve"
              \/ /\ p \in Slot /\ job.status \in {"failed", "dead"} /\ state.pc = "idle"
              \/ /\ p \in Client /\ job.status = "pending" /\ state.pc = "get"
                 /\ state.held = job /\ state.push /\ state.next = "look"
              \/ /\ job.status = "cancelled" /\ j \in Cancels /\ state.pc = "idle"
    BY <1>2, SoloWrite DEF Stores
  <2>2. p \in Slot => p \notin Client
    BY SetsAssumption
  <2>3. ScriptAs(p, state)
    BY <2>1, <2>2 DEF ScriptAs, SlotScript, ClientScript
  <2>4. \A k \in Solo : record'[k].status \in {"waiting", "cancelled"} =>
            \/ record'[k].status = record[k].status
            \/ record'[k].status = "cancelled" /\ k \in Cancels
    BY <2>1, SoloJobs
  <2> QED BY <2>1, <2>3, <2>4, RootFrame
<1> QED BY <1>1, <1>2, BrokerCases, ElsewhereRoots

\* A call on another job.
LEMMA CallElsewhere ==
  ASSUME Types, NEW c \in Client, NEW j \in Job \ Solo, Call(c, j)
  PROVE  \E state : Elsewhere(c, state)
<1>1. ASSUME NEW due \in BOOLEAN, Enqueue(c, j, due) PROVE \E state : Elsewhere(c, state)
  BY <1>1, EnqueueShape DEF Elsewhere, store
<1>2. CASE CancelJob(c, j)
  BY <1>2, CancelShape DEF Elsewhere, store
<1>3. CASE RetryJob(c, j)
  BY <1>3, RetryShape DEF Elsewhere, store
<1>4. CASE ReplayDeadJob(c, j)
  BY <1>4, ReplayShape DEF Elsewhere, store
<1> QED BY <1>1, <1>2, <1>3, <1>4 DEF Call

LEMMA ClientRoots ==
  ASSUME Types, Rooted, NEW c \in Client,
         Maintain(c) \/ Query(c) \/ \E j \in Job : Call(c, j)
  PROVE  Rooted'
<1>0. c \in Proc /\ c \notin Slot
  BY SetsAssumption DEF Proc
<1>1. ASSUME NEW state, Become(c, state), ClientScript(state), UNCHANGED store PROVE Rooted'
  BY <1>0, <1>1, RootLocal DEF ScriptAs
<1>2. ASSUME NEW state, Become(c, state), UNCHANGED store,
             state.pc \in {"idle", "reap", "list", "fetch", "forget"}
      PROVE  Rooted'
  BY <1>1, <1>2 DEF ClientScript
<1>3. CASE Query(c)
  BY <1>2, <1>3, QueryShape
<1>4. ASSUME NEW j \in Solo, NEW due \in BOOLEAN, Enqueue(c, j, due) PROVE Rooted'
  <2>1. j \in Job /\ DependsOn[j] = {}
    BY SoloJobs
  <2>2. PICK state : /\ Become(c, state) /\ state.held.status = "pending"
                     /\ state.pc = "get" /\ state.push /\ state.next = "look"
    BY <1>4, <2>1, EnqueueShape
  <2> QED BY <1>1, <1>4, <2>1, <2>2, EnqueueShape DEF ClientScript
<1>5. ASSUME NEW j \in Cancels, j \in Job, CancelJob(c, j) PROVE Rooted'
  <2>1. PICK state : /\ Become(c, state) /\ state.held.status = "cancelled" /\ state.job = j
                     /\ state.pc = "get" /\ ~state.push /\ state.next = "return"
    BY <1>5, CancelShape
  <2> QED BY <1>1, <1>5, <2>1, CancelShape DEF ClientScript
<1>6. ASSUME NEW j \in Job, RetryJob(c, j) PROVE Rooted'
  <2>1. PICK state : /\ Become(c, state) /\ state.held.status = "pending"
                     /\ state.pc = "get" /\ state.push /\ state.next = "return"
    BY <1>6, RetryShape
  <2> QED BY <1>1, <1>6, <2>1, RetryShape DEF ClientScript
<1>7. ASSUME NEW j \in Job, ReplayDeadJob(c, j) PROVE Rooted'
  <2>1. PICK state : /\ Become(c, state) /\ state.held.status = "pending"
                     /\ state.pc = "get" /\ ~state.push /\ state.next = "enqueue"
    BY <1>7, ReplayShape
  <2> QED BY <1>1, <1>7, <2>1, ReplayShape DEF ClientScript
<1>8. ASSUME NEW j \in Job, Call(c, j) PROVE Rooted'
  <2>1. CASE j \in Solo
    BY <1>4, <1>5, <1>6, <1>7, <1>8, <2>1 DEF Call
  <2>2. CASE j \notin Solo
    <3>1. j \in Job \ Solo
      BY <2>2
    <3> QED BY <1>0, <1>8, <3>1, CallElsewhere, ElsewhereRoots
  <2> QED BY <2>1, <2>2
<1>9. ASSUME NEW j \in Job, NEW queues, NEW statuses, Forget(j, queues, statuses),
             NEW state, Become(c, state), state.pc \in {"idle", "reap"}
      PROVE  Rooted'
  <2>1. ScriptAs(c, state)
    BY <1>0, <1>9 DEF ScriptAs, ClientScript
  <2> QED BY <1>0, <1>9, <2>1, ForgetRoots
<1>10. ASSUME NEW m \in proc[c].left, ReapForget(c, m) PROVE Rooted'
  BY <1>9, <1>10, ReapForgetShape
<1>11. CASE ReapRemove(c)
  <2>1. PICK state : Become(c, state) /\ state.pc \in {"idle", "list"}
    BY <1>11, ReapRemoveShape
  <2>2. ScriptAs(c, state)
    BY <1>0, <2>1 DEF ScriptAs, ClientScript
  <2> QED BY <1>0, <1>11, <2>1, <2>2, ReapRemoveShape, RootFrame
<1>12. CASE PurgeList(c)
  BY <1>2, <1>12, PurgeListShape
<1>13. ASSUME NEW old \in BOOLEAN, PurgeFetch(c, old) PROVE Rooted'
  BY <1>2, <1>13, PurgeFetchShape
<1>14. CASE PurgeForget(c)
  <2>1. Idle.pc = "idle"
    BY DEF Idle
  <2> QED BY <1>9, <1>14, <2>1, PurgeForgetShape
<1> QED BY <1>3, <1>8, <1>10, <1>11, <1>12, <1>13, <1>14 DEF Maintain

LEMMA RootedHolds ==
  /\ Init => Rooted
  /\ Types /\ Rooted /\ [Next]_vars => Rooted'
<1>1. ASSUME Init PROVE Rooted
  <2>1. \A p \in Proc : ScriptAs(p, proc[p])
    BY <1>1 DEF Init, Idle, ScriptAs, SlotScript, ClientScript
  <2> QED BY <1>1, <2>1, SoloJobs DEF Init, Absent, Rooted
<1>2. ASSUME Types, Rooted, [Next]_vars PROVE Rooted'
  <2>1. CASE UNCHANGED vars
    BY <1>2, <2>1, SoloJobs DEF vars, store, Rooted, ScriptAs, SlotScript, ClientScript, Proc
  <2>2. ASSUME NEW p \in Proc, Crash(p) PROVE Rooted'
    <3>1. ScriptAs(p, Idle)
      BY DEF ScriptAs, SlotScript, ClientScript, Idle
    <3>2. Become(p, Idle) /\ UNCHANGED store
      BY <2>2 DEF Crash, Return
    <3> QED BY <1>2, <3>1, <3>2, IdleType, RootLocal
  <2>3. ASSUME NEW j \in Job, RunAtPasses(j) PROVE Rooted'
    <3>1. /\ \A k \in Job : record'[k].status = record[k].status
          /\ \A p \in Proc :
               /\ proc'[p].pc = proc[p].pc /\ proc'[p].job = proc[p].job
               /\ proc'[p].push = proc[p].push /\ proc'[p].next = proc[p].next
               /\ proc'[p].held.status = proc[p].held.status
      BY <1>2, <2>3, RunAtPassesShape
    <3>2. \A p \in Proc : proc'[p].job \in Solo => ScriptAs(p, proc[p])'
      BY <1>2, <3>1 DEF Rooted, ScriptAs, SlotScript, ClientScript
    <3> QED BY <1>2, <3>1, <3>2, SoloJobs DEF Rooted, Proc
  <2>4. ASSUME NEW j \in Job, ResultExpires(j) PROVE Rooted'
    <3>1. record' = [record EXCEPT ![j] = Absent] /\ proc' = proc
      BY <2>4 DEF ResultExpires
    <3>2. record'[j].status = "absent" /\ \A k \in Job : k # j => record'[k] = record[k]
      BY <1>2, <3>1 DEF Types, TypeOK, Absent
    <3> QED BY <1>2, <3>1, <3>2, SoloJobs
          DEF Rooted, ScriptAs, SlotScript, ClientScript, Proc
  <2>5. CASE Next
    BY <1>2, <2>2, <2>3, <2>4, <2>5, WorkRoots, BrokerRoots, ClientRoots DEF Next
  <2> QED BY <1>2, <2>1, <2>5
<1> QED BY <1>1, <1>2

-----------------------------------------------------------------------------
(* Jobs without dependencies, among others: where each is.                   *)

Place == ({"process"} \X Proc) \cup ({"list"} \X (Queue \X Tier)) \cup ({"deferred"} \X Queue)

On(k, x) == \/ x[1] = "process" /\ Holds(x[2], k)
            \/ x[1] = "list" /\ InList(x[2][1], x[2][2], k)
            \/ x[1] = "deferred" /\ deferred[x[2]][k] # "none"

Single(k) == \A x, y \in Place : On(k, x) /\ On(k, y) => x = y

ListedOnce == \A q \in Queue, t \in Tier : \A m, n \in DOMAIN pending[q][t] :
                pending[q][t][m] \in Solo /\ pending[q][t][m] = pending[q][t][n] => m = n

\* A job whose attempt has ended is nowhere, until a client pushes it again.
EndedAway == \A k \in Solo : record[k].status \in Ended =>
                \A x \in Place : On(k, x) => x[1] = "process" /\ x[2] \in Client

\* What is stored, in a place or about to be stored was given to enqueue.
Given == /\ \A k \in Solo : Exists(k) => k \in submitted
         /\ \A k \in Solo, x \in Place : On(k, x) => k \in submitted
         /\ \A p \in Proc : proc[p].pc \in {"get", "write"} /\ proc[p].job \in Solo =>
               proc[p].job \in submitted

\* The inductive invariant of single delivery, and the same if all jobs are alone.
Placed == /\ \A k \in Solo : Single(k)
          /\ ListedOnce /\ EndedAway /\ Given
Whereabouts == Job \subseteq Solo /\ Placed

LEMMA PlaceCases ==
  ASSUME NEW x \in Place
  PROVE  \/ \E p \in Proc : x = <<"process", p>>
         \/ \E q \in Queue, t \in Tier : x = <<"list", <<q, t>>>>
         \/ \E q \in Queue : x = <<"deferred", q>>
BY DEF Place

LEMMA OnCases ==
  ASSUME NEW k
  PROVE  /\ \A p \in Proc : <<"process", p>> \in Place /\ (On(k, <<"process", p>>) <=> Holds(p, k))
         /\ \A q \in Queue, t \in Tier :
              /\ <<"list", <<q, t>>>> \in Place
              /\ On(k, <<"list", <<q, t>>>>) <=> InList(q, t, k)
         /\ \A q \in Queue : /\ <<"deferred", q>> \in Place
                             /\ On(k, <<"deferred", q>>) <=> deferred[q][k] # "none"
<1>1. \A p \in Proc : <<"process", p>> \in Place /\ (On(k, <<"process", p>>) <=> Holds(p, k))
  BY DEF Place, On
<1>2. ASSUME NEW q \in Queue, NEW t \in Tier
      PROVE  /\ <<"list", <<q, t>>>> \in Place
             /\ On(k, <<"list", <<q, t>>>>) <=> InList(q, t, k)
  <2>1. PICK cell \in Queue \X Tier : cell = <<q, t>>
    OBVIOUS
  <2>2. cell[1] = q /\ cell[2] = t
    BY <2>1
  <2>3. <<"list", cell>> \in Place
    BY DEF Place
  <2>4. On(k, <<"list", cell>>) <=> InList(cell[1], cell[2], k)
    BY DEF On
  <2> QED BY <2>1, <2>2, <2>3, <2>4
<1>3. \A q \in Queue : /\ <<"deferred", q>> \in Place
                       /\ On(k, <<"deferred", q>>) <=> deferred[q][k] # "none"
  BY DEF Place, On
<1> QED BY <1>1, <1>2, <1>3

\* A step that moves job j, if any, to place y, and puts no other anywhere.
LEMMA Relocated ==
  ASSUME Placed, NEW j,
         \A k \in Solo \ {j}, x \in Place : On(k, x)' => On(k, x),
         j \in Solo => \/ \A x \in Place : On(j, x)' => On(j, x)
                       \/ \E y \in Place : \A x \in Place : On(j, x)' => x = y
  PROVE  \A k \in Solo : Single(k)'
<1>1. ASSUME NEW k \in Solo, NEW x \in Place, NEW y \in Place, On(k, x)', On(k, y)' PROVE x = y
  <2>1. CASE k = j
    BY <1>1, <2>1 DEF Placed, Single
  <2>2. CASE k # j
    BY <1>1, <2>2 DEF Placed, Single
  <2> QED BY <2>1, <2>2
<1>2. \A k \in Solo, x \in Place, y \in Place : On(k, x)' /\ On(k, y)' => x = y
  BY <1>1
<1> QED BY <1>2 DEF Single, Place, Proc

\* A step after which no more of them is in a list or a deferred set than before.
NoneQueued ==
    /\ \A q \in Queue, t \in Tier, k \in Solo : InList(q, t, k)' => InList(q, t, k)
    /\ \A q \in Queue, k \in Solo : deferred'[q][k] # "none" => deferred[q][k] # "none"
    /\ ListedOnce'

LEMMA QueuesKept ==
  ASSUME Placed, pending' = pending,
         \A q \in Queue, k \in Solo : deferred'[q][k] # "none" => deferred[q][k] # "none"
  PROVE  NoneQueued
<1>1. \A q \in Queue, t \in Tier, k \in Solo : InList(q, t, k)' => InList(q, t, k)
  BY DEF InList
<1>2. ListedOnce'
  BY SoloJobs DEF Placed, ListedOnce
<1> QED BY <1>1, <1>2 DEF NoneQueued

\* LPUSH of another job.
LEMMA OtherPushed ==
  ASSUME Types, Placed, NEW j \in Job \ Solo, NEW queue \in Queue, LPush(j, queue),
         \A q \in Queue, k \in Solo : deferred'[q][k] # "none" => deferred[q][k] # "none"
  PROVE  NoneQueued
<1>1. ASSUME NEW q \in Queue, NEW t \in Tier, NEW k \in Solo, InList(q, t, k)'
      PROVE  InList(q, t, k)
  <2>1. k # j
    OBVIOUS
  <2> QED BY <1>1, <2>1, LPushIn
<1>2. ASSUME NEW q \in Queue, NEW t \in Tier, NEW m \in DOMAIN pending'[q][t],
             NEW n \in DOMAIN pending'[q][t], pending'[q][t][m] \in Solo,
             pending'[q][t][m] = pending'[q][t][n]
      PROVE  m = n
  <2>1. PICK x \in DOMAIN pending[q][t] :
           /\ pending'[q][t][m] = pending[q][t][x]
           /\ m = IF q = queue /\ t = TierOf(j) THEN x + 1 ELSE x
    BY <1>2, LPushEntries
  <2>2. PICK y \in DOMAIN pending[q][t] :
           /\ pending'[q][t][n] = pending[q][t][y]
           /\ n = IF q = queue /\ t = TierOf(j) THEN y + 1 ELSE y
    BY <1>2, LPushEntries
  <2>3. x = y
    BY <1>2, <2>1, <2>2 DEF Placed, ListedOnce
  <2> QED BY <2>1, <2>2, <2>3
<1>3. ListedOnce'
  BY <1>2, SoloJobs DEF ListedOnce
<1> QED BY <1>1, <1>3 DEF NoneQueued

\* Where the jobs are after a step of p.
LEMMA OnMoved ==
  ASSUME Types, NEW p \in Proc, NEW state, Become(p, state),
         NoneQueued, NEW k \in Solo, NEW x \in Place, On(k, x)'
  PROVE  On(k, x) \/ (x = <<"process", p>> /\ HoldsAs(p, state, k))
<1>1. ASSUME NEW r \in Proc, x = <<"process", r>> PROVE On(k, x) \/ (r = p /\ HoldsAs(p, state, k))
  <2>1. Holds(r, k)'
    BY <1>1 DEF On
  <2> QED BY <1>1, <2>1, HoldsMoved DEF On
<1>2. ASSUME NEW q \in Queue, x = <<"deferred", q>> PROVE On(k, x)
  BY <1>2 DEF On, NoneQueued
<1>3. ASSUME NEW q \in Queue, NEW t \in Tier, x = <<"list", <<q, t>>>> PROVE On(k, x)
  <2>1. InList(q, t, k)'
    BY <1>3 DEF On
  <2>2. InList(q, t, k)
    BY <2>1 DEF NoneQueued
  <2> QED BY <1>3, <2>2, OnCases
<1> QED BY <1>1, <1>2, <1>3, PlaceCases

\* A step of p that puts nothing in a place it was not in.
LEMMA PlacesKept ==
  ASSUME Types, Placed, NEW p \in Proc, NEW state, Become(p, state),
         NoneQueued, submitted \subseteq submitted',
         \A k \in Solo : HoldsAs(p, state, k) => Holds(p, k),
         state.pc \in {"get", "write"} /\ state.job \in Solo => state.job \in submitted',
         \A k \in Solo : Exists(k)' => k \in submitted',
         \A k \in Solo : record'[k].status \in Ended =>
            \/ record[k].status \in Ended
            \/ Holds(p, k) /\ ~HoldsAs(p, state, k)
  PROVE  Placed'
<1>1. proc'[p] = state /\ \A r \in Proc \ {p} : proc'[r] = proc[r]
  BY Moved
<1>2. ASSUME NEW k \in Solo, NEW x \in Place, On(k, x)' PROVE On(k, x)
  BY <1>2, OnMoved, OnCases
<1>3. \A k \in Solo : Single(k)'
  <2>1. PICK j : j = None
    OBVIOUS
  <2> QED BY <1>2, <2>1, SoloJobs, Relocated
<1>4. ListedOnce'
  BY DEF NoneQueued
<1>5. ASSUME NEW k \in Solo, record'[k].status \in Ended, NEW x \in Place, On(k, x)'
      PROVE  x[1] = "process" /\ x[2] \in Client
  <2>1. CASE record[k].status \in Ended
    BY <1>2, <1>5, <2>1 DEF Placed, EndedAway
  <2>2. CASE Holds(p, k) /\ ~HoldsAs(p, state, k)
    <3>1. x = <<"process", p>>
      BY <1>2, <1>5, <2>2, OnCases DEF Placed, Single
    <3>2. Holds(p, k)'
      BY <1>5, <3>1 DEF On
    <3> QED BY <2>2, <3>2, HoldsMoved
  <2> QED BY <1>5, <2>1, <2>2
<1>6. EndedAway'
  <2>1. \A k \in Solo : record'[k].status \in Ended =>
          \A x \in Place : On(k, x)' => x[1] = "process" /\ x[2] \in Client
    BY <1>5
  <2> QED BY <2>1, SoloJobs DEF EndedAway, Place, Proc
<1>7. Given'
  <2>1. \A k \in Solo, x \in Place : On(k, x)' => k \in submitted'
    BY <1>2 DEF Placed, Given
  <2>2. \A r \in Proc : proc'[r].pc \in {"get", "write"} /\ proc'[r].job \in Solo =>
           proc'[r].job \in submitted'
    BY <1>1 DEF Placed, Given
  <2> QED BY <2>1, <2>2, SoloJobs DEF Given, Place, Proc
<1> QED BY <1>3, <1>4, <1>6, <1>7, SoloJobs DEF Placed

\* A step of p that stores nothing.
LEMMA PlacesLocal ==
  ASSUME Types, Placed, NEW p \in Proc, NEW state, Become(p, state),
         UNCHANGED store, submitted' = submitted,
         \A k \in Solo : HoldsAs(p, state, k) => Holds(p, k),
         state.pc \in {"get", "write"} /\ state.job \in Solo => state.job \in submitted
  PROVE  Placed'
<1>1. record' = record /\ pending' = pending /\ deferred' = deferred
  BY DEF store
<1>2. \A k \in Solo : Exists(k)' => k \in submitted
  BY <1>1 DEF Exists, Placed, Given
<1>3. NoneQueued
  BY <1>1, QueuesKept
<1> QED BY <1>1, <1>2, <1>3, PlacesKept

LEMMA ElsewherePlaces ==
  ASSUME Types, Placed, NEW p \in Proc, NEW state, Elsewhere(p, state)
  PROVE  Placed'
<1>1. NoneQueued
  BY QueuesKept, OtherPushed DEF Elsewhere
<1>2. \A k \in Solo : ~HoldsAs(p, state, k)
  BY DEF Elsewhere, HoldsAs
<1>3. \A k \in Solo : Exists(k)' => k \in submitted'
  BY DEF Elsewhere, Exists, Placed, Given
<1> QED BY <1>1, <1>2, <1>3, PlacesKept DEF Elsewhere

\* What a process holds was given to enqueue.
LEMMA HeldGiven ==
  ASSUME Placed, NEW p \in Proc, NEW k \in Solo, Holds(p, k)
  PROVE  k \in submitted
BY OnCases DEF Placed, Given

LEMMA WorkPlaces ==
  ASSUME Types, Placed, NEW s \in Slot, Work(s)
  PROVE  Placed'
<1>0. s \in Proc /\ s \notin Client
  BY SetsAssumption DEF Proc
<1>1. ASSUME UNCHANGED store, submitted' = submitted, proc[s].pc \in {"popped", "claimed", "invoke"},
             NEW state, Become(s, state), state.job = proc[s].job
      PROVE  Placed'
  <2>1. PICK j \in Job : j = proc[s].job
    BY <1>0, <1>1, OwnerType DEF Owning
  <2>2. Holds(s, j)
    BY <1>1, <2>1 DEF Holds, Delivered
  <2>3. \A k \in Solo : HoldsAs(s, state, k) => Holds(s, k)
    BY <1>1, <2>1, <2>2 DEF HoldsAs
  <2>4. j \in Solo => j \in submitted
    BY <1>0, <2>2, HeldGiven
  <2> QED BY <1>0, <1>1, <2>1, <2>3, <2>4, PlacesLocal
<1>2. CASE Load(s)
  BY <1>1, <1>2, LoadShape
<1>3. CASE Drop(s)
  <2>1. /\ proc[s].pc = "gone" /\ proc[s].job \in Job /\ Become(s, Idle)
        /\ Forget(proc[s].job, {}, JobStatus) /\ submitted' = submitted
    BY <1>3, DropShape
  <2>2. PICK j \in Job : j = proc[s].job
    BY <2>1
  <2>3. /\ record' = [record EXCEPT ![j] = Absent]
        /\ pending' = pending /\ deferred' = deferred
    BY <2>1, <2>2 DEF Forget
  <2>4. record'[j].status = "absent" /\ \A k \in Solo : k # j => record'[k] = record[k]
    BY <2>3, SoloJobs DEF Types, TypeOK, Absent
  <2>5. \A k \in Solo : ~HoldsAs(s, Idle, k)
    BY DEF HoldsAs, Idle
  <2>6. \A k \in Solo : Exists(k)' => k \in submitted
    BY <2>4 DEF Exists, Placed, Given
  <2>7. \A k \in Solo : record'[k].status \in Ended => record[k].status \in Ended
    BY <2>4 DEF Ended
  <2>8. Idle.pc = "idle"
    BY DEF Idle
  <2>9. NoneQueued
    BY <2>3, QueuesKept
  <2> QED BY <1>0, <2>1, <2>5, <2>6, <2>7, <2>8, <2>9, PlacesKept
<1>4. CASE RejectUnknown(s) \/ Succeed(s) \/ MoveToDLQ(s) \/ Fail(s)
  BY <1>1, <1>4, ConcludeShape
<1>5. CASE CheckCancelled(s)
  <2>1. CASE Become(s, Idle)
    <3>1. \A k \in Solo : ~HoldsAs(s, Idle, k)
      BY DEF HoldsAs, Idle
    <3>2. Idle.pc = "idle"
      BY DEF Idle
    <3> QED BY <1>0, <1>5, <2>1, <3>1, <3>2, CheckCancelledShape, PlacesLocal
  <2> QED BY <1>1, <1>5, <2>1, CheckCancelledShape
<1>6. ASSUME NEW due \in BOOLEAN, ScheduleRetry(s, due) PROVE Placed'
  BY <1>1, <1>6, ScheduleRetryShape
<1> QED BY <1>2, <1>3, <1>4, <1>5, <1>6 DEF Work

\* BRPOP takes a job from its list to the slot.
LEMMA PopPlaces ==
  ASSUME Types, Placed, NEW s \in Slot, NEW i \in DOMAIN Queues[s],
         NEW t \in Tier, Pop(s, i, t)
  PROVE  Placed'
<1>0. s \in Proc /\ s \notin Client
  BY SetsAssumption DEF Proc
<1>1. /\ proc[s].pc = "idle" /\ record' = record /\ deferred' = deferred
      /\ submitted' = submitted
  BY DEF Pop
<1>2. PICK q \in Queue, j \in Job, state \in ProcState :
           /\ Become(s, state) /\ state.pc = "popped" /\ state.job = j
           /\ InList(q, t, j)
           /\ \A r \in Queue, u \in Tier, k \in Job :
                /\ InList(r, u, k)' => InList(r, u, k)
                /\ InList(r, u, k) /\ k # j => InList(r, u, k)'
           /\ \A x \in DOMAIN pending'[q][t] : /\ x \in DOMAIN pending[q][t]
                                               /\ pending'[q][t][x] = pending[q][t][x]
                                               /\ x # Len(pending[q][t])
           /\ Len(pending[q][t]) \in DOMAIN pending[q][t]
           /\ pending[q][t][Len(pending[q][t])] = j
           /\ \A r \in Queue, u \in Tier : r # q \/ u # t => pending'[r][u] = pending[r][u]
  BY PopIn, SoloJobs, Zenon
<1>3. proc'[s] = state /\ \A r \in Proc \ {s} : proc'[r] = proc[r]
  BY <1>0, <1>2, Moved
<1>4. j \in Solo => ~InList(q, t, j)'
  <2>1. SUFFICES ASSUME j \in Solo, NEW x \in DOMAIN pending'[q][t], pending'[q][t][x] = j
                 PROVE  FALSE
    BY DEF InList
  <2>2. /\ x \in DOMAIN pending[q][t] /\ x # Len(pending[q][t])
        /\ pending[q][t][x] = pending[q][t][Len(pending[q][t])]
    BY <1>2, <2>1
  <2> QED BY <1>2, <2>1, <2>2 DEF Placed, ListedOnce
<1>5. ASSUME NEW k \in Solo, NEW x \in Place, On(k, x)'
      PROVE  \/ On(k, x) /\ ~(k = j /\ x = <<"list", <<q, t>>>>)
             \/ k = j /\ x = <<"process", s>>
  <2>1. ASSUME NEW r \in Proc, x = <<"process", r>> PROVE On(k, x) \/ (k = j /\ r = s)
    <3>1. Holds(r, k)'
      BY <1>5, <2>1 DEF On
    <3>2. /\ r = s => HoldsAs(s, state, k)
          /\ r # s => Holds(r, k)
      BY <1>0, <1>2, <3>1, HoldsMoved
    <3>3. HoldsAs(s, state, k) => k = j
      BY <1>2 DEF HoldsAs
    <3> QED BY <2>1, <3>2, <3>3 DEF On
  <2>2. ASSUME NEW r \in Queue, x = <<"deferred", r>> PROVE On(k, x)
    BY <1>1, <1>5, <2>2 DEF On
  <2>3. ASSUME NEW r \in Queue, NEW u \in Tier, x = <<"list", <<r, u>>>>
        PROVE  On(k, x) /\ ~(k = j /\ r = q /\ u = t)
    <3>1. InList(r, u, k)'
      BY <1>5, <2>3 DEF On
    <3> QED BY <1>2, <1>4, <2>3, <3>1, OnCases, SoloJobs
  <2>4. \A r \in Proc : x = <<"process", r>> => x # <<"list", <<q, t>>>>
    OBVIOUS
  <2>5. \A r \in Queue : x = <<"deferred", r>> => x # <<"list", <<q, t>>>>
    OBVIOUS
  <2>6. \A r \in Queue, u \in Tier : x = <<"list", <<r, u>>>> /\ x = <<"list", <<q, t>>>> =>
           r = q /\ u = t
    OBVIOUS
  <2> QED BY <2>1, <2>2, <2>3, <2>4, <2>5, <2>6, PlaceCases
<1>6. <<"list", <<q, t>>>> \in Place /\ On(j, <<"list", <<q, t>>>>)
  BY <1>2, OnCases
<1>7. j \in Solo => \A x \in Place : On(j, x)' => x = <<"process", s>>
  BY <1>5, <1>6 DEF Placed, Single
<1>8. \A k \in Solo : Single(k)'
  <2>1. \A k \in Solo \ {j}, x \in Place : On(k, x)' => On(k, x)
    BY <1>5
  <2>2. <<"process", s>> \in Place
    BY <1>0, OnCases
  <2> QED BY <1>7, <2>1, <2>2, Relocated
<1>9. ListedOnce'
  <2>1. ASSUME NEW r \in Queue, NEW u \in Tier, NEW m \in DOMAIN pending'[r][u],
               NEW n \in DOMAIN pending'[r][u], pending'[r][u][m] \in Solo,
               pending'[r][u][m] = pending'[r][u][n]
        PROVE  m = n
    <3>1. CASE r = q /\ u = t
      BY <1>2, <2>1, <3>1 DEF Placed, ListedOnce
    <3>2. CASE ~(r = q /\ u = t)
      <4>1. pending'[r][u] = pending[r][u]
        BY <1>2, <3>2
      <4> QED BY <2>1, <4>1 DEF Placed, ListedOnce
    <3> QED BY <3>1, <3>2
  <2> QED BY <2>1, SoloJobs DEF ListedOnce
<1>10. j \in Solo => j \in submitted /\ record[j].status \notin Ended
  <2>1. j \in Solo => j \in submitted
    BY <1>6 DEF Placed, Given
  <2>2. <<"list", <<q, t>>>>[1] # "process"
    OBVIOUS
  <2> QED BY <1>6, <2>1, <2>2 DEF Placed, EndedAway
<1>11. EndedAway'
  <2>1. \A k \in Solo : record'[k].status \in Ended =>
          \A x \in Place : On(k, x)' => x[1] = "process" /\ x[2] \in Client
    BY <1>1, <1>5, <1>10 DEF Placed, EndedAway
  <2> QED BY <2>1 DEF EndedAway, Place, Proc
<1>12. Given'
  <2>1. \A k \in Solo, x \in Place : On(k, x)' => k \in submitted'
    BY <1>1, <1>5, <1>10 DEF Placed, Given
  <2>2. \A r \in Proc : proc'[r].pc \in {"get", "write"} /\ proc'[r].job \in Solo =>
           proc'[r].job \in submitted'
    BY <1>1, <1>2, <1>3 DEF Placed, Given
  <2>3. \A k \in Solo : Exists(k)' => k \in submitted'
    BY <1>1 DEF Placed, Given, Exists
  <2> QED BY <2>1, <2>2, <2>3 DEF Given, Place, Proc
<1> QED BY <1>8, <1>9, <1>11, <1>12 DEF Placed

\* The script takes the ripe jobs from their deferred sets to their lists.
LEMMA PromotePlaces ==
  ASSUME Types, Placed, NEW s \in Slot, PromoteDeferred(s)
  PROVE  Placed'
<1>1. record' = record /\ proc' = proc /\ submitted' = submitted
  BY DEF PromoteDeferred
<1>2. ASSUME NEW k \in Solo, NEW x \in Place, On(k, x)'
      PROVE  \/ On(k, x)
             \/ \E q \in Queue : /\ <<q, TierOf(k)>> \in RipeCells(s) /\ deferred[q][k] = "due"
                                 /\ x = <<"list", <<q, TierOf(k)>>>>
  <2>1. ASSUME NEW r \in Proc, x = <<"process", r>> PROVE On(k, x)
    BY <1>1, <1>2, <2>1 DEF On, Holds, Delivered, WillPush
  <2>2. ASSUME NEW q \in Queue, x = <<"deferred", q>> PROVE On(k, x)
    BY <1>2, <2>2, PromoteShape, SoloJobs DEF On
  <2>3. ASSUME NEW q \in Queue, NEW t \in Tier, x = <<"list", <<q, t>>>>
        PROVE  \/ On(k, x)
               \/ t = TierOf(k) /\ <<q, t>> \in RipeCells(s) /\ deferred[q][k] = "due"
    <3>1. InList(q, t, k)'
      BY <1>2, <2>3 DEF On
    <3>2. InList(q, t, k) \/ (<<q, t>> \in RipeCells(s) /\ k \in Ripe(q, t))
      BY <3>1, PromoteIn
    <3> QED BY <2>3, <3>2, OnCases DEF Ripe
  <2> QED BY <2>1, <2>2, <2>3, PlaceCases
<1>3. ASSUME NEW k \in Solo, NEW q \in Queue,
             <<q, TierOf(k)>> \in RipeCells(s), deferred[q][k] = "due"
      PROVE  \A x \in Place : On(k, x)' => x = <<"list", <<q, TierOf(k)>>>>
  <2>1. <<"deferred", q>> \in Place /\ On(k, <<"deferred", q>>)
    BY <1>3, OnCases
  <2>2. \A y \in Place : On(k, y) => y = <<"deferred", q>>
    BY <2>1 DEF Placed, Single
  <2>3. ~On(k, <<"deferred", q>>)'
    BY <1>3, PromoteShape, SoloJobs DEF On
  <2>4. \A r \in Queue : deferred[r][k] = "due" => r = q
    <3>1. \A r \in Queue : deferred[r][k] = "due" => <<"deferred", r>> = <<"deferred", q>>
      BY <2>2, OnCases
    <3> QED BY <3>1
  <2> QED BY <1>2, <2>2, <2>3, <2>4
<1>4. \A k \in Solo : Single(k)'
  <2>1. ASSUME NEW k \in Solo, NEW x \in Place, NEW y \in Place, On(k, x)', On(k, y)' PROVE x = y
    <3>1. CASE \E q \in Queue : <<q, TierOf(k)>> \in RipeCells(s) /\ deferred[q][k] = "due"
      BY <1>3, <2>1, <3>1
    <3>2. CASE ~\E q \in Queue : <<q, TierOf(k)>> \in RipeCells(s) /\ deferred[q][k] = "due"
      BY <1>2, <2>1, <3>2 DEF Placed, Single
    <3> QED BY <3>1, <3>2
  <2> QED BY <2>1 DEF Single, Place, Proc
<1>5. ListedOnce'
  <2>1. ASSUME NEW q \in Queue, NEW t \in Tier, NEW m \in DOMAIN pending'[q][t],
               NEW n \in DOMAIN pending'[q][t], pending'[q][t][m] \in Solo,
               pending'[q][t][m] = pending'[q][t][n]
        PROVE  m = n
    <3>1. PICK list \in Seq(Job) : list = pending[q][t]
      BY DEF Types, TypeOK
    <3>2. \A x, y \in DOMAIN list : list[x] \in Solo /\ list[x] = list[y] => x = y
      BY <3>1 DEF Placed, ListedOnce
    <3>3. CASE <<q, t>> \notin RipeCells(s)
      <4>1. pending'[q][t] = list
        BY <3>1, <3>3, PromoteShape
      <4> QED BY <2>1, <3>2, <4>1
    <3>4. CASE <<q, t>> \in RipeCells(s)
      <4>1. PICK order \in Orders(Ripe(q, t)) : pending'[q][t] = order \o list
        BY <3>1, <3>4, PromoteShape
      <4>2. Ripe(q, t) \in SUBSET Job
        BY DEF Ripe
      <4>3. order \in Seq(Ripe(q, t)) /\ order \in Seq(Job)
        BY <4>2, OrdersType
      <4>4. \A x, y \in DOMAIN order : order[x] = order[y] => x = y
        BY DEF Orders
      <4>5. ASSUME NEW x \in DOMAIN order, order[x] \in Solo, NEW y \in DOMAIN list
            PROVE  order[x] # list[y]
        <5>1. order[x] \in Ripe(q, t)
          BY <4>3
        <5>2. PICK k \in Solo : k = order[x] /\ deferred[q][k] = "due"
          BY <4>5, <5>1 DEF Ripe
        <5>3. On(k, <<"deferred", q>>) /\ <<"deferred", q>> \in Place
          BY <5>2, OnCases
        <5>4. ASSUME list[y] = k PROVE FALSE
          <6>1. InList(q, t, k)
            BY <3>1, <5>4 DEF InList
          <6>2. On(k, <<"list", <<q, t>>>>) /\ <<"list", <<q, t>>>> \in Place
            BY <6>1, OnCases
          <6>3. <<"list", <<q, t>>>> = <<"deferred", q>>
            BY <5>3, <6>2 DEF Placed, Single
          <6> QED BY <6>3
        <5> QED BY <5>2, <5>4
      <4>6. PICK longer : longer = order \o list
        OBVIOUS
      <4>7. Len(order) \in Nat /\ Len(list) \in Nat
        BY <3>1, <4>3
      <4>8. PICK a \in Nat : a = Len(order)
        BY <4>7
      <4>9. PICK b \in Nat : b = Len(list)
        BY <4>7
      <4>10. DOMAIN order = 1 .. a /\ DOMAIN list = 1 .. b /\ DOMAIN longer = 1 .. a + b
        BY <3>1, <4>3, <4>6, <4>8, <4>9
      <4>11. /\ \A x \in 1 .. a : longer[x] = order[x]
             /\ \A x \in 1 .. a + b : x > a => longer[x] = list[x - a]
        BY <3>1, <4>3, <4>6, <4>8, <4>9
      <4>12. m \in 1 .. a + b /\ n \in 1 .. a + b /\ longer[m] = longer[n]
             /\ longer[m] \in Solo
        BY <2>1, <4>1, <4>6, <4>10
      <4>13. CASE m <= a /\ n <= a
        BY <4>4, <4>10, <4>11, <4>12, <4>13
      <4>14. CASE m <= a /\ n > a
        <5>1. /\ m \in DOMAIN order /\ n - a \in DOMAIN list
              /\ order[m] = list[n - a] /\ order[m] \in Solo
          BY <4>10, <4>11, <4>12, <4>14
        <5> QED BY <4>5, <5>1
      <4>15. CASE m > a /\ n <= a
        <5>1. /\ n \in DOMAIN order /\ m - a \in DOMAIN list
              /\ order[n] = list[m - a] /\ order[n] \in Solo
          BY <4>10, <4>11, <4>12, <4>15
        <5> QED BY <4>5, <5>1
      <4>16. CASE m > a /\ n > a
        <5>1. /\ m - a \in DOMAIN list /\ n - a \in DOMAIN list
              /\ list[m - a] = list[n - a] /\ list[m - a] \in Solo
          BY <4>10, <4>11, <4>12, <4>16
        <5>2. m - a = n - a
          BY <3>2, <5>1
        <5> QED BY <4>12, <5>2
      <4> QED BY <4>12, <4>13, <4>14, <4>15, <4>16
    <3> QED BY <3>3, <3>4
  <2> QED BY <2>1, SoloJobs DEF ListedOnce
<1>6. ASSUME NEW k \in Solo, NEW x \in Place, On(k, x)'
      PROVE  k \in submitted /\ (record[k].status \in Ended => x[1] = "process" /\ x[2] \in Client)
  <2>1. CASE On(k, x)
    BY <2>1 DEF Placed, Given, EndedAway
  <2>2. ASSUME NEW q \in Queue, deferred[q][k] = "due"
        PROVE  k \in submitted /\ record[k].status \notin Ended
    <3>1. <<"deferred", q>> \in Place /\ On(k, <<"deferred", q>>)
      BY <2>2, OnCases
    <3>2. <<"deferred", q>>[1] # "process"
      OBVIOUS
    <3> QED BY <3>1, <3>2 DEF Placed, Given, EndedAway
  <2> QED BY <1>2, <1>6, <2>1, <2>2
<1>7. EndedAway'
  <2>1. \A k \in Solo : record'[k].status \in Ended =>
          \A x \in Place : On(k, x)' => x[1] = "process" /\ x[2] \in Client
    BY <1>1, <1>6
  <2> QED BY <2>1 DEF EndedAway, Place, Proc
<1>8. Given'
  <2>1. \A k \in Solo, x \in Place : On(k, x)' => k \in submitted'
    BY <1>1, <1>6
  <2>2. \A r \in Proc : proc'[r].pc \in {"get", "write"} /\ proc'[r].job \in Solo =>
           proc'[r].job \in submitted'
    BY <1>1 DEF Placed, Given
  <2>3. \A k \in Solo : Exists(k)' => k \in submitted'
    BY <1>1 DEF Placed, Given, Exists
  <2> QED BY <2>1, <2>2, <2>3 DEF Given, Place, Proc
<1> QED BY <1>4, <1>5, <1>7, <1>8 DEF Placed

\* A write that pushes takes its job from the process to a list or a deferred set.
LEMMA PushPlaces ==
  ASSUME Types, Placed, NEW p \in Proc, NEW j \in Solo, NEW job \in Record, NEW state,
         proc[p].pc = "write", proc[p].job = j, proc[p].push,
         Become(p, state), state.pc = "idle",
         record'[j] = job, \A k \in Solo : k # j => record'[k] = record[k],
         job.status \in {"pending", "retrying"}, submitted' = submitted,
         job.due => LPush(j, job.queue) /\ deferred' = deferred,
         ~job.due => /\ pending' = pending /\ deferred'[job.queue][j] = "later"
                     /\ \A q \in Queue, k \in Job : q # job.queue \/ k # j =>
                          deferred'[q][k] = deferred[q][k]
  PROVE  Placed'
<1>1. proc'[p] = state /\ \A r \in Proc \ {p} : proc'[r] = proc[r]
  BY Moved
<1>2. j \in Job /\ job.queue \in Queue /\ TierOf(j) \in Tier
  BY SoloJobs, TierType DEF Record
<1>3. Holds(p, j)
  BY DEF Holds, Delivered, WillPush, Proc
<1>4. \A x \in Place : On(j, x) => x = <<"process", p>>
  <2>1. <<"process", p>> \in Place /\ On(j, <<"process", p>>)
    BY <1>3, OnCases
  <2>2. Single(j)
    BY DEF Placed
  <2> QED BY <2>1, <2>2 DEF Single
<1>5. \A k \in Solo : ~HoldsAs(p, state, k)
  BY DEF HoldsAs
<1>6. PICK y : y = (IF job.due THEN <<"list", <<job.queue, TierOf(j)>>>>
                    ELSE <<"deferred", job.queue>>)
  OBVIOUS
<1>7. y \in Place
  BY <1>2, <1>6, OnCases
<1>8. ASSUME NEW k \in Solo, NEW x \in Place, On(k, x)'
      PROVE  (On(k, x) /\ x # <<"process", p>>) \/ (k = j /\ x = y)
  <2>1. ASSUME NEW r \in Proc, x = <<"process", r>> PROVE On(k, x) /\ r # p
    <3>1. Holds(r, k)'
      BY <1>8, <2>1 DEF On
    <3> QED BY <1>5, <2>1, <3>1, HoldsMoved DEF On
  <2>2. ASSUME NEW q \in Queue, x = <<"deferred", q>>
        PROVE  On(k, x) \/ (k = j /\ x = y)
    <3>1. deferred'[q][k] # "none"
      BY <1>8, <2>2 DEF On
    <3> QED BY <1>6, <2>2, <3>1, SoloJobs DEF On
  <2>3. ASSUME NEW q \in Queue, NEW t \in Tier, x = <<"list", <<q, t>>>>
        PROVE  On(k, x) \/ (k = j /\ x = y)
    <3>1. InList(q, t, k)'
      BY <1>8, <2>3 DEF On
    <3>2. CASE job.due
      <4>1. InList(q, t, k) \/ (k = j /\ q = job.queue /\ t = TierOf(j))
        BY <1>2, <3>1, <3>2, LPushIn
      <4> QED BY <1>6, <2>3, <3>2, <4>1, OnCases
    <3>3. CASE ~job.due
      <4>1. InList(q, t, k)
        BY <3>1, <3>3 DEF InList
      <4> QED BY <2>3, <4>1, OnCases
    <3> QED BY <3>2, <3>3
  <2>4. \A q \in Queue : x = <<"deferred", q>> => x # <<"process", p>>
    OBVIOUS
  <2>5. \A q \in Queue, t \in Tier : x = <<"list", <<q, t>>>> => x # <<"process", p>>
    OBVIOUS
  <2>6. \A r \in Proc : x = <<"process", r>> /\ r # p => x # <<"process", p>>
    OBVIOUS
  <2> QED BY <2>1, <2>2, <2>3, <2>4, <2>5, <2>6, PlaceCases
<1>9. \A x \in Place : On(j, x)' => x = y
  BY <1>4, <1>8
<1>10. \A k \in Solo : Single(k)'
  <2>1. \A k \in Solo \ {j}, x \in Place : On(k, x)' => On(k, x)
    BY <1>8
  <2> QED BY <1>7, <1>9, <2>1, Relocated
<1>11. ListedOnce'
  <2>1. CASE job.due
    <3>1. LPush(j, job.queue)
      BY <2>1
    <3>2. ASSUME NEW q \in Queue, NEW t \in Tier, NEW m \in DOMAIN pending'[q][t],
                 NEW n \in DOMAIN pending'[q][t], pending'[q][t][m] \in Solo,
                 pending'[q][t][m] = pending'[q][t][n]
          PROVE  m = n
      <4>1. \A x \in DOMAIN pending[q][t] : pending[q][t][x] # j
        <5>1. SUFFICES ASSUME NEW x \in DOMAIN pending[q][t], pending[q][t][x] = j PROVE FALSE
          OBVIOUS
        <5>2. InList(q, t, j)
          BY <5>1 DEF InList
        <5>3. <<"list", <<q, t>>>> = <<"process", p>>
          BY <1>4, <5>2, OnCases
        <5> QED BY <5>3
      <4>2. \/ pending'[q][t][m] = j /\ m = 1
            \/ \E x \in DOMAIN pending[q][t] :
                 /\ pending'[q][t][m] = pending[q][t][x]
                 /\ m = IF q = job.queue /\ t = TierOf(j) THEN x + 1 ELSE x
        BY <1>2, <3>1, LPushEntries
      <4>3. \/ pending'[q][t][n] = j /\ n = 1
            \/ \E x \in DOMAIN pending[q][t] :
                 /\ pending'[q][t][n] = pending[q][t][x]
                 /\ n = IF q = job.queue /\ t = TierOf(j) THEN x + 1 ELSE x
        BY <1>2, <3>1, LPushEntries
      <4>4. \A x, z \in DOMAIN pending[q][t] :
               pending[q][t][x] \in Solo /\ pending[q][t][x] = pending[q][t][z] => x = z
        BY DEF Placed, ListedOnce
      <4> QED BY <3>2, <4>1, <4>2, <4>3, <4>4
    <3> QED BY <3>2, SoloJobs DEF ListedOnce
  <2>2. CASE ~job.due
    BY <2>2, SoloJobs DEF Placed, ListedOnce
  <2> QED BY <2>1, <2>2
<1>12. EndedAway'
  <2>1. \A k \in Solo : record'[k].status \in Ended =>
          \A x \in Place : On(k, x)' => x[1] = "process" /\ x[2] \in Client
    BY <1>8 DEF Placed, EndedAway, Ended
  <2> QED BY <2>1 DEF EndedAway, Place, Proc
<1>13. Given'
  <2>1. j \in submitted
    BY <1>3, HeldGiven
  <2>2. \A k \in Solo, x \in Place : On(k, x)' => k \in submitted'
    BY <1>8, <2>1 DEF Placed, Given
  <2>3. \A r \in Proc : proc'[r].pc \in {"get", "write"} /\ proc'[r].job \in Solo =>
           proc'[r].job \in submitted'
    BY <1>1 DEF Placed, Given
  <2>4. \A k \in Solo : Exists(k)' => k \in submitted'
    BY <2>1 DEF Placed, Given, Exists
  <2> QED BY <2>2, <2>3, <2>4 DEF Given, Place, Proc
<1> QED BY <1>10, <1>11, <1>12, <1>13 DEF Placed

LEMMA WritePlaces ==
  ASSUME Types, Placed, NEW p \in Proc, Write(p), proc[p].job \in Solo,
         ScriptAs(p, proc[p]), DependsOn[proc[p].job] = {}
  PROVE  Placed'
<1>1. PICK j \in Solo, job \in Record, state \in ProcState :
           /\ proc[p].pc = "write" /\ j = proc[p].job /\ job = proc[p].held
           /\ Become(p, state)
           /\ record'[j] = job /\ \A k \in Solo : k # j => record'[k] = record[k]
           /\ UNCHANGED <<dependents, submitted, calls, crashes>>
           /\ \/ /\ proc[p].push /\ job.status \in {"pending", "retrying"}
                 /\ state.pc = "idle"
                 /\ job.due => LPush(j, job.queue) /\ deferred' = deferred
                 /\ ~job.due => /\ pending' = pending /\ deferred'[job.queue][j] = "later"
                                /\ \A q \in Queue, k \in Job : q # job.queue \/ k # j =>
                                     deferred'[q][k] = deferred[q][k]
              \/ /\ ~proc[p].push /\ pending' = pending /\ deferred' = deferred
                 /\ \/ /\ p \in Slot /\ job.status = "running"
                       /\ state.pc = "invoke" /\ state.job = j
                    \/ /\ p \in Slot /\ job.status = "completed"
                       /\ state.pc = "resolve" /\ state.job = j
                    \/ /\ p \in Slot /\ job.status \in {"failed", "dead"}
                       /\ state.pc = "idle"
                    \/ /\ p \in Client /\ job.status = "pending" /\ proc[p].next = "enqueue"
                       /\ state.pc = "get" /\ state.job = j
                       /\ state.push /\ state.next = "look"
                    \/ /\ p \in Client /\ job.status = "cancelled"
                       /\ state.pc = "idle"
  BY SoloWrite, SoloJobs DEF Stores
<1>2. CASE proc[p].push
  BY <1>1, <1>2, PushPlaces
<1>3. CASE ~proc[p].push
  <2>1. /\ pending' = pending /\ deferred' = deferred /\ submitted' = submitted
        /\ \/ /\ p \in Slot /\ job.status = "running"
              /\ state.pc = "invoke" /\ state.job = j
           \/ /\ p \in Slot /\ job.status = "completed"
              /\ state.pc = "resolve" /\ state.job = j
           \/ /\ p \in Slot /\ job.status \in {"failed", "dead"}
              /\ state.pc = "idle"
           \/ /\ p \in Client /\ job.status = "pending" /\ proc[p].next = "enqueue"
              /\ state.pc = "get" /\ state.job = j
              /\ state.push /\ state.next = "look"
           \/ /\ p \in Client /\ job.status = "cancelled"
              /\ state.pc = "idle"
    BY <1>1, <1>3
  <2>2. j \in submitted
    BY <1>1 DEF Placed, Given
  <2>3. p \in Slot => Holds(p, j)
    BY <1>1 DEF Holds, Delivered
  <2>4. p \in Slot => p \notin Client
    BY SetsAssumption
  <2>5. \A k \in Solo : HoldsAs(p, state, k) => Holds(p, k)
    BY <1>1, <2>1, <2>4 DEF HoldsAs, Holds, Delivered, WillPush
  <2>6. \A k \in Solo : Exists(k)' => k \in submitted
    BY <1>1, <2>2 DEF Exists, Placed, Given
  <2>7. \A k \in Solo : record'[k].status \in Ended =>
            \/ record[k].status \in Ended
            \/ Holds(p, k) /\ ~HoldsAs(p, state, k)
    BY <1>1, <2>1, <2>3, <2>4 DEF HoldsAs, Ended
  <2>8. state.pc \in {"get", "write"} => state.job \in submitted
    BY <2>1, <2>2
  <2>9. NoneQueued
    BY <2>1, QueuesKept
  <2> QED BY <1>1, <2>1, <2>5, <2>6, <2>7, <2>8, <2>9, PlacesKept
<1> QED BY <1>2, <1>3

LEMMA BrokerPlaces ==
  ASSUME Types, Rooted, Placed, NEW p \in Proc, Broker(p)
  PROVE  Placed'
<1>1. CASE GetOld(p)
  <2>1. PICK state : /\ Become(p, state) /\ state.pc = "write" /\ state.job = proc[p].job
                     /\ state.push = proc[p].push /\ state.next = proc[p].next
    BY <1>1, GetOldShape
  <2>2. proc[p].pc = "get" /\ UNCHANGED store /\ submitted' = submitted
    BY <1>1, GetOldShape
  <2>3. \A k \in Solo : HoldsAs(p, state, k) => Holds(p, k)
    BY <2>1, <2>2 DEF Holds, HoldsAs, Delivered, WillPush
  <2>4. state.job \in Solo => state.job \in submitted
    BY <2>1, <2>2 DEF Placed, Given
  <2> QED BY <2>1, <2>2, <2>3, <2>4, PlacesLocal
<1> QED BY <1>1, BrokerCases, WritePlaces, ElsewherePlaces

\* A client that takes up a job which is nowhere.
LEMMA TakePlaces ==
  ASSUME Types, Placed, NEW c \in Client, NEW j \in Solo, NEW state, Become(c, state),
         UNCHANGED store, state.job = j, submitted' = submitted \cup {j},
         \A x \in Place : ~On(j, x),
         record[j].status \notin Ended \/ j \in submitted
  PROVE  Placed'
<1>0. c \in Proc
  BY DEF Proc
<1>1. record' = record /\ pending' = pending /\ deferred' = deferred
  BY DEF store
<1>2. proc'[c] = state /\ \A r \in Proc \ {c} : proc'[r] = proc[r]
  BY <1>0, Moved
<1>3. \A k \in Solo, x \in Place : On(k, x)' => On(k, x) \/ (k = j /\ x = <<"process", c>>)
  <2>1. NoneQueued
    BY <1>1, QueuesKept
  <2> QED BY <1>0, <2>1, OnMoved DEF HoldsAs
<1>4. \A k \in Solo : Single(k)'
  <2>1. \A x \in Place : On(j, x)' => x = <<"process", c>>
    BY <1>3
  <2>2. \A k \in Solo \ {j}, x \in Place : On(k, x)' => On(k, x)
    BY <1>3
  <2>3. <<"process", c>> \in Place
    BY <1>0, OnCases
  <2> QED BY <2>1, <2>2, <2>3, Relocated
<1>5. ListedOnce'
  BY <1>1, SoloJobs DEF Placed, ListedOnce
<1>6. EndedAway'
  <2>1. \A k \in Solo : record'[k].status \in Ended =>
          \A x \in Place : On(k, x)' => x[1] = "process" /\ x[2] \in Client
    BY <1>1, <1>3 DEF Placed, EndedAway
  <2> QED BY <2>1 DEF EndedAway, Place, Proc
<1>7. Given'
  <2>1. \A k \in Solo, x \in Place : On(k, x)' => k \in submitted'
    BY <1>3 DEF Placed, Given
  <2>2. \A r \in Proc : proc'[r].pc \in {"get", "write"} /\ proc'[r].job \in Solo =>
           proc'[r].job \in submitted'
    BY <1>2 DEF Placed, Given
  <2>3. \A k \in Solo : Exists(k)' => k \in submitted'
    BY <1>1 DEF Exists, Placed, Given
  <2> QED BY <2>1, <2>2, <2>3 DEF Given, Place, Proc
<1> QED BY <1>4, <1>5, <1>6, <1>7 DEF Placed

\* A client that requeues a job whose attempts have ended is the only one that may.
LEMMA RequeuePlaces ==
  ASSUME OneCaller, Types, Placed, NEW c \in Client, NEW j \in Solo, NEW state, Become(c, state),
         UNCHANGED store, submitted' = submitted, state.job = j, proc[c].pc = "idle",
         Ops \cap {"retry", "replay"} # {}, record[j].status \in Ended
  PROVE  Placed'
<1>1. ~Holds(c, j)
  BY SetsAssumption DEF Holds, Delivered, WillPush
<1>2. ASSUME NEW x \in Place, On(j, x) PROVE FALSE
  <2>1. x[1] = "process" /\ x[2] \in Client
    BY <1>2 DEF Placed, EndedAway
  <2>2. x[2] = c
    BY <2>1 DEF OneCaller
  <2> QED BY <1>1, <1>2, <2>1, <2>2 DEF On
<1>3. j \in submitted
  BY DEF Placed, Given, Exists, Ended
<1>4. submitted' = submitted \cup {j}
  BY <1>3
<1> QED BY <1>2, <1>3, <1>4, TakePlaces

LEMMA ClientPlaces ==
  ASSUME OneCaller, Types, Rooted, Placed, NEW c \in Client,
         Query(c) \/ \E j \in Job : Call(c, j)
  PROVE  Placed'
<1>0. c \in Proc /\ c \notin Slot
  BY SetsAssumption DEF Proc
<1>1. CASE Query(c)
  <2>1. PICK state : Become(c, state) /\ state.pc \in {"idle", "list", "reap"}
    BY <1>1, QueryShape
  <2>2. \A k \in Solo : ~HoldsAs(c, state, k)
    BY <1>0, <2>1 DEF HoldsAs
  <2> QED BY <1>0, <1>1, <2>1, <2>2, QueryShape, PlacesLocal
<1>2. ASSUME NEW j \in Solo, NEW due \in BOOLEAN, Enqueue(c, j, due) PROVE Placed'
  <2>1. /\ j \notin submitted /\ submitted' = submitted \cup {j} /\ UNCHANGED store
    BY <1>2, SoloJobs, EnqueueShape
  <2>2. PICK state : Become(c, state) /\ state.job = j
    BY <1>2, SoloJobs, EnqueueShape
  <2>3. (\A x \in Place : ~On(j, x)) /\ record[j].status \notin Ended
    BY <2>1 DEF Placed, Given, Exists, Ended
  <2> QED BY <2>1, <2>2, <2>3, TakePlaces
<1>3. ASSUME NEW j \in Solo, CancelJob(c, j) PROVE Placed'
  <2>1. record[j].status \in CANCELLABLE_STATUSES /\ submitted' = submitted /\ UNCHANGED store
    BY <1>3, SoloJobs, CancelShape
  <2>2. PICK state : /\ Become(c, state) /\ state.job = j
                     /\ state.pc = "get" /\ ~state.push /\ state.next = "return"
    BY <1>3, SoloJobs, CancelShape
  <2>3. \A k \in Solo : ~HoldsAs(c, state, k)
    BY <1>0, <2>2 DEF HoldsAs
  <2>4. j \in submitted
    BY <2>1 DEF Placed, Given, Exists, CANCELLABLE_STATUSES
  <2> QED BY <1>0, <2>1, <2>2, <2>3, <2>4, PlacesLocal
<1>4. ASSUME NEW j \in Solo, "retry" \in Ops, RetryJob(c, j) PROVE Placed'
  <2>1. /\ proc[c].pc = "idle" /\ record[j].status \in RETRIABLE_STATUSES
        /\ submitted' = submitted /\ UNCHANGED store
    BY <1>4, SoloJobs, RetryShape
  <2>2. PICK state : Become(c, state) /\ state.job = j
    BY <1>4, SoloJobs, RetryShape
  <2>3. record[j].status \in Ended
    BY <1>4, <2>1 DEF Solo, Rooted, RETRIABLE_STATUSES, Ended
  <2>4. Ops \cap {"retry", "replay"} # {}
    BY <1>4
  <2> QED BY <2>1, <2>2, <2>3, <2>4, RequeuePlaces
<1>5. ASSUME NEW j \in Solo, "replay" \in Ops, ReplayDeadJob(c, j) PROVE Placed'
  <2>1. /\ proc[c].pc = "idle" /\ record[j].status \in Ended
        /\ submitted' = submitted /\ UNCHANGED store
    BY <1>5, SoloJobs, ReplayShape DEF Ended
  <2>2. PICK state : Become(c, state) /\ state.job = j
    BY <1>5, SoloJobs, ReplayShape
  <2>3. Ops \cap {"retry", "replay"} # {}
    BY <1>5
  <2> QED BY <2>1, <2>2, <2>3, RequeuePlaces
<1>6. ASSUME NEW j \in Job, Call(c, j) PROVE Placed'
  <2>1. CASE j \in Solo
    BY <1>2, <1>3, <1>4, <1>5, <1>6, <2>1 DEF Call
  <2>2. CASE j \notin Solo
    <3>1. j \in Job \ Solo
      BY <2>2
    <3> QED BY <1>0, <1>6, <3>1, CallElsewhere, ElsewherePlaces
  <2> QED BY <2>1, <2>2
<1> QED BY <1>1, <1>6

LEMMA MaintainPlaces ==
  ASSUME Types, Placed, NEW c \in Client, Maintain(c)
  PROVE  Placed'
<1>0. c \in Proc /\ c \notin Slot
  BY SetsAssumption DEF Proc
<1>1. ASSUME pending' = pending, deferred' = deferred, submitted' = submitted,
             \A k \in Solo : record'[k] = record[k] \/ record'[k].status = "absent",
             \E state : Become(c, state) /\ state.pc \in {"idle", "reap", "list", "fetch", "forget"}
      PROVE  Placed'
  <2>1. PICK state : Become(c, state) /\ state.pc \in {"idle", "reap", "list", "fetch", "forget"}
    BY <1>1
  <2>2. \A k \in Solo : ~HoldsAs(c, state, k)
    BY <1>0, <2>1 DEF HoldsAs
  <2>3. \A k \in Solo : Exists(k)' => k \in submitted
    BY <1>1 DEF Exists, Placed, Given
  <2>4. \A k \in Solo : record'[k].status \in Ended => record[k].status \in Ended
    BY <1>1 DEF Ended
  <2>5. NoneQueued
    BY <1>1, QueuesKept
  <2> QED BY <1>0, <1>1, <2>1, <2>2, <2>3, <2>4, <2>5, PlacesKept
<1>2. ASSUME NEW j \in Job, NEW queues, NEW statuses, Forget(j, queues, statuses)
      PROVE  /\ pending' = pending /\ deferred' = deferred
             /\ \A k \in Solo : record'[k] = record[k] \/ record'[k].status = "absent"
  <2>1. /\ pending' = pending /\ deferred' = deferred
        /\ record' = [record EXCEPT ![j] = Absent]
    BY <1>2 DEF Forget
  <2>2. record'[j].status = "absent" /\ \A k \in Solo : k # j => record'[k] = record[k]
    BY <2>1, SoloJobs DEF Types, TypeOK, Absent
  <2> QED BY <2>1, <2>2
<1>3. ASSUME NEW m \in proc[c].left, ReapForget(c, m) PROVE Placed'
  BY <1>1, <1>2, <1>3, ReapForgetShape
<1>4. CASE ReapRemove(c)
  BY <1>1, <1>4, ReapRemoveShape
<1>5. CASE PurgeList(c)
  BY <1>1, <1>5, PurgeListShape DEF store
<1>6. ASSUME NEW old \in BOOLEAN, PurgeFetch(c, old) PROVE Placed'
  BY <1>1, <1>6, PurgeFetchShape DEF store
<1>7. CASE PurgeForget(c)
  <2>1. Idle.pc = "idle"
    BY DEF Idle
  <2> QED BY <1>1, <1>2, <1>7, <2>1, PurgeForgetShape
<1> QED BY <1>3, <1>4, <1>5, <1>6, <1>7 DEF Maintain

LEMMA ClockPlaces ==
  ASSUME Types, Placed, NEW j \in Job, RunAtPasses(j) \/ ResultExpires(j)
  PROVE  Placed'
<1>1. /\ pending' = pending /\ submitted' = submitted
      /\ \A k \in Solo : record'[k].status = record[k].status \/ record'[k].status = "absent"
      /\ \A q \in Queue, k \in Job : deferred'[q][k] = "none" <=> deferred[q][k] = "none"
      /\ \A p \in Proc : /\ proc'[p].pc = proc[p].pc /\ proc'[p].job = proc[p].job
                         /\ proc'[p].push = proc[p].push /\ proc'[p].next = proc[p].next
  <2>1. CASE RunAtPasses(j)
    BY <2>1, SoloJobs, RunAtPassesShape
  <2>2. CASE ResultExpires(j)
    <3>1. /\ record' = [record EXCEPT ![j] = Absent]
          /\ pending' = pending /\ deferred' = deferred /\ proc' = proc /\ submitted' = submitted
      BY <2>2 DEF ResultExpires
    <3>2. record'[j].status = "absent" /\ \A k \in Solo : k # j => record'[k] = record[k]
      BY <3>1, SoloJobs DEF Types, TypeOK, Absent
    <3> QED BY <3>1, <3>2
  <2> QED BY <2>1, <2>2
<1>2. ASSUME NEW k \in Solo, NEW x \in Place, On(k, x)' PROVE On(k, x)
  <2>1. ASSUME NEW r \in Proc, x = <<"process", r>> PROVE On(k, x)
    <3>1. Holds(r, k)'
      BY <1>2, <2>1 DEF On
    <3>2. Holds(r, k)
      BY <1>1, <3>1 DEF Holds, Delivered, WillPush
    <3> QED BY <2>1, <3>2, OnCases
  <2>2. ASSUME NEW q \in Queue, x = <<"deferred", q>> PROVE On(k, x)
    BY <1>1, <1>2, <2>2, SoloJobs DEF On
  <2>3. ASSUME NEW q \in Queue, NEW t \in Tier, x = <<"list", <<q, t>>>> PROVE On(k, x)
    BY <1>1, <1>2, <2>3 DEF On, InList
  <2> QED BY <2>1, <2>2, <2>3, PlaceCases
<1>3. \A k \in Solo : Single(k)'
  <2>1. PICK none : none = None
    OBVIOUS
  <2> QED BY <1>2, <2>1, SoloJobs, Relocated
<1>4. ListedOnce'
  BY <1>1, SoloJobs DEF Placed, ListedOnce
<1>5. EndedAway'
  <2>1. \A k \in Solo : record'[k].status \in Ended =>
          \A x \in Place : On(k, x)' => x[1] = "process" /\ x[2] \in Client
    BY <1>1, <1>2 DEF Placed, EndedAway, Ended
  <2> QED BY <2>1 DEF EndedAway, Place, Proc
<1>6. Given'
  <2>1. \A k \in Solo, x \in Place : On(k, x)' => k \in submitted'
    BY <1>1, <1>2 DEF Placed, Given
  <2>2. \A r \in Proc : proc'[r].pc \in {"get", "write"} /\ proc'[r].job \in Solo =>
           proc'[r].job \in submitted'
    BY <1>1 DEF Placed, Given
  <2>3. \A k \in Solo : Exists(k)' => k \in submitted'
    BY <1>1 DEF Exists, Placed, Given
  <2> QED BY <2>1, <2>2, <2>3 DEF Given, Place, Proc
<1> QED BY <1>3, <1>4, <1>5, <1>6 DEF Placed

LEMMA CrashPlaces ==
  ASSUME Types, Placed, NEW p \in Proc, Crash(p)
  PROVE  Placed'
<1>1. Become(p, Idle) /\ UNCHANGED store /\ submitted' = submitted
  BY DEF Crash, Return
<1>2. \A k \in Solo : ~HoldsAs(p, Idle, k)
  BY DEF HoldsAs, Idle
<1>3. Idle.pc = "idle"
  BY DEF Idle
<1> QED BY <1>1, <1>2, <1>3, PlacesLocal

LEMMA PlacedHold ==
  ASSUME OneCaller
  PROVE  /\ Init => Placed
         /\ Types /\ Rooted /\ Placed /\ [Next]_vars => Placed'
<1>1. ASSUME Init PROVE Placed
  <2>1. \A q \in Queue, t \in Tier : pending[q][t] = <<>>
    BY <1>1 DEF Init
  <2>2. \A q \in Queue, t \in Tier : DOMAIN pending[q][t] = {}
    BY <2>1
  <2>3. \A p \in Proc : proc[p].pc = "idle"
    BY <1>1 DEF Init, Idle
  <2>4. ASSUME NEW k \in Solo, NEW x \in Place, On(k, x) PROVE FALSE
    <3>1. \A p \in Proc : ~Holds(p, k)
      BY <2>3 DEF Holds, Delivered, WillPush
    <3>2. \A q \in Queue, t \in Tier : ~InList(q, t, k)
      BY <2>2 DEF InList
    <3>3. \A q \in Queue : deferred[q][k] = "none"
      BY <1>1, SoloJobs DEF Init
    <3> QED BY <2>4, <3>1, <3>2, <3>3, PlaceCases, OnCases
  <2>5. \A k \in Solo : record[k].status = "absent"
    BY <1>1, SoloJobs DEF Init, Absent
  <2>6. ListedOnce
    BY <2>2 DEF ListedOnce
  <2> QED BY <2>3, <2>4, <2>5, <2>6 DEF Placed, Single, EndedAway, Given, Exists, Ended
<1>2. ASSUME Types, Rooted, Placed, [Next]_vars PROVE Placed'
  <2>1. CASE UNCHANGED vars
    <3>1. \A p \in Proc, k \in Job : Holds(p, k)' <=> Holds(p, k)
      BY <2>1 DEF vars, Holds, Delivered, WillPush
    <3>2. \A k \in Solo, x \in Place : On(k, x)' => On(k, x)
      BY <2>1, <3>1, SoloJobs DEF vars, store, On, InList, Place
    <3>3. \A k \in Solo : Single(k)'
      <4>1. PICK none : none = None
        OBVIOUS
      <4> QED BY <1>2, <3>2, <4>1, SoloJobs, Relocated
    <3>4. /\ record' = record /\ pending' = pending /\ proc' = proc /\ submitted' = submitted
      BY <2>1 DEF vars, store
    <3>5. ListedOnce'
      BY <1>2, <3>4, SoloJobs DEF Placed, ListedOnce
    <3>6. EndedAway'
      <4>1. \A k \in Solo : record'[k].status \in Ended =>
              \A x \in Place : On(k, x)' => x[1] = "process" /\ x[2] \in Client
        BY <1>2, <3>2, <3>4 DEF Placed, EndedAway
      <4> QED BY <4>1 DEF EndedAway, Place, Proc
    <3>7. Given'
      <4>1. \A k \in Solo, x \in Place : On(k, x)' => k \in submitted'
        BY <1>2, <3>2, <3>4 DEF Placed, Given
      <4>2. /\ \A k \in Solo : Exists(k)' => k \in submitted'
            /\ \A r \in Proc : proc'[r].pc \in {"get", "write"} /\ proc'[r].job \in Solo =>
                 proc'[r].job \in submitted'
        BY <1>2, <3>4 DEF Placed, Given, Exists
      <4> QED BY <4>1, <4>2 DEF Given, Place, Proc
    <3> QED BY <3>3, <3>5, <3>6, <3>7 DEF Placed
  <2>2. ASSUME NEW s \in Slot, Dequeue(s) \/ Work(s) PROVE Placed'
    BY <1>2, <2>2, PromotePlaces, PopPlaces, WorkPlaces DEF Dequeue
  <2>3. ASSUME NEW p \in Proc, Broker(p) \/ Crash(p) PROVE Placed'
    BY <1>2, <2>3, BrokerPlaces, CrashPlaces
  <2>4. ASSUME NEW c \in Client, Maintain(c) \/ Query(c) \/ \E j \in Job : Call(c, j)
        PROVE  Placed'
    BY <1>2, <2>4, MaintainPlaces, ClientPlaces
  <2>5. ASSUME NEW j \in Job, RunAtPasses(j) \/ ResultExpires(j) PROVE Placed'
    BY <1>2, <2>5, ClockPlaces
  <2>6. CASE Next
    BY <2>2, <2>3, <2>4, <2>5, <2>6 DEF Next
  <2> QED BY <1>2, <2>1, <2>6
<1> QED BY <1>1, <1>2

LEMMA WhereaboutsHold ==
  ASSUME Alone
  PROVE  /\ Init => Whereabouts
         /\ Types /\ Scripted /\ Whereabouts /\ [Next]_vars => Whereabouts'
<1>1. Job \subseteq Solo /\ (Job \subseteq Solo)' /\ OneCaller
  BY AloneSolo, SoloJobs
<1> QED BY <1>1, ScriptedRooted, PlacedHold DEF Whereabouts

\* At most one of the places SingleDelivery counts.
LEMMA OneSource ==
  ASSUME Placed, NEW k \in Solo
  PROVE  Cardinality(Sources(k)) <= 1
<1>1. \A x \in Sources(k) :
        \/ \E s \in Slot : x = <<"slot", s>> /\ Delivered(s, k)
        \/ \E q \in Queue, t \in Tier : \E i \in DOMAIN pending[q][t] :
              x = <<"list", <<<<q, t>>, i>>>> /\ pending[q][t][i] = k
        \/ \E q \in Queue : x = <<"deferred", q>> /\ deferred[q][k] # "none"
  <2>1. SUFFICES ASSUME NEW y \in Listings(k), NEW x, x = <<"list", y>>
                 PROVE  \E q \in Queue, t \in Tier : \E i \in DOMAIN pending[q][t] :
                          x = <<"list", <<<<q, t>>, i>>>> /\ pending[q][t][i] = k
    BY DEF Sources
  <2>2. PICK c \in Queue \X Tier : y \in {c} \X Entries(c[1], c[2], k)
    BY DEF Listings
  <2>3. PICK q \in Queue, t \in Tier : c = <<q, t>>
    OBVIOUS
  <2>4. PICK i \in Entries(q, t, k) : y = <<c, i>>
    BY <2>2, <2>3
  <2> QED BY <2>1, <2>3, <2>4 DEF Entries
<1>2. ASSUME NEW x \in Sources(k), NEW y \in Sources(k) PROVE x = y
  <2>1. \A s \in Slot : Delivered(s, k) =>
           <<"process", s>> \in Place /\ On(k, <<"process", s>>)
    BY OnCases DEF Holds, Proc
  <2>2. ASSUME NEW q \in Queue, NEW t \in Tier, NEW i \in DOMAIN pending[q][t],
               pending[q][t][i] = k
        PROVE  <<"list", <<q, t>>>> \in Place /\ On(k, <<"list", <<q, t>>>>)
    BY <2>2, OnCases DEF InList
  <2>3. \A q \in Queue : deferred[q][k] # "none" =>
           <<"deferred", q>> \in Place /\ On(k, <<"deferred", q>>)
    BY OnCases
  <2>4. \A z, w \in Place : On(k, z) /\ On(k, w) => z = w
    BY DEF Placed, Single
  <2>5. ASSUME NEW s \in Slot, x = <<"slot", s>>, Delivered(s, k) PROVE x = y
    <3>1. \A z \in Place : On(k, z) => z = <<"process", s>>
      BY <2>1, <2>4, <2>5
    <3>2. \A q \in Queue, t \in Tier : \A i \in DOMAIN pending[q][t] : pending[q][t][i] # k
      <4>1. \A q \in Queue, t \in Tier : <<"list", <<q, t>>>> # <<"process", s>>
        OBVIOUS
      <4> QED BY <2>2, <3>1, <4>1
    <3>3. \A q \in Queue : deferred[q][k] = "none"
      BY <2>3, <3>1
    <3>4. \A r \in Slot : Delivered(r, k) => r = s
      <4>1. \A r \in Slot : Delivered(r, k) => <<"process", r>> = <<"process", s>>
        BY <2>1, <3>1
      <4> QED BY <4>1
    <3> QED BY <1>1, <2>5, <3>2, <3>3, <3>4
  <2>6. ASSUME NEW q \in Queue, NEW t \in Tier, NEW i \in DOMAIN pending[q][t],
               x = <<"list", <<<<q, t>>, i>>>>, pending[q][t][i] = k
        PROVE  x = y
    <3>1. \A z \in Place : On(k, z) => z = <<"list", <<q, t>>>>
      BY <2>2, <2>4, <2>6
    <3>2. \A r \in Slot : ~Delivered(r, k)
      <4>1. \A r \in Slot : <<"list", <<q, t>>>> # <<"process", r>>
        OBVIOUS
      <4> QED BY <2>1, <3>1, <4>1
    <3>3. \A r \in Queue : deferred[r][k] = "none"
      <4>1. \A r \in Queue : <<"list", <<q, t>>>> # <<"deferred", r>>
        OBVIOUS
      <4> QED BY <2>3, <3>1, <4>1
    <3>4. ASSUME NEW r \in Queue, NEW u \in Tier, NEW n \in DOMAIN pending[r][u],
                 pending[r][u][n] = k
          PROVE  r = q /\ u = t /\ n = i
      <4>1. <<"list", <<r, u>>>> = <<"list", <<q, t>>>>
        BY <2>2, <3>1, <3>4
      <4>2. r = q /\ u = t
        BY <4>1
      <4> QED BY <2>6, <3>4, <4>2 DEF Placed, ListedOnce
    <3> QED BY <1>1, <2>6, <3>2, <3>3, <3>4
  <2>7. ASSUME NEW q \in Queue, x = <<"deferred", q>>, deferred[q][k] # "none" PROVE x = y
    <3>1. \A z \in Place : On(k, z) => z = <<"deferred", q>>
      BY <2>3, <2>4, <2>7
    <3>2. \A r \in Slot : ~Delivered(r, k)
      BY <2>1, <3>1
    <3>3. \A r \in Queue, t \in Tier : \A i \in DOMAIN pending[r][t] : pending[r][t][i] # k
      <4>1. \A r \in Queue, t \in Tier : <<"list", <<r, t>>>> # <<"deferred", q>>
        OBVIOUS
      <4> QED BY <2>2, <3>1, <4>1
    <3>4. \A r \in Queue : deferred[r][k] # "none" => r = q
      <4>1. \A r \in Queue : deferred[r][k] # "none" => <<"deferred", r>> = <<"deferred", q>>
        BY <2>3, <3>1
      <4> QED BY <4>1
    <3> QED BY <1>1, <2>7, <3>2, <3>3, <3>4
  <2> QED BY <1>1, <2>5, <2>6, <2>7
<1>3. CASE Sources(k) = {}
  BY <1>3, FS_EmptySet
<1>4. ASSUME NEW x \in Sources(k) PROVE Cardinality(Sources(k)) <= 1
  <2>1. Sources(k) = {x}
    BY <1>2
  <2>2. Cardinality({x}) = 1
    BY FS_Singleton
  <2> HIDE DEF Sources
  <2> QED BY <2>1, <2>2
<1> QED BY <1>3, <1>4

\* "Each job ID is only delivered to one worker": a job without dependencies is in one
\* list or one deferred set once, or with one slot, whatever the dependencies of the
\* others and however many slots and callers there are, whatever crashes, expires, is
\* purged or cancelled, unless two callers requeue at once or it is itself cancelled
\* and retried.
THEOREM SoloDelivered ==
  ASSUME OneCaller
  PROVE  Spec => [](\A k \in Solo : Cardinality(Sources(k)) <= 1)
<1>1. Placed => \A k \in Solo : Cardinality(Sources(k)) <= 1
  BY OneSource
<1> QED BY <1>1, TypesHold, RootedHolds, PlacedHold, PTL DEF Spec

\* Hence, where no job has dependencies, the property of the runs.
THEOREM DeliveredOnce == ASSUME Alone PROVE Spec => []SingleDelivery
<1>1. Whereabouts => SingleDelivery
  BY OneSource DEF Whereabouts, SingleDelivery
<1> QED BY <1>1, TypesHold, ScriptedHolds, WhereaboutsHold, PTL DEF Spec

-----------------------------------------------------------------------------
(* No delivery before run_at.                                               *)

\* A process in this state will hand job k to a slot without waiting for a clock, or
\* has it in hand.
HotAs(p, state, k) ==
    /\ state.job = k
    /\ \/ p \in Slot /\ state.pc \in {"popped", "claimed", "invoke"}
       \/ p \in Slot /\ state.pc \in {"get", "write"} /\ (~state.push \/ state.held.due)
       \/ /\ p \in Client /\ state.pc \in {"get", "write"} /\ state.held.due
          /\ state.push \/ state.next = "enqueue"

\* Job k needs no clock to be claimed, or to be pushed by a client.
Hot(k) == \/ record[k].status \in {"failed", "dead"}
          \/ \E q \in Queue, t \in Tier : InList(q, t, k)
          \/ \E q \in Queue : deferred[q][k] = "due"
          \/ \E p \in Proc : HotAs(p, proc[p], k)

DueAs(state, k) == state.pc \in {"claimed", "invoke", "get", "write"} /\ state.job = k =>
                     state.held.due

\* The record is due, and every copy that may be written over it.
AllDue(k) == record[k].due /\ \A p \in Proc : DueAs(proc[p], k)

\* The inductive invariant of NotBeforeRunAt.
Ripened == /\ \A k \in Job : Hot(k) => AllDue(k)
           /\ \A k \in Job : ~Exists(k) => record[k].due

\* Where a step of p that leaves the lists and the deferred sets makes a job hot.
LEMMA HotMoved ==
  ASSUME Types, NEW p \in Proc, NEW state, Become(p, state),
         pending' = pending, deferred' = deferred, NEW k \in Job,
         record'[k].status \in {"failed", "dead"} =>
            record[k].status \in {"failed", "dead"} \/ HotAs(p, proc[p], k),
         Hot(k)'
  PROVE  Hot(k) \/ HotAs(p, state, k)
<1>1. proc'[p] = state /\ \A r \in Proc \ {p} : proc'[r] = proc[r]
  BY Moved
<1>2. ASSUME NEW r \in Proc, HotAs(r, proc[r], k)' PROVE Hot(k) \/ HotAs(p, state, k)
  BY <1>1, <1>2 DEF Hot, HotAs
<1>3. ASSUME NEW q \in Queue, NEW t \in Tier, InList(q, t, k)' PROVE Hot(k)
  BY <1>3 DEF Hot, InList
<1>4. (\E r \in Proc : HotAs(r, proc[r], k)') \/ (\E q \in Queue, t \in Tier : InList(q, t, k)')
         \/ record'[k].status \in {"failed", "dead"} \/ \E q \in Queue : deferred'[q][k] = "due"
  BY DEF Hot, Proc
<1> QED BY <1>2, <1>3, <1>4 DEF Hot

\* A step of p that makes only such jobs hot as are due.
LEMMA RipenedMoves ==
  ASSUME Types, Ripened, NEW p \in Proc, NEW state, Become(p, state),
         \A k \in Job : Hot(k)' => Hot(k) \/ AllDue(k),
         \A k \in Job : Hot(k)' /\ AllDue(k) => record'[k].due /\ DueAs(state, k),
         \A k \in Job : record'[k].status = "absent" => record'[k].due
  PROVE  Ripened'
<1>1. proc'[p] = state /\ \A r \in Proc \ {p} : proc'[r] = proc[r]
  BY Moved
<1>2. ASSUME NEW k \in Job, Hot(k)' PROVE AllDue(k)'
  <2>1. AllDue(k)
    BY <1>2 DEF Ripened
  <2>2. \A r \in Proc : DueAs(proc'[r], k)
    BY <1>1, <1>2, <2>1 DEF AllDue
  <2>3. record'[k].due
    BY <1>2, <2>1
  <2> QED BY <2>2, <2>3 DEF AllDue, DueAs, Proc
<1> QED BY <1>2 DEF Ripened, Exists

\* A step of p that stores nothing, and keeps in hand what it has.
LEMMA RipenedLocal ==
  ASSUME Types, Ripened, NEW p \in Proc, NEW state, Become(p, state), UNCHANGED store,
         \A k \in Job : HotAs(p, state, k) => Hot(k),
         \A k \in Job : AllDue(k) => DueAs(state, k)
  PROVE  Ripened'
<1>1. ASSUME NEW k \in Job, Hot(k)' PROVE Hot(k)
  <2>1. record' = record /\ pending' = pending /\ deferred' = deferred
    BY DEF store
  <2>2. Hot(k) \/ HotAs(p, state, k)
    BY <1>1, <2>1, HotMoved
  <2> QED BY <2>2
<1> QED BY <1>1, RipenedMoves DEF store, AllDue, Ripened, Exists

\* Nobody else has a job that a process holds.
LEMMA NowhereElse ==
  ASSUME Types, Scripted, Whereabouts, NEW p \in Proc, NEW k \in Job, Holds(p, k)
  PROVE  /\ \A q \in Queue, t \in Tier : ~InList(q, t, k)
         /\ \A q \in Queue : deferred[q][k] = "none"
         /\ \A r \in Proc \ {p} : ~HotAs(r, proc[r], k)
<1>1. \A x \in Place : On(k, x) => x = <<"process", p>>
  BY OnCases DEF Whereabouts, Placed, Single
<1>2. ASSUME NEW q \in Queue, NEW t \in Tier PROVE ~InList(q, t, k)
  <2>1. <<"list", <<q, t>>>> # <<"process", p>>
    OBVIOUS
  <2> QED BY <1>1, <2>1, OnCases
<1>3. ASSUME NEW q \in Queue PROVE deferred[q][k] = "none"
  <2>1. <<"deferred", q>> # <<"process", p>>
    OBVIOUS
  <2> QED BY <1>1, <2>1, OnCases
<1>4. ASSUME NEW r \in Proc, HotAs(r, proc[r], k) PROVE r = p
  <2>1. Holds(r, k)
    BY <1>4 DEF HotAs, Holds, Delivered, WillPush
  <2>2. <<"process", r>> = <<"process", p>>
    BY <1>1, <2>1, OnCases
  <2> QED BY <2>2
<1> QED BY <1>2, <1>3, <1>4

\* Deleting a record makes nothing hot.
LEMMA ForgetRipened ==
  ASSUME Types, Ripened, NEW p \in Proc, NEW state, Become(p, state),
         state.pc \in {"idle", "reap"}, NEW j \in Job, NEW queues, NEW statuses,
         Forget(j, queues, statuses)
  PROVE  Ripened'
<1>1. /\ record' = [record EXCEPT ![j] = Absent]
      /\ pending' = pending /\ deferred' = deferred
  BY DEF Forget
<1>2. record'[j] = Absent /\ \A k \in Job : k # j => record'[k] = record[k]
  BY <1>1 DEF Types, TypeOK
<1>3. Absent.status = "absent" /\ Absent.due
  BY NewType
<1>4. ASSUME NEW k \in Job, Hot(k)' PROVE Hot(k)
  <2>1. record'[k].status \in {"failed", "dead"} => record[k].status \in {"failed", "dead"}
    BY <1>2, <1>3
  <2>2. Hot(k) \/ HotAs(p, state, k)
    BY <1>1, <1>4, <2>1, HotMoved
  <2> QED BY <2>2 DEF HotAs
<1>5. \A k \in Job : AllDue(k) => record'[k].due /\ DueAs(state, k)
  BY <1>2, <1>3 DEF AllDue, DueAs
<1>6. \A k \in Job : record'[k].status = "absent" => record'[k].due
  BY <1>2, <1>3 DEF Ripened, Exists
<1> QED BY <1>4, <1>5, <1>6, RipenedMoves

LEMMA WorkRipened ==
  ASSUME Types, Scripted, Whereabouts, Ripened, NEW s \in Slot, Work(s)
  PROVE  Ripened'
<1>0. s \in Proc /\ s \notin Client
  BY SetsAssumption DEF Proc
<1>1. ASSUME UNCHANGED store, proc[s].pc \in {"popped", "claimed", "invoke"},
             NEW state, Become(s, state), state.job = proc[s].job,
             state.pc \in {"claimed", "invoke", "get", "write"} =>
                \/ proc[s].pc # "popped" /\ state.held.due = proc[s].held.due
                \/ state.held = record[proc[s].job]
                \/ state.held.due
      PROVE  Ripened'
  <2>1. HotAs(s, proc[s], proc[s].job)
    BY <1>0, <1>1 DEF HotAs
  <2>2. \A k \in Job : HotAs(s, state, k) => Hot(k)
    BY <1>0, <1>1, <2>1 DEF Hot, HotAs
  <2>3. \A k \in Job : AllDue(k) => DueAs(state, k)
    BY <1>0, <1>1 DEF AllDue, DueAs
  <2> QED BY <1>0, <1>1, <2>2, <2>3, RipenedLocal
<1>2. CASE Load(s)
  BY <1>1, <1>2, LoadShape
<1>3. CASE Drop(s)
  <2>1. Idle.pc = "idle"
    BY DEF Idle
  <2>2. proc[s].job \in Job /\ Become(s, Idle) /\ Forget(proc[s].job, {}, JobStatus)
    BY <1>3, DropShape
  <2> QED BY <1>0, <2>1, <2>2, ForgetRipened
<1>4. CASE RejectUnknown(s) \/ Succeed(s) \/ MoveToDLQ(s) \/ Fail(s)
  BY <1>1, <1>4, ConcludeShape
<1>5. CASE CheckCancelled(s)
  <2>1. CASE Become(s, Idle)
    <3>1. \A k \in Job : ~HotAs(s, Idle, k) /\ DueAs(Idle, k)
      BY DEF HotAs, DueAs, Idle
    <3> QED BY <1>0, <1>5, <2>1, <3>1, CheckCancelledShape, RipenedLocal
  <2> QED BY <1>1, <1>5, <2>1, CheckCancelledShape
<1>6. ASSUME NEW due \in BOOLEAN, ScheduleRetry(s, due) PROVE Ripened'
  <2>1. proc[s].pc = "invoke" /\ UNCHANGED <<store, submitted, calls, crashes>>
    BY <1>6, ScheduleRetryShape
  <2>2. PICK j \in Job : j = proc[s].job
    BY <1>0, <2>1, OwnerType DEF Owning
  <2>3. PICK state : /\ Become(s, state) /\ state.job = j /\ state.held.due = due
                     /\ state.pc \in {"get", "register"} /\ (state.pc = "get" => state.push)
    BY <1>6, <2>2, ScheduleRetryShape
  <2>4. CASE due
    BY <1>1, <2>1, <2>2, <2>3, <2>4 DEF store
  <2>5. CASE ~due
    <3>1. Holds(s, j) /\ HotAs(s, proc[s], j)
      BY <1>0, <2>1, <2>2 DEF Holds, Delivered, HotAs
    <3>2. record[j].status \notin {"failed", "dead"}
      <4>1. <<"process", s>> \in Place /\ On(j, <<"process", s>>)
        BY <1>0, <3>1, OnCases
      <4>2. <<"process", s>>[2] = s
        OBVIOUS
      <4> QED BY <1>0, <4>1, <4>2 DEF Whereabouts, Placed, EndedAway, Ended
    <3>3. proc'[s] = state /\ \A r \in Proc \ {s} : proc'[r] = proc[r]
      BY <1>0, <2>3, Moved
    <3>4. ~HotAs(s, state, j)
      BY <1>0, <2>3, <2>5 DEF HotAs
    <3>5. ~Hot(j)'
      <4>1. \A q \in Queue, t \in Tier : ~InList(q, t, j)'
        BY <1>0, <2>1, <3>1, NowhereElse DEF InList, store
      <4>2. \A q \in Queue : deferred'[q][j] # "due"
        BY <1>0, <2>1, <3>1, NowhereElse DEF store
      <4>3. \A r \in Proc : ~HotAs(r, proc'[r], j)
        BY <1>0, <3>1, <3>3, <3>4, NowhereElse
      <4>4. record'[j].status \notin {"failed", "dead"}
        BY <2>1, <3>2 DEF store
      <4> QED BY <4>1, <4>2, <4>3, <4>4 DEF Hot, HotAs, Proc
    <3>6. ASSUME NEW k \in Job, Hot(k)' PROVE Hot(k) /\ k # j
      <4>1. k # j
        BY <1>6, <3>5, <3>6
      <4>2. record' = record /\ pending' = pending /\ deferred' = deferred
        BY <2>1 DEF store
      <4>3. Hot(k) \/ HotAs(s, state, k)
        BY <1>0, <2>3, <3>6, <4>2, HotMoved
      <4> QED BY <2>3, <4>1, <4>3 DEF HotAs
    <3>7. \A k \in Job : k # j => DueAs(state, k)
      BY <2>3 DEF DueAs
    <3> QED BY <1>0, <2>1, <2>3, <3>6, <3>7, RipenedMoves DEF store, Ripened, Exists, AllDue
  <2> QED BY <2>4, <2>5
<1> QED BY <1>2, <1>3, <1>4, <1>5, <1>6 DEF Work

LEMMA PopRipened ==
  ASSUME Types, Ripened, NEW s \in Slot, NEW i \in DOMAIN Queues[s], NEW t \in Tier, Pop(s, i, t)
  PROVE  Ripened'
<1>0. s \in Proc
  BY DEF Proc
<1>1. record' = record /\ deferred' = deferred
  BY DEF Pop
<1>2. PICK q \in Queue, j \in Job, state \in ProcState :
           /\ Become(s, state) /\ state.pc = "popped" /\ state.job = j
           /\ InList(q, t, j)
           /\ \A r \in Queue, u \in Tier, k \in Job : InList(r, u, k)' => InList(r, u, k)
  BY PopIn
<1>3. proc'[s] = state /\ \A r \in Proc \ {s} : proc'[r] = proc[r]
  BY <1>0, <1>2, Moved
<1>4. ASSUME NEW k \in Job, Hot(k)' PROVE Hot(k)
  <2>1. \A r \in Proc : HotAs(r, proc[r], k)' => Hot(k)
    BY <1>2, <1>3 DEF Hot, HotAs
  <2>2. (\E r \in Proc : HotAs(r, proc[r], k)') \/ (\E r \in Queue, u \in Tier : InList(r, u, k)')
         \/ record'[k].status \in {"failed", "dead"} \/ \E r \in Queue : deferred'[r][k] = "due"
    BY <1>4 DEF Hot, Proc
  <2> QED BY <1>1, <1>2, <2>1, <2>2 DEF Hot
<1>5. \A k \in Job : DueAs(state, k)
  BY <1>2 DEF DueAs
<1> QED BY <1>0, <1>1, <1>2, <1>4, <1>5, RipenedMoves DEF Ripened, Exists, AllDue

LEMMA PromoteRipened ==
  ASSUME Types, Ripened, NEW s \in Slot, PromoteDeferred(s)
  PROVE  Ripened'
<1>1. /\ record' = record /\ proc' = proc
      /\ \A q \in Queue, k \in Job : deferred'[q][k] = "due" => deferred[q][k] = "due"
  BY PromoteShape DEF PromoteDeferred
<1>2. ASSUME NEW k \in Job, Hot(k)' PROVE Hot(k)
  <2>1. \A q \in Queue, t \in Tier : InList(q, t, k)' => Hot(k)
    BY PromoteIn DEF Hot, Ripe
  <2>2. (\E r \in Proc : HotAs(r, proc[r], k)') \/ (\E q \in Queue, t \in Tier : InList(q, t, k)')
         \/ record'[k].status \in {"failed", "dead"} \/ \E q \in Queue : deferred'[q][k] = "due"
    BY <1>2 DEF Hot, Proc
  <2>3. \A r \in Proc : HotAs(r, proc[r], k)' => Hot(k)
    BY <1>1 DEF Hot, HotAs
  <2> QED BY <1>1, <2>1, <2>2, <2>3 DEF Hot
<1>3. ASSUME NEW k \in Job, Hot(k)' PROVE AllDue(k)'
  <2>1. AllDue(k)
    BY <1>2, <1>3 DEF Ripened
  <2> QED BY <1>1, <2>1 DEF AllDue, DueAs, Proc
<1> QED BY <1>1, <1>3 DEF Ripened, Exists

LEMMA WriteRipened ==
  ASSUME Alone, Types, Scripted, Whereabouts, Ripened, NEW p \in Proc, Write(p)
  PROVE  Ripened'
<1>1. PICK j \in Job, job \in Record, state \in ProcState :
         /\ proc[p].pc = "write" /\ j = proc[p].job /\ job = proc[p].held
         /\ Become(p, state)
         /\ record'[j] = job /\ \A k \in Job : k # j => record'[k] = record[k]
         /\ \/ /\ proc[p].push /\ job.status \in {"pending", "retrying"}
               /\ state.pc = "idle" /\ state.job = None
               /\ job.due => LPush(j, job.queue) /\ deferred' = deferred
               /\ ~job.due => /\ pending' = pending /\ deferred'[job.queue][j] = "later"
                              /\ \A q \in Queue, k \in Job : q # job.queue \/ k # j =>
                                   deferred'[q][k] = deferred[q][k]
            \/ /\ ~proc[p].push /\ pending' = pending /\ deferred' = deferred
               /\ \/ /\ p \in Slot /\ state.pc = "invoke" /\ state.job = j /\ state.held = job
                  \/ /\ p \in Slot /\ state.pc = "resolve"
                  \/ /\ p \in Slot /\ job.status \in {"failed", "dead"} /\ state.pc = "idle"
                  \/ /\ p \in Client /\ job.status = "pending" /\ proc[p].next = "enqueue"
                     /\ state.pc = "get" /\ state.job = j /\ state.held = job
                     /\ state.push /\ state.next = "look"
                  \/ /\ p \in Client /\ job.status = "cancelled" /\ state.pc = "idle"
  BY WriteScript DEF Stores
<1>2. job.status # "absent"
  BY <1>1, OwnerType DEF Storing
<1>3. proc'[p] = state /\ \A r \in Proc \ {p} : proc'[r] = proc[r]
  BY <1>1, Moved
<1>4. \A k \in Job : record'[k].status = "absent" => record'[k].due
  BY <1>1, <1>2 DEF Ripened, Exists
<1>5. \A k \in Job : AllDue(k) => record'[k].due
  BY <1>1 DEF AllDue, DueAs
<1>6. CASE HotAs(p, proc[p], j)
  <2>1. CASE proc[p].push
    <3>1. job.due
      BY <1>1, <1>6, <2>1, SetsAssumption DEF HotAs
    <3>2. LPush(j, job.queue) /\ deferred' = deferred
      BY <1>1, <2>1, <3>1
    <3>3. job.queue \in Queue
      BY DEF Record
    <3>4. ASSUME NEW k \in Job, Hot(k)' PROVE Hot(k)
      <4>1. CASE k = j
        BY <1>6, <4>1 DEF Hot
      <4>2. CASE k # j
        <5>1. \A q \in Queue, t \in Tier : InList(q, t, k)' => InList(q, t, k)
          BY <3>2, <3>3, <4>2, LPushIn
        <5>2. \A r \in Proc : HotAs(r, proc[r], k)' => HotAs(r, proc[r], k)
          BY <1>1, <1>3, <2>1, <4>2 DEF HotAs
        <5>3. \/ \E r \in Proc : HotAs(r, proc[r], k)'
              \/ \E q \in Queue, t \in Tier : InList(q, t, k)'
              \/ record'[k].status \in {"failed", "dead"}
              \/ \E q \in Queue : deferred'[q][k] = "due"
          BY <3>4 DEF Hot, Proc
        <5> QED BY <1>1, <3>2, <4>2, <5>1, <5>2, <5>3 DEF Hot
      <4> QED BY <4>1, <4>2
    <3>5. \A k \in Job : DueAs(state, k)
      BY <1>1, <2>1 DEF DueAs
    <3> QED BY <1>1, <1>4, <1>5, <3>4, <3>5, RipenedMoves
  <2>2. CASE ~proc[p].push
    <3>1. ASSUME NEW k \in Job, Hot(k)' PROVE Hot(k)
      <4>1. record'[k].status \in {"failed", "dead"} =>
              record[k].status \in {"failed", "dead"} \/ HotAs(p, proc[p], k)
        BY <1>1, <1>6
      <4>2. Hot(k) \/ HotAs(p, state, k)
        BY <1>1, <2>2, <3>1, <4>1, HotMoved
      <4>3. HotAs(p, state, k) => k = j
        BY <1>1, <2>2, SetsAssumption DEF HotAs
      <4> QED BY <1>6, <4>2, <4>3 DEF Hot
    <3>2. \A k \in Job : AllDue(k) => DueAs(state, k)
      BY <1>1, <2>2 DEF AllDue, DueAs
    <3> QED BY <1>1, <1>4, <1>5, <3>1, <3>2, RipenedMoves
  <2> QED BY <2>1, <2>2
<1>7. CASE ~HotAs(p, proc[p], j)
  <2>1. p \in Slot \/ p \in Client
    BY DEF Proc
  <2>2. CASE Holds(p, j)
    <3>1. /\ ~job.due
          /\ \/ proc[p].push
             \/ p \in Client /\ proc[p].next = "enqueue" /\ job.status = "pending"
      <4>0. proc[p].pc = "write" /\ j = proc[p].job /\ job = proc[p].held
        BY <1>1
      <4>1. CASE p \in Slot
        BY <1>7, <4>0, <4>1 DEF HotAs
      <4>2. CASE p \in Client
        <5>1. ~job.due /\ (proc[p].push \/ proc[p].next = "enqueue")
          BY <1>1, <1>7, <2>2, <4>2, SetsAssumption DEF HotAs, Holds, WillPush
        <5>2. ClientScript(proc[p])
          BY <4>2 DEF Scripted, ScriptAs
        <5> QED BY <4>0, <4>2, <5>1, <5>2 DEF ClientScript
      <4> QED BY <2>1, <4>1, <4>2
    <3>2. job.status \notin {"failed", "dead"}
      BY <1>1, <3>1
    <3>3. ~HotAs(p, state, j)
      BY <1>1, <3>1, SetsAssumption DEF HotAs
    <3>4. /\ pending' = pending
          /\ \A q \in Queue, k \in Job : deferred'[q][k] = "due" => deferred[q][k] = "due"
      BY <1>1, <3>1
    <3>5. ~Hot(j)'
      <4>1. \A q \in Queue, t \in Tier : ~InList(q, t, j)'
        BY <2>2, <3>4, NowhereElse DEF InList
      <4>2. \A q \in Queue : deferred'[q][j] # "due"
        BY <2>2, <3>4, NowhereElse
      <4>3. \A r \in Proc : ~HotAs(r, proc'[r], j)
        BY <1>3, <2>2, <3>3, NowhereElse
      <4> QED BY <1>1, <3>2, <4>1, <4>2, <4>3 DEF Hot, HotAs, Proc
    <3>6. ASSUME NEW k \in Job, Hot(k)' PROVE Hot(k) /\ k # j
      <4>1. k # j
        BY <3>5, <3>6
      <4>2. \A r \in Proc : HotAs(r, proc[r], k)' => HotAs(r, proc[r], k)
        BY <1>1, <1>3, <3>1, <4>1 DEF HotAs
      <4>3. \/ \E r \in Proc : HotAs(r, proc[r], k)'
            \/ \E q \in Queue, t \in Tier : InList(q, t, k)'
            \/ record'[k].status \in {"failed", "dead"}
            \/ \E q \in Queue : deferred'[q][k] = "due"
        BY <3>6 DEF Hot, Proc
      <4>4. \A q \in Queue, t \in Tier : InList(q, t, k)' => InList(q, t, k)
        BY <3>4 DEF InList
      <4> QED BY <1>1, <3>4, <4>1, <4>2, <4>3, <4>4 DEF Hot
    <3>7. \A k \in Job : k # j => DueAs(state, k)
      BY <1>1, <3>1 DEF DueAs
    <3> QED BY <1>1, <1>4, <1>5, <3>6, <3>7, RipenedMoves
  <2>3. CASE ~Holds(p, j)
    <3>1. p \in Client /\ ~proc[p].push /\ job.status = "cancelled" /\ state.pc = "idle"
      BY <1>1, <2>1, <2>3 DEF Holds, WillPush, Delivered
    <3>2. ASSUME NEW k \in Job, Hot(k)' PROVE Hot(k)
      <4>1. record'[k].status \in {"failed", "dead"} => record[k].status \in {"failed", "dead"}
        BY <1>1, <3>1
      <4>2. Hot(k) \/ HotAs(p, state, k)
        BY <1>1, <3>1, <3>2, <4>1, HotMoved
      <4> QED BY <3>1, <4>2 DEF HotAs
    <3>3. \A k \in Job : DueAs(state, k)
      BY <3>1 DEF DueAs
    <3> QED BY <1>1, <1>4, <1>5, <3>2, <3>3, RipenedMoves
  <2> QED BY <2>2, <2>3
<1> QED BY <1>6, <1>7

LEMMA BrokerRipened ==
  ASSUME Alone, Types, Scripted, Whereabouts, Ripened, NEW p \in Proc, Broker(p)
  PROVE  Ripened'
<1>1. CASE GetOld(p)
  <2>1. PICK state : /\ Become(p, state) /\ state.pc = "write"
                     /\ state.job = proc[p].job /\ state.held = proc[p].held
                     /\ state.push = proc[p].push /\ state.next = proc[p].next
    BY <1>1, GetOldShape
  <2>2. proc[p].pc = "get" /\ UNCHANGED store
    BY <1>1, GetOldShape
  <2>3. \A k \in Job : HotAs(p, state, k) => Hot(k)
    BY <2>1, <2>2 DEF Hot, HotAs
  <2>4. \A k \in Job : AllDue(k) => DueAs(state, k)
    BY <2>1, <2>2 DEF AllDue, DueAs
  <2> QED BY <2>1, <2>2, <2>3, <2>4, RipenedLocal
<1>2. CASE p \in Slot /\ Resolve(p)
  <2>1. PICK state : Become(p, state) /\ state.pc = "idle"
    BY <1>2, ResolveScript
  <2>2. \A k \in Job : ~HotAs(p, state, k) /\ DueAs(state, k)
    BY <2>1 DEF HotAs, DueAs
  <2> QED BY <1>2, <2>1, <2>2, ResolveScript, RipenedLocal
<1> QED BY <1>1, <1>2, NoDependencySteps, WriteRipened

\* A job that was never enqueued is nowhere, and nobody has a copy of it.
LEMMA Unsubmitted ==
  ASSUME Types, Scripted, Whereabouts, Ripened, NEW j \in Job, j \notin submitted
  PROVE  ~Hot(j) /\ AllDue(j)
<1>1. record[j].status = "absent" /\ record[j].due
  BY DEF Whereabouts, Placed, Given, Ripened, Exists
<1>2. \A x \in Place : ~On(j, x)
  BY DEF Whereabouts, Placed, Given
<1>3. \A p \in Proc : ~Holds(p, j)
  BY <1>2, OnCases
<1>4. \A q \in Queue, t \in Tier : ~InList(q, t, j)
  BY <1>2, OnCases
<1>5. \A q \in Queue : deferred[q][j] = "none"
  BY <1>2, OnCases
<1>6. \A p \in Proc : ~HotAs(p, proc[p], j)
  BY <1>3 DEF HotAs, Holds, Delivered, WillPush
<1>7. ASSUME NEW p \in Proc PROVE DueAs(proc[p], j)
  <2>1. ~(proc[p].pc \in {"get", "write"} /\ proc[p].job = j)
    BY DEF Whereabouts, Placed, Given
  <2>2. p \in Slot => ~(proc[p].pc \in {"claimed", "invoke"} /\ proc[p].job = j)
    BY <1>3 DEF Holds, Delivered
  <2>3. p \in Client => proc[p].pc \notin {"claimed", "invoke"}
    BY DEF Scripted, ScriptAs, ClientScript
  <2> QED BY <2>1, <2>2, <2>3 DEF DueAs, Proc
<1> QED BY <1>1, <1>4, <1>5, <1>6, <1>7 DEF Hot, AllDue

LEMMA ClientRipened ==
  ASSUME Alone, Types, Scripted, Whereabouts, Ripened, NEW c \in Client,
         Query(c) \/ \E j \in Job : Call(c, j)
  PROVE  Ripened'
<1>0. c \in Proc /\ c \notin Slot
  BY SetsAssumption DEF Proc
<1>1. CASE Query(c)
  <2>1. PICK state : Become(c, state) /\ state.pc \in {"idle", "list", "reap"}
    BY <1>1, QueryShape
  <2>2. \A k \in Job : ~HotAs(c, state, k) /\ DueAs(state, k)
    BY <2>1 DEF HotAs, DueAs
  <2> QED BY <1>0, <1>1, <2>1, <2>2, QueryShape, RipenedLocal
<1>2. ASSUME NEW j \in Job, NEW due \in BOOLEAN, Enqueue(c, j, due) PROVE Ripened'
  <2>1. j \notin submitted /\ UNCHANGED store
    BY <1>2, EnqueueShape
  <2>2. PICK state : Become(c, state) /\ state.job = j /\ state.held.due = due
    BY <1>2, EnqueueShape
  <2>3. ~Hot(j) /\ AllDue(j)
    BY <2>1, Unsubmitted
  <2>4. record' = record /\ pending' = pending /\ deferred' = deferred
    BY <2>1 DEF store
  <2>5. ASSUME NEW k \in Job, Hot(k)' PROVE /\ Hot(k) \/ AllDue(k)
                                            /\ k = j => due
    <3>1. Hot(k) \/ HotAs(c, state, k)
      BY <1>0, <2>2, <2>4, <2>5, HotMoved
    <3> QED BY <1>0, <2>2, <2>3, <3>1 DEF HotAs
  <2>6. \A k \in Job : (k = j => due) => DueAs(state, k)
    BY <2>2 DEF DueAs
  <2> QED BY <1>0, <2>2, <2>4, <2>5, <2>6, RipenedMoves DEF Ripened, Exists, AllDue
<1>3. ASSUME NEW j \in Job, CancelJob(c, j) PROVE Ripened'
  <2>1. PICK state : /\ Become(c, state) /\ state.job = j /\ state.held.due = record[j].due
                     /\ state.pc = "get" /\ ~state.push /\ state.next = "return"
    BY <1>3, CancelShape
  <2>2. \A k \in Job : ~HotAs(c, state, k) /\ (AllDue(k) => DueAs(state, k))
    BY <1>0, <2>1 DEF HotAs, DueAs, AllDue
  <2> QED BY <1>0, <1>3, <2>1, <2>2, CancelShape, RipenedLocal
<1>4. ASSUME NEW j \in Job, NEW state, Become(c, state), UNCHANGED store, state.job = j,
             state.held.due, record[j].status \in {"failed", "dead"}
      PROVE  Ripened'
  <2>1. \A k \in Job : HotAs(c, state, k) => Hot(k)
    BY <1>4 DEF HotAs, Hot
  <2>2. \A k \in Job : DueAs(state, k)
    BY <1>4 DEF DueAs
  <2> QED BY <1>0, <1>4, <2>1, <2>2, RipenedLocal
<1>5. ASSUME NEW j \in Job, "retry" \in Ops, RetryJob(c, j) PROVE Ripened'
  <2>1. record[j].status \in RETRIABLE_STATUSES /\ UNCHANGED store
    BY <1>5, RetryShape
  <2>2. record[j].status \in {"failed", "dead"}
    BY <1>5, <2>1 DEF Alone, Scripted, RETRIABLE_STATUSES
  <2> QED BY <1>4, <1>5, <2>1, <2>2, RetryShape
<1>6. ASSUME NEW j \in Job, ReplayDeadJob(c, j) PROVE Ripened'
  BY <1>4, <1>6, ReplayShape
<1>7. ASSUME NEW j \in Job, Call(c, j) PROVE Ripened'
  BY <1>2, <1>3, <1>5, <1>6, <1>7 DEF Call
<1> QED BY <1>1, <1>7

LEMMA MaintainRipened ==
  ASSUME Types, Scripted, Ripened, NEW c \in Client, Maintain(c)
  PROVE  Ripened'
<1>0. c \in Proc
  BY DEF Proc
<1>1. ASSUME record' = record, pending' = pending, deferred' = deferred,
             \E state : Become(c, state) /\ state.pc \in {"idle", "list", "fetch", "forget"}
      PROVE  Ripened'
  <2>1. PICK state : Become(c, state) /\ state.pc \in {"idle", "list", "fetch", "forget"}
    BY <1>1
  <2>2. \A k \in Job : ~HotAs(c, state, k) /\ DueAs(state, k)
    BY <2>1 DEF HotAs, DueAs
  <2>3. ASSUME NEW k \in Job, Hot(k)' PROVE Hot(k)
    <3>1. Hot(k) \/ HotAs(c, state, k)
      BY <1>0, <1>1, <2>1, <2>3, HotMoved
    <3> QED BY <2>2, <3>1
  <2> QED BY <1>0, <1>1, <2>1, <2>2, <2>3, RipenedMoves DEF Ripened, Exists, AllDue
<1>2. ASSUME NEW m \in proc[c].left, ReapForget(c, m) PROVE Ripened'
  BY <1>0, <1>2, ReapForgetShape, ForgetRipened
<1>3. CASE ReapRemove(c)
  BY <1>1, <1>3, ReapRemoveShape
<1>4. CASE PurgeList(c)
  BY <1>1, <1>4, PurgeListShape DEF store
<1>5. ASSUME NEW old \in BOOLEAN, PurgeFetch(c, old) PROVE Ripened'
  BY <1>1, <1>5, PurgeFetchShape DEF store
<1>6. CASE PurgeForget(c)
  <2>1. Idle.pc = "idle"
    BY DEF Idle
  <2> QED BY <1>0, <1>6, <2>1, PurgeForgetShape, ForgetRipened
<1> QED BY <1>2, <1>3, <1>4, <1>5, <1>6 DEF Maintain

LEMMA ClockRipened ==
  ASSUME Types, Ripened, NEW j \in Job, RunAtPasses(j) \/ ResultExpires(j)
  PROVE  Ripened'
<1>1. CASE RunAtPasses(j)
  <2>1. /\ pending' = pending
        /\ \A k \in Job : /\ record'[k].status = record[k].status
                          /\ k # j => record'[k] = record[k]
        /\ record'[j].due
        /\ \A q \in Queue, k \in Job : k # j => deferred'[q][k] = deferred[q][k]
        /\ \A p \in Proc :
              /\ proc'[p].pc = proc[p].pc /\ proc'[p].job = proc[p].job
              /\ proc'[p].push = proc[p].push /\ proc'[p].next = proc[p].next
              /\ IF proc[p].job = j THEN proc'[p].held.due ELSE proc'[p] = proc[p]
    BY <1>1, RunAtPassesShape
  <2>2. ASSUME NEW k \in Job, k # j, Hot(k)' PROVE Hot(k)
    <3>1. \A r \in Proc : HotAs(r, proc[r], k)' => HotAs(r, proc[r], k)
      BY <2>1, <2>2 DEF HotAs
    <3>2. \/ \E r \in Proc : HotAs(r, proc[r], k)'
          \/ \E q \in Queue, t \in Tier : InList(q, t, k)'
          \/ record'[k].status \in {"failed", "dead"}
          \/ \E q \in Queue : deferred'[q][k] = "due"
      BY <2>2 DEF Hot, Proc
    <3>3. \A q \in Queue, t \in Tier : InList(q, t, k)' => InList(q, t, k)
      BY <2>1 DEF InList
    <3> QED BY <2>1, <2>2, <3>1, <3>2, <3>3 DEF Hot
  <2>3. ASSUME NEW k \in Job, Hot(k)' PROVE AllDue(k)'
    <3>1. \A r \in Proc : DueAs(proc'[r], k)
      BY <2>1, <2>2, <2>3 DEF Ripened, AllDue, DueAs
    <3>2. record'[k].due
      BY <2>1, <2>2, <2>3 DEF Ripened, AllDue
    <3> QED BY <3>1, <3>2 DEF AllDue, DueAs, Proc
  <2> QED BY <2>1, <2>3 DEF Ripened, Exists
<1>2. CASE ResultExpires(j)
  <2>1. /\ record' = [record EXCEPT ![j] = Absent] /\ proc' = proc
        /\ pending' = pending /\ deferred' = deferred
    BY <1>2 DEF ResultExpires
  <2>2. record'[j] = Absent /\ \A k \in Job : k # j => record'[k] = record[k]
    BY <2>1 DEF Types, TypeOK
  <2>3. Absent.status = "absent" /\ Absent.due
    BY NewType
  <2>4. ASSUME NEW k \in Job, Hot(k)' PROVE AllDue(k)'
    <3>1. \/ \E r \in Proc : HotAs(r, proc[r], k)'
          \/ \E q \in Queue, t \in Tier : InList(q, t, k)'
          \/ record'[k].status \in {"failed", "dead"}
          \/ \E q \in Queue : deferred'[q][k] = "due"
      BY <2>4 DEF Hot, Proc
    <3>2. \A q \in Queue, t \in Tier : InList(q, t, k)' => InList(q, t, k)
      BY <2>1 DEF InList
    <3>3. \A r \in Proc : HotAs(r, proc[r], k)' => HotAs(r, proc[r], k)
      BY <2>1 DEF HotAs
    <3>4. AllDue(k)
      BY <2>1, <2>2, <2>3, <3>1, <3>2, <3>3 DEF Hot, Ripened
    <3> QED BY <2>1, <2>2, <2>3, <3>4 DEF AllDue, DueAs, Proc
  <2> QED BY <2>2, <2>3, <2>4 DEF Ripened, Exists
<1> QED BY <1>1, <1>2

LEMMA RipenedHolds ==
  ASSUME Alone
  PROVE  /\ Init => Ripened
         /\ Types /\ Scripted /\ Whereabouts /\ Ripened /\ [Next]_vars => Ripened'
<1>1. ASSUME Init PROVE Ripened
  <2>1. /\ \A k \in Job : record[k].status = "absent" /\ record[k].due
        /\ \A q \in Queue, t \in Tier : pending[q][t] = <<>>
        /\ \A q \in Queue, k \in Job : deferred[q][k] = "none"
        /\ \A p \in Proc : proc[p].pc = "idle"
    BY <1>1, NewType DEF Init, Idle
  <2>2. \A k \in Job : ~Hot(k)
    BY <2>1 DEF Hot, HotAs, InList
  <2> QED BY <2>1, <2>2 DEF Ripened
<1>2. ASSUME Types, Scripted, Whereabouts, Ripened, [Next]_vars PROVE Ripened'
  <2>1. CASE UNCHANGED vars
    <3>1. record' = record /\ pending' = pending /\ deferred' = deferred /\ proc' = proc
      BY <2>1 DEF vars, store
    <3>2. \A k \in Job : (Hot(k)' <=> Hot(k)) /\ (AllDue(k)' <=> AllDue(k))
      BY <3>1 DEF Hot, HotAs, InList, AllDue, DueAs, Proc
    <3> QED BY <1>2, <3>1, <3>2 DEF Ripened, Exists
  <2>2. ASSUME NEW s \in Slot, Dequeue(s) \/ Work(s) PROVE Ripened'
    BY <1>2, <2>2, PromoteRipened, PopRipened, WorkRipened DEF Dequeue
  <2>3. ASSUME NEW p \in Proc, Broker(p) PROVE Ripened'
    BY <1>2, <2>3, BrokerRipened
  <2>4. ASSUME NEW p \in Proc, Crash(p) PROVE Ripened'
    <3>1. Become(p, Idle) /\ UNCHANGED store
      BY <2>4 DEF Crash, Return
    <3>2. \A k \in Job : ~HotAs(p, Idle, k) /\ DueAs(Idle, k)
      BY DEF HotAs, DueAs, Idle
    <3> QED BY <1>2, <3>1, <3>2, RipenedLocal
  <2>5. ASSUME NEW c \in Client, Maintain(c) \/ Query(c) \/ \E j \in Job : Call(c, j)
        PROVE  Ripened'
    BY <1>2, <2>5, MaintainRipened, ClientRipened
  <2>6. ASSUME NEW j \in Job, RunAtPasses(j) \/ ResultExpires(j) PROVE Ripened'
    BY <1>2, <2>6, ClockRipened
  <2>7. CASE Next
    BY <2>2, <2>3, <2>4, <2>5, <2>6, <2>7 DEF Next
  <2> QED BY <1>2, <2>1, <2>7
<1> QED BY <1>1, <1>2

\* Without dependencies, and without two callers that requeue at once, a slot never
\* claims a job before its run_at: whatever is queued, deferred, retried, cancelled,
\* replayed or lost, no copy with a later run_at is ever in the way of an id that is
\* already in a list.
THEOREM RunsOnTime == ASSUME Alone PROVE Spec => []NotBeforeRunAt
<1>1. Types /\ Ripened => NotBeforeRunAt
  <2>1. SUFFICES ASSUME Types, Ripened, NEW s \in Slot, proc[s].pc = "claimed"
                 PROVE  proc[s].held.due
    BY DEF NotBeforeRunAt
  <2>2. s \in Proc
    BY DEF Proc
  <2>3. PICK j \in Job : j = proc[s].job
    BY <2>1, <2>2, OwnerType DEF Owning
  <2>4. Hot(j)
    BY <2>1, <2>2, <2>3 DEF Hot, HotAs
  <2> QED BY <2>1, <2>2, <2>3, <2>4 DEF Ripened, AllDue, DueAs
<1> QED BY <1>1, TypesHold, ScriptedHolds, WhereaboutsHold, RipenedHolds, PTL DEF Spec

-----------------------------------------------------------------------------
(* What is stored of a job, and what its processes make of it.              *)

\* A cancel reads the record and writes it back whole, over whatever a worker has
\* stored meanwhile.
Undisturbed == Alone /\ Cancels = {}

Queued(k) == \/ \E q \in Queue, t \in Tier : InList(q, t, k)
             \/ \E q \in Queue : deferred[q][k] # "none"

\* A slot's copy of a job whose record is r: it was made from that record, and
\* counts one attempt more once the attempt has failed.
SlotStage(state, r) ==
    /\ state.pc # "gone"
    /\ state.pc = "popped" => r.status \in RUNNABLE
    /\ state.pc = "claimed" => r.status \in RUNNABLE /\ state.held.retries = r.retries
    /\ state.pc = "invoke" => r.status = "running" /\ state.held.retries = r.retries
    /\ state.pc \in {"get", "write"} =>
         \/ /\ state.held.status = "retrying" /\ r.status = "running"
            /\ r.retries < MaxRetries[state.job] /\ state.held.retries = r.retries + 1
         \/ /\ state.held.status = "running" /\ r.status \in RUNNABLE
            /\ state.held.retries = r.retries
         \/ /\ state.held.status = "completed" /\ r.status = "running"
            /\ state.held.retries = r.retries
         \/ /\ state.held.status = "failed" /\ r.status \in RUNNABLE
            /\ state.job \in Unknown /\ state.held.retries = r.retries
         \/ /\ state.held.status = (IF state.job \in DeadLettered THEN "dead" ELSE "failed")
            /\ r.status = "running" /\ r.retries = MaxRetries[state.job]
            /\ state.held.retries = r.retries

\* A client writes a job that is new, or one that has ended and that it requeues.
ClientStage(state, r) ==
    state.pc \in {"get", "write"} =>
      /\ state.held.retries = 0
      /\ \/ r.status \in {"absent", "pending"} /\ state.push
         \/ r.status \in {"failed", "dead"} /\ Ops \cap {"retry", "replay"} # {}

StageAs(p, state, r) == /\ p \in Slot => SlotStage(state, r)
                        /\ p \in Client => ClientStage(state, r)

\* The attempts a record counts.
Counts(k, r) == r.retries <= MaxRetries[k] /\ (r.status = "absent" => r.retries = 0)

\* The inductive invariant of the refinement: what can be claimed is stored as such,
\* and whoever will write a job has it as it is stored.
Staged == /\ \A k \in Job : Counts(k, record[k])
          /\ \A k \in Job : Queued(k) => record[k].status \in RUNNABLE
          /\ \A p \in Proc : StageAs(p, proc[p], record[proc[p].job])

\* The fields that the operations change, and those they do not.
LEMMA ObjectKeeps ==
  ASSUME NEW job \in Record
  PROVE  /\ \A st \in JobStatus : [job EXCEPT !.status = st].retries = job.retries
         /\ [job EXCEPT !.status = "dead", !.queue = "dlq"].retries = job.retries
         /\ Reset(job).retries = 0
         /\ \A due \in BOOLEAN : Retrying(job, due).retries = job.retries + 1
         /\ \A due \in BOOLEAN : Fresh(due).retries = 0
BY DEF Record, Reset, Retrying, Fresh

\* What is written is what the operation made.
LEMMA WritingFields ==
  \A j \in Job, job \in Record, push \in BOOLEAN, next \in After :
    /\ Writing(j, job, push, next).pc = "get" /\ Writing(j, job, push, next).job = j
    /\ Writing(j, job, push, next).held = job
    /\ Writing(j, job, push, next).push = push /\ Writing(j, job, push, next).next = next
BY DEF Writing, Idle

\* Who would write a job holds it.
LEMMA WriterHolds ==
  ASSUME Undisturbed, Types, Scripted, NEW p \in Proc, proc[p].pc \in {"get", "write"}
  PROVE  Holds(p, proc[p].job)
<1>1. CASE p \in Slot
  BY <1>1 DEF Holds, Delivered
<1>2. CASE p \in Client
  <2>1. ClientScript(proc[p])
    BY <1>2 DEF Scripted, ScriptAs
  <2> QED BY <1>2, <2>1 DEF Undisturbed, ClientScript, Holds, WillPush
<1> QED BY <1>1, <1>2 DEF Proc

\* A step of p that stores a job that only p may have.
LEMMA StageMoves ==
  ASSUME Undisturbed, Types, Scripted, Staged,
         NEW p \in Proc, NEW state, Become(p, state), NEW j \in Job,
         \A k \in Job : k # j => record'[k] = record[k],
         Counts(j, record'[j]),
         \A r \in Proc \ {p} : ~Holds(r, j),
         \A k \in Job : k # j /\ Queued(k)' => Queued(k),
         Queued(j)' => record'[j].status \in RUNNABLE,
         StageAs(p, state, record'[state.job])
  PROVE  Staged'
<1>1. proc'[p] = state /\ \A r \in Proc \ {p} : proc'[r] = proc[r]
  BY Moved
<1>2. ASSUME NEW r \in Proc, r # p PROVE StageAs(r, proc[r], record'[proc[r].job])
  <2>1. CASE proc[r].job \in Job \ {j}
    BY <2>1 DEF Staged
  <2>2. CASE proc[r].job = j
    <3>1. r \in Slot => proc[r].pc \notin {"popped", "claimed", "invoke", "get", "write"}
      BY <1>2, <2>2 DEF Holds, Delivered
    <3>2. proc[r].pc \notin {"get", "write"}
      BY <1>2, <2>2, WriterHolds
    <3>3. r \in Slot => proc[r].pc # "gone"
      BY DEF Staged, StageAs, SlotStage
    <3> QED BY <3>1, <3>2, <3>3 DEF StageAs, SlotStage, ClientStage
  <2>3. CASE proc[r].job \notin Job
    <3>1. proc[r].pc \notin Owning
      BY <2>3, OwnerType
    <3> QED BY <3>1 DEF StageAs, SlotStage, ClientStage, Owning
  <2> QED BY <2>1, <2>2, <2>3
<1>3. \A r \in Proc : StageAs(r, proc'[r], record'[proc'[r].job])
  BY <1>1, <1>2
<1>4. \A k \in Job : Counts(k, record'[k])
  BY DEF Staged
<1>5. \A k \in Job : Queued(k)' => record'[k].status \in RUNNABLE
  BY DEF Staged
<1> QED BY <1>3, <1>4, <1>5 DEF Staged, Proc

\* A step of p that stores nothing in a record.
LEMMA StageKept ==
  ASSUME Types, Staged, NEW p \in Proc, NEW state, Become(p, state), record' = record,
         \A k \in Job : Queued(k)' => Queued(k),
         StageAs(p, state, record[state.job])
  PROVE  Staged'
<1>1. proc'[p] = state /\ \A r \in Proc \ {p} : proc'[r] = proc[r]
  BY Moved
<1>2. \A r \in Proc : StageAs(r, proc'[r], record'[proc'[r].job])
  BY <1>1 DEF Staged
<1>3. \A k \in Job : Counts(k, record'[k])
  BY DEF Staged
<1>4. \A k \in Job : Queued(k)' => record'[k].status \in RUNNABLE
  BY DEF Staged
<1> QED BY <1>2, <1>3, <1>4 DEF Staged, Proc

LEMMA StageLocal ==
  ASSUME Types, Staged, NEW p \in Proc, NEW state, Become(p, state), UNCHANGED store,
         StageAs(p, state, record[state.job])
  PROVE  Staged'
<1>1. \A k \in Job : Queued(k)' => Queued(k)
  BY DEF Queued, InList, store
<1> QED BY <1>1, StageKept DEF store

\* A process that has put down what it had.
LEMMA StageIdle ==
  ASSUME NEW p \in Proc, NEW state, NEW r,
         state.pc \notin {"gone", "popped", "claimed", "invoke", "get", "write"}
  PROVE  StageAs(p, state, r)
BY DEF StageAs, SlotStage, ClientStage

\* What a slot has is stored as claimable or as running.
LEMMA SlotsRecord ==
  ASSUME Scripted, Staged, NEW s \in Slot, NEW k \in Job, Holds(s, k)
  PROVE  record[k].status \in RUNNABLE \cup {"running"}
<1>1. s \in Proc /\ s \notin Client
  BY SetsAssumption DEF Proc
<1>2. SlotStage(proc[s], record[k]) /\ SlotScript(proc[s]) /\ Delivered(s, k)
  BY <1>1 DEF Staged, StageAs, Scripted, ScriptAs, Holds, Delivered
<1> QED BY <1>2 DEF SlotStage, SlotScript, Delivered

LEMMA DequeueStaged ==
  ASSUME Types, Scripted, Staged, NEW s \in Slot, Dequeue(s)
  PROVE  Staged'
<1>0. s \in Proc /\ s \notin Client
  BY SetsAssumption DEF Proc
<1>1. CASE PromoteDeferred(s)
  <2>1. record' = record /\ proc' = proc
    BY <1>1 DEF PromoteDeferred
  <2>2. PICK state : state = proc[s]
    OBVIOUS
  <2>3. Become(s, state)
    BY <2>1, <2>2 DEF Become, Types, TypeOK
  <2>4. ASSUME NEW k \in Job, Queued(k)' PROVE Queued(k)
    <3>1. \A q \in Queue, t \in Tier : InList(q, t, k)' => Queued(k)
      BY <1>1, PromoteIn DEF Queued, Ripe
    <3>2. \A q \in Queue : deferred'[q][k] # "none" => deferred[q][k] # "none"
      BY <1>1, PromoteShape
    <3> QED BY <2>4, <3>1, <3>2 DEF Queued
  <2>5. StageAs(s, state, record[state.job])
    BY <1>0, <2>2 DEF Staged
  <2> QED BY <1>0, <2>1, <2>3, <2>4, <2>5, StageKept
<1>2. ASSUME NEW i \in DOMAIN Queues[s], NEW t \in Tier, Pop(s, i, t) PROVE Staged'
  <2>1. record' = record /\ deferred' = deferred
    BY <1>2 DEF Pop
  <2>2. PICK q \in Queue, j \in Job, state \in ProcState :
           /\ Become(s, state) /\ state.pc = "popped" /\ state.job = j
           /\ InList(q, t, j)
           /\ \A r \in Queue, u \in Tier, k \in Job : InList(r, u, k)' => InList(r, u, k)
    BY <1>2, PopIn
  <2>3. \A k \in Job : Queued(k)' => Queued(k)
    BY <2>1, <2>2 DEF Queued
  <2>4. record[j].status \in RUNNABLE
    BY <2>2 DEF Staged, Queued
  <2>5. StageAs(s, state, record[state.job])
    BY <1>0, <2>2, <2>4 DEF StageAs, SlotStage
  <2> QED BY <1>0, <2>1, <2>2, <2>3, <2>5, StageKept
<1> QED BY <1>1, <1>2 DEF Dequeue

\* The outcome of an attempt, with the attempts it counts.
LEMMA ConcludeFields ==
  ASSUME Types, NEW s \in Slot
  PROVE  /\ RejectUnknown(s) => \E state :
              /\ Become(s, state) /\ state.pc = "get" /\ state.job = proc[s].job
              /\ state.held.status = "failed" /\ state.held.retries = proc[s].held.retries
         /\ Succeed(s) => \E state :
              /\ Become(s, state) /\ state.pc = "get" /\ state.job = proc[s].job
              /\ state.held.status = "completed" /\ state.held.retries = proc[s].held.retries
         /\ MoveToDLQ(s) => \E state :
              /\ Become(s, state) /\ state.pc = "get" /\ state.job = proc[s].job
              /\ state.held.status = "dead" /\ state.held.retries = proc[s].held.retries
         /\ Fail(s) => \E state :
              /\ Become(s, state) /\ state.pc = "get" /\ state.job = proc[s].job
              /\ state.held.status = "failed" /\ state.held.retries = proc[s].held.retries
<1>1. PICK held \in Record : held = proc[s].held
  BY OwnerType DEF Proc
<1>3. ASSUME RejectUnknown(s)
      PROVE  \E state :
              /\ Become(s, state) /\ state.pc = "get" /\ state.job = proc[s].job
              /\ state.held.status = "failed" /\ state.held.retries = held.retries
  <2>1. PICK st \in JobStatus : st = "failed"
    BY DEF JobStatus
  <2>2. PICK job : job = [held EXCEPT !.status = st]
    OBVIOUS
  <2>3. job.retries = held.retries /\ job.status = "failed"
    BY <2>1, <2>2 DEF Record
  <2>4. PICK state : state = Writing(proc[s].job, job, FALSE, "return")
    OBVIOUS
  <2>5. state.pc = "get" /\ state.job = proc[s].job /\ state.held = job
    BY <2>4 DEF Writing, Idle
  <2>6. Become(s, state)
    BY <1>1, <1>3, <2>1, <2>2, <2>4 DEF RejectUnknown, Conclude
  <2> QED BY <1>1, <2>3, <2>5, <2>6
<1>4. ASSUME Succeed(s)
      PROVE  \E state :
              /\ Become(s, state) /\ state.pc = "get" /\ state.job = proc[s].job
              /\ state.held.status = "completed" /\ state.held.retries = held.retries
  <2>1. PICK st \in JobStatus : st = "completed"
    BY DEF JobStatus
  <2>2. PICK job : job = [held EXCEPT !.status = st]
    OBVIOUS
  <2>3. job.retries = held.retries /\ job.status = "completed"
    BY <2>1, <2>2 DEF Record
  <2>4. PICK state : state = Writing(proc[s].job, job, FALSE, "resolve")
    OBVIOUS
  <2>5. state.pc = "get" /\ state.job = proc[s].job /\ state.held = job
    BY <2>4 DEF Writing, Idle
  <2>6. Become(s, state)
    BY <1>1, <1>4, <2>1, <2>2, <2>4 DEF Succeed, Conclude
  <2> QED BY <1>1, <2>3, <2>5, <2>6
<1>5. ASSUME MoveToDLQ(s)
      PROVE  \E state :
              /\ Become(s, state) /\ state.pc = "get" /\ state.job = proc[s].job
              /\ state.held.status = "dead" /\ state.held.retries = held.retries
  <2>2. PICK job : job = [held EXCEPT !.status = "dead", !.queue = "dlq"]
    OBVIOUS
  <2>3. job.retries = held.retries /\ job.status = "dead"
    BY <2>2, ObjectKeeps, ObjectType
  <2>4. PICK state : state = Writing(proc[s].job, job, FALSE, "return")
    OBVIOUS
  <2>5. state.pc = "get" /\ state.job = proc[s].job /\ state.held = job
    BY <2>4 DEF Writing, Idle
  <2>6. Become(s, state)
    BY <1>1, <1>5, <2>2, <2>4 DEF MoveToDLQ, Conclude
  <2> QED BY <1>1, <2>3, <2>5, <2>6
<1>6. ASSUME Fail(s)
      PROVE  \E state :
              /\ Become(s, state) /\ state.pc = "get" /\ state.job = proc[s].job
              /\ state.held.status = "failed" /\ state.held.retries = held.retries
  <2>1. PICK st \in JobStatus : st = "failed"
    BY DEF JobStatus
  <2>2. PICK job : job = [held EXCEPT !.status = st]
    OBVIOUS
  <2>3. job.retries = held.retries /\ job.status = "failed"
    BY <2>1, <2>2 DEF Record
  <2>4. PICK state : state = Writing(proc[s].job, job, FALSE, "return")
    OBVIOUS
  <2>5. state.pc = "get" /\ state.job = proc[s].job /\ state.held = job
    BY <2>4 DEF Writing, Idle
  <2>6. Become(s, state)
    BY <1>1, <1>6, <2>1, <2>2, <2>4 DEF Fail, Conclude
  <2> QED BY <1>1, <2>3, <2>5, <2>6
<1> QED BY <1>1, <1>3, <1>4, <1>5, <1>6

\* The start of an attempt, and a retry.
LEMMA StartFields ==
  ASSUME Types, NEW s \in Slot
  PROVE  /\ CheckCancelled(s) =>
              \/ Become(s, Idle)
              \/ \E state : /\ Become(s, state) /\ state.pc = "get" /\ state.job = proc[s].job
                            /\ state.held.status = "running"
                            /\ state.held.retries = proc[s].held.retries
         /\ \A due \in BOOLEAN : ScheduleRetry(s, due) /\ DependsOn[proc[s].job] = {} =>
              \E state : /\ Become(s, state) /\ state.pc = "get" /\ state.job = proc[s].job
                         /\ state.held.status = "retrying"
                         /\ state.held.retries = proc[s].held.retries + 1
<1>1. PICK held \in Record : held = proc[s].held
  BY OwnerType DEF Proc
<1>2. ASSUME CheckCancelled(s), ~Become(s, Idle)
      PROVE  \E state : /\ Become(s, state) /\ state.pc = "get" /\ state.job = proc[s].job
                        /\ state.held.status = "running" /\ state.held.retries = held.retries
  <2>0. PICK st \in JobStatus : st = "running"
    BY DEF JobStatus
  <2>1. PICK job : job = [held EXCEPT !.status = st]
    OBVIOUS
  <2>2. job.retries = held.retries /\ job.status = "running"
    BY <2>0, <2>1 DEF Record
  <2>3. PICK state : state = Writing(proc[s].job, job, FALSE, "invoke")
    OBVIOUS
  <2>4. state.pc = "get" /\ state.job = proc[s].job /\ state.held = job
    BY <2>3 DEF Writing, Idle
  <2>5. Become(s, state)
    BY <1>1, <1>2, <2>0, <2>1, <2>3 DEF CheckCancelled
  <2> QED BY <2>2, <2>4, <2>5
<1>3. ASSUME NEW due \in BOOLEAN, ScheduleRetry(s, due), DependsOn[proc[s].job] = {}
      PROVE  \E state : /\ Become(s, state) /\ state.pc = "get" /\ state.job = proc[s].job
                        /\ state.held.status = "retrying"
                        /\ state.held.retries = held.retries + 1
  <2>1. PICK job : job = Retrying(held, due)
    OBVIOUS
  <2>2. job.retries = held.retries + 1 /\ job.status = "retrying"
    BY <2>1 DEF Retrying
  <2>3. PICK state : state = Writing(proc[s].job, job, TRUE, "look")
    OBVIOUS
  <2>4. state.pc = "get" /\ state.job = proc[s].job /\ state.held = job
    BY <2>3 DEF Writing, Idle
  <2>5. Become(s, state)
    BY <1>1, <1>3, <2>1, <2>3 DEF ScheduleRetry, Enqueuing
  <2> QED BY <2>2, <2>4, <2>5
<1> QED BY <1>1, <1>2, <1>3

LEMMA WorkStaged ==
  ASSUME Alone, Types, Scripted, Staged, NEW s \in Slot, Work(s)
  PROVE  Staged'
<1>0. s \in Proc /\ s \notin Client
  BY SetsAssumption DEF Proc
<1>1. proc[s].pc \in {"popped", "claimed", "invoke"} => \E j \in Job : j = proc[s].job
  BY <1>0, OwnerType DEF Owning
<1>2. SlotStage(proc[s], record[proc[s].job])
  BY <1>0 DEF Staged, StageAs
<1>3. ASSUME UNCHANGED store, NEW state, Become(s, state), SlotStage(state, record[state.job])
      PROVE  Staged'
  BY <1>0, <1>3, StageLocal DEF StageAs
<1>4. CASE Load(s)
  <2>1. /\ proc[s].pc = "popped" /\ UNCHANGED store
        /\ record[proc[s].job].status \in RUNNABLE
    BY <1>2, <1>4, LoadShape DEF SlotStage
  <2>2. PICK state : /\ Become(s, state) /\ state.job = proc[s].job
                     /\ state.pc = "claimed" /\ state.held = record[proc[s].job]
    BY <1>4, <2>1, LoadShape DEF Exists, RUNNABLE
  <2>3. SlotStage(state, record[state.job])
    BY <2>1, <2>2 DEF SlotStage
  <2> QED BY <1>3, <2>1, <2>2, <2>3
<1>5. ~Drop(s)
  BY <1>2, DropShape DEF SlotStage
<1>6. CASE RejectUnknown(s)
  <2>1. proc[s].pc = "claimed" /\ proc[s].job \in Unknown /\ UNCHANGED store
    BY <1>6 DEF RejectUnknown, Conclude
  <2>2. PICK state :
              /\ Become(s, state) /\ state.pc = "get" /\ state.job = proc[s].job
              /\ state.held.status = "failed" /\ state.held.retries = proc[s].held.retries
    BY <1>6, ConcludeFields
  <2>3. SlotStage(state, record[state.job])
    BY <1>2, <2>1, <2>2 DEF SlotStage
  <2> QED BY <1>3, <2>1, <2>2, <2>3
<1>7. CASE CheckCancelled(s)
  <2>1. proc[s].pc = "claimed" /\ UNCHANGED store
    BY <1>7, CheckCancelledShape
  <2>2. CASE Become(s, Idle)
    <3>1. SlotStage(Idle, record[Idle.job])
      BY DEF SlotStage, Idle
    <3> QED BY <1>3, <2>1, <2>2, <3>1
  <2>3. ASSUME NEW state, Become(s, state), state.pc = "get", state.job = proc[s].job,
               state.held.status = "running", state.held.retries = proc[s].held.retries
        PROVE  Staged'
    <3>1. SlotStage(state, record[state.job])
      BY <1>2, <2>1, <2>3 DEF SlotStage
    <3> QED BY <1>3, <2>1, <2>3, <3>1
  <2> QED BY <1>7, <2>2, <2>3, StartFields
<1>8. CASE Succeed(s)
  <2>1. proc[s].pc = "invoke" /\ UNCHANGED store
    BY <1>8 DEF Succeed, Conclude
  <2>2. PICK state :
              /\ Become(s, state) /\ state.pc = "get" /\ state.job = proc[s].job
              /\ state.held.status = "completed" /\ state.held.retries = proc[s].held.retries
    BY <1>8, ConcludeFields
  <2>3. SlotStage(state, record[state.job])
    BY <1>2, <2>1, <2>2 DEF SlotStage
  <2> QED BY <1>3, <2>1, <2>2, <2>3
<1>9. ASSUME NEW due \in BOOLEAN, ScheduleRetry(s, due) PROVE Staged'
  <2>1. /\ proc[s].pc = "invoke" /\ UNCHANGED store
        /\ proc[s].held.retries < MaxRetries[proc[s].job]
    BY <1>9 DEF ScheduleRetry, CanRetry
  <2>2. PICK state : /\ Become(s, state) /\ state.pc = "get" /\ state.job = proc[s].job
                     /\ state.held.status = "retrying"
                     /\ state.held.retries = proc[s].held.retries + 1
    BY <1>1, <1>9, <2>1, StartFields DEF Alone
  <2>3. SlotStage(state, record[state.job])
    BY <1>2, <2>1, <2>2 DEF SlotStage
  <2> QED BY <1>3, <2>1, <2>2, <2>3
<1>10. ASSUME proc[s].pc = "invoke", ~CanRetry(s)
       PROVE  record[proc[s].job].retries = MaxRetries[proc[s].job]
  <2>1. PICK j \in Job : j = proc[s].job
    BY <1>1, <1>10
  <2>2. /\ record[j].retries <= MaxRetries[j] /\ ~(record[j].retries < MaxRetries[j])
    BY <1>2, <1>10, <2>1 DEF CanRetry, SlotStage, Staged, Counts
  <2>3. record[j].retries \in Nat /\ MaxRetries[j] \in Nat
    BY <2>1, NumbersAssumption DEF Types, TypeOK, Record
  <2> QED BY <2>1, <2>2, <2>3
<1>11. CASE MoveToDLQ(s)
  <2>1. /\ proc[s].pc = "invoke" /\ UNCHANGED store
        /\ ~CanRetry(s) /\ proc[s].job \in DeadLettered
    BY <1>11 DEF MoveToDLQ, Conclude
  <2>2. PICK state :
              /\ Become(s, state) /\ state.pc = "get" /\ state.job = proc[s].job
              /\ state.held.status = "dead" /\ state.held.retries = proc[s].held.retries
    BY <1>11, ConcludeFields
  <2>3. SlotStage(state, record[state.job])
    BY <1>2, <1>10, <2>1, <2>2 DEF SlotStage
  <2> QED BY <1>3, <2>1, <2>2, <2>3
<1>12. CASE Fail(s)
  <2>1. /\ proc[s].pc = "invoke" /\ UNCHANGED store
        /\ ~CanRetry(s) /\ proc[s].job \notin DeadLettered
    BY <1>12 DEF Fail, Conclude
  <2>2. PICK state :
              /\ Become(s, state) /\ state.pc = "get" /\ state.job = proc[s].job
              /\ state.held.status = "failed" /\ state.held.retries = proc[s].held.retries
    BY <1>12, ConcludeFields
  <2>3. SlotStage(state, record[state.job])
    BY <1>2, <1>10, <2>1, <2>2 DEF SlotStage
  <2> QED BY <1>3, <2>1, <2>2, <2>3
<1> QED BY <1>4, <1>5, <1>6, <1>7, <1>8, <1>9, <1>11, <1>12 DEF Work

\* Nobody else has a job that a process holds, and it is not queued.
LEMMA OnlyHolder ==
  ASSUME Types, Scripted, Whereabouts, NEW p \in Proc, NEW k \in Job, Holds(p, k)
  PROVE  /\ ~Queued(k)
         /\ \A r \in Proc \ {p} : ~Holds(r, k)
<1>1. ~Queued(k)
  BY NowhereElse DEF Queued
<1>2. ASSUME NEW r \in Proc, Holds(r, k) PROVE r = p
  <2>1. On(k, <<"process", r>>) /\ On(k, <<"process", p>>)
    BY <1>2, OnCases
  <2>2. <<"process", r>> = <<"process", p>>
    BY <2>1, OnCases DEF Whereabouts, Placed, Single
  <2> QED BY <2>2
<1> QED BY <1>1, <1>2

LEMMA WriteStaged ==
  ASSUME Undisturbed, Types, Scripted, Whereabouts, Staged, NEW p \in Proc, Write(p)
  PROVE  Staged'
<1>0. Alone /\ Cancels = {}
  BY DEF Undisturbed
<1>1. PICK j \in Job, job \in Record, state \in ProcState :
         /\ proc[p].pc = "write" /\ j = proc[p].job /\ job = proc[p].held
         /\ Become(p, state)
         /\ record'[j] = job /\ \A k \in Job : k # j => record'[k] = record[k]
         /\ \/ /\ proc[p].push /\ job.status \in {"pending", "retrying"}
               /\ state.pc = "idle" /\ state.job = None
               /\ job.due => LPush(j, job.queue) /\ deferred' = deferred
               /\ ~job.due => /\ pending' = pending /\ deferred'[job.queue][j] = "later"
                              /\ \A q \in Queue, k \in Job : q # job.queue \/ k # j =>
                                   deferred'[q][k] = deferred[q][k]
            \/ /\ ~proc[p].push /\ pending' = pending /\ deferred' = deferred
               /\ \/ /\ p \in Slot /\ job.status = "running"
                     /\ state.pc = "invoke" /\ state.job = j /\ state.held = job
                  \/ /\ p \in Slot /\ job.status = "completed" /\ state.pc = "resolve"
                  \/ /\ p \in Slot /\ job.status \in {"failed", "dead"} /\ state.pc = "idle"
                  \/ /\ p \in Client /\ job.status = "pending"
                     /\ state.pc = "get" /\ state.job = j /\ state.held = job /\ state.push
                  \/ /\ p \in Client /\ j \in Cancels
  BY <1>0, WriteScript DEF Stores
<1>2. job.status # "absent"
  BY <1>1, OwnerType DEF Storing
<1>3. StageAs(p, proc[p], record[j])
  BY <1>1 DEF Staged
<1>4. job.retries \in Nat /\ record[j].retries \in Nat /\ MaxRetries[j] \in Nat
  BY NumbersAssumption DEF Types, TypeOK, Record
<1>5. /\ p \in Slot => SlotStage(proc[p], record[j])
      /\ p \in Client => ClientStage(proc[p], record[j])
  BY <1>3 DEF StageAs
<1>6. Counts(j, record'[j])
  <2>1. record[j].retries <= MaxRetries[j]
    BY DEF Staged, Counts
  <2>2. job.retries <= MaxRetries[j]
    <3>1. CASE p \in Slot
      BY <1>1, <1>4, <1>5, <2>1, <3>1 DEF SlotStage
    <3>2. CASE p \in Client
      BY <1>1, <1>4, <1>5, <3>2 DEF ClientStage
    <3> QED BY <3>1, <3>2 DEF Proc
  <2> QED BY <1>1, <1>2, <2>2 DEF Counts
<1>7. ~Queued(j) /\ \A r \in Proc \ {p} : ~Holds(r, j)
  BY <1>1, WriterHolds, OnlyHolder
<1>8. CASE proc[p].push
  <2>1. \A k \in Job : k # j /\ Queued(k)' => Queued(k)
    <3>1. CASE job.due
      <4>1. LPush(j, job.queue) /\ deferred' = deferred /\ job.queue \in Queue
        BY <1>1, <1>8, <3>1 DEF Record
      <4>2. \A k \in Job, q \in Queue, t \in Tier : k # j /\ InList(q, t, k)' => InList(q, t, k)
        BY <4>1, LPushIn
      <4> QED BY <4>1, <4>2 DEF Queued
    <3>2. CASE ~job.due
      <4>1. pending' = pending
            /\ \A q \in Queue, k \in Job : k # j => deferred'[q][k] = deferred[q][k]
        BY <1>1, <1>8, <3>2
      <4> QED BY <4>1 DEF Queued, InList
    <3> QED BY <3>1, <3>2
  <2>2. record'[j].status \in RUNNABLE
    BY <1>1, <1>8 DEF RUNNABLE
  <2>3. StageAs(p, state, record'[state.job])
    BY <1>1, <1>8, StageIdle
  <2> QED BY <1>1, <1>6, <1>7, <2>1, <2>2, <2>3, StageMoves
<1>9. CASE ~proc[p].push
  <2>1. \A k \in Job : Queued(k)' => Queued(k)
    BY <1>1, <1>9 DEF Queued, InList
  <2>2. p \in Slot => p \notin Client
    BY SetsAssumption
  <2>3. StageAs(p, state, record'[state.job])
    <3>1. CASE p \in Slot
      BY <1>1, <1>9, <2>2, <3>1 DEF StageAs, SlotStage
    <3>2. CASE p \in Client
      <4>1. state.pc = "get" /\ state.job = j /\ state.held = job /\ state.push /\ job.status = "pending"
        BY <1>0, <1>1, <1>9, <2>2, <3>2
      <4>2. job.retries = 0
        BY <1>1, <1>5, <3>2 DEF ClientStage
      <4> QED BY <1>1, <2>2, <3>2, <4>1, <4>2 DEF StageAs, ClientStage
    <3> QED BY <3>1, <3>2 DEF Proc
  <2> QED BY <1>1, <1>6, <1>7, <2>1, <2>3, StageMoves
<1> QED BY <1>8, <1>9

LEMMA BrokerStaged ==
  ASSUME Undisturbed, Types, Scripted, Whereabouts, Staged, NEW p \in Proc, Broker(p)
  PROVE  Staged'
<1>1. CASE GetOld(p)
  <2>1. PICK state : /\ Become(p, state) /\ state.pc = "write"
                     /\ state.job = proc[p].job /\ state.held = proc[p].held
                     /\ state.push = proc[p].push /\ state.next = proc[p].next
    BY <1>1, GetOldShape
  <2>2. proc[p].pc = "get" /\ UNCHANGED store
    BY <1>1, GetOldShape
  <2>3. StageAs(p, proc[p], record[proc[p].job])
    BY DEF Staged
  <2>4. StageAs(p, state, record[state.job])
    BY <2>1, <2>2, <2>3 DEF StageAs, SlotStage, ClientStage
  <2> QED BY <2>1, <2>2, <2>4, StageLocal
<1>2. CASE p \in Slot /\ Resolve(p)
  <2>1. PICK state : Become(p, state) /\ state.pc = "idle"
    BY <1>2, ResolveScript
  <2>2. StageAs(p, state, record[state.job])
    BY <2>1, StageIdle
  <2> QED BY <1>2, <2>1, <2>2, ResolveScript, StageLocal
<1> QED BY <1>1, <1>2, NoDependencySteps, WriteStaged

\* A call that writes a job begins with a copy that has not been attempted.
LEMMA CallFields ==
  ASSUME Alone, Types, NEW c \in Client, NEW j \in Job
  PROVE  /\ \A due \in BOOLEAN : Enqueue(c, j, due) => \E state :
              /\ Become(c, state) /\ state.pc = "get" /\ state.job = j
              /\ state.push /\ state.held.retries = 0
         /\ RetryJob(c, j) \/ ReplayDeadJob(c, j) => \E state :
              /\ Become(c, state) /\ state.pc = "get" /\ state.job = j
              /\ state.held.retries = 0
<1>1. ASSUME NEW due \in BOOLEAN, Enqueue(c, j, due)
      PROVE  \E state : /\ Become(c, state) /\ state.pc = "get" /\ state.job = j
                        /\ state.push /\ state.held.retries = 0
  <2>1. PICK job : job = Fresh(due)
    OBVIOUS
  <2>2. job.retries = 0
    BY <2>1 DEF Fresh
  <2>3. PICK state : state = Writing(j, job, TRUE, "look")
    OBVIOUS
  <2>4. state.pc = "get" /\ state.job = j /\ state.held = job /\ state.push
    BY <2>3 DEF Writing, Idle
  <2>5. Become(c, state)
    BY <1>1, <2>1, <2>3 DEF Enqueue, Enqueuing, Alone
  <2> QED BY <2>2, <2>4, <2>5
<1>2. PICK job : job = Reset(record[j])
  OBVIOUS
<1>3. job.retries = 0
  BY <1>2 DEF Reset
<1>4. ASSUME RetryJob(c, j)
      PROVE  \E state : /\ Become(c, state) /\ state.pc = "get" /\ state.job = j
                        /\ state.held.retries = 0
  <2>1. PICK state : state = Writing(j, job, TRUE, "return")
    OBVIOUS
  <2>2. state.pc = "get" /\ state.job = j /\ state.held = job
    BY <2>1 DEF Writing, Idle
  <2> QED BY <1>2, <1>3, <1>4, <2>1, <2>2 DEF RetryJob
<1>5. ASSUME ReplayDeadJob(c, j)
      PROVE  \E state : /\ Become(c, state) /\ state.pc = "get" /\ state.job = j
                        /\ state.held.retries = 0
  <2>1. PICK state : state = Writing(j, job, FALSE, "enqueue")
    OBVIOUS
  <2>2. state.pc = "get" /\ state.job = j /\ state.held = job
    BY <2>1 DEF Writing, Idle
  <2> QED BY <1>2, <1>3, <1>5, <2>1, <2>2 DEF ReplayDeadJob
<1> QED BY <1>1, <1>4, <1>5

LEMMA ClientStaged ==
  ASSUME Undisturbed, Types, Scripted, Whereabouts, Staged, NEW c \in Client,
         Query(c) \/ \E j \in Job : Call(c, j)
  PROVE  Staged'
<1>0. c \in Proc /\ c \notin Slot /\ Alone /\ Cancels = {}
  BY SetsAssumption DEF Proc, Undisturbed
<1>1. CASE Query(c)
  <2>1. PICK state : Become(c, state) /\ state.pc \in {"idle", "list", "reap"}
    BY <1>1, QueryShape
  <2>2. StageAs(c, state, record[state.job])
    BY <1>0, <2>1, StageIdle
  <2> QED BY <1>0, <1>1, <2>1, <2>2, QueryShape, StageLocal
<1>2. ASSUME NEW state, Become(c, state), UNCHANGED store, ClientStage(state, record[state.job])
      PROVE  Staged'
  BY <1>0, <1>2, StageLocal DEF StageAs
<1>3. ASSUME NEW j \in Job, NEW due \in BOOLEAN, Enqueue(c, j, due) PROVE Staged'
  <2>1. record[j].status = "absent" /\ UNCHANGED store
    BY <1>3, EnqueueShape DEF Whereabouts, Placed, Given, Exists
  <2>2. PICK state : /\ Become(c, state) /\ state.job = j /\ state.push /\ state.held.retries = 0
    BY <1>0, <1>3, CallFields
  <2>3. ClientStage(state, record[state.job])
    BY <2>1, <2>2 DEF ClientStage
  <2> QED BY <1>2, <2>1, <2>2, <2>3
<1>4. ASSUME NEW j \in Job, "retry" \in Ops, RetryJob(c, j) PROVE Staged'
  <2>1. record[j].status \in RETRIABLE_STATUSES /\ UNCHANGED store
    BY <1>4, RetryShape
  <2>2. record[j].status = "failed"
    BY <1>0, <2>1 DEF Scripted, RETRIABLE_STATUSES
  <2>3. PICK state : /\ Become(c, state) /\ state.job = j /\ state.held.retries = 0
    BY <1>0, <1>4, CallFields
  <2>4. ClientStage(state, record[state.job])
    BY <1>4, <2>2, <2>3 DEF ClientStage
  <2> QED BY <1>2, <2>1, <2>3, <2>4
<1>5. ASSUME NEW j \in Job, "replay" \in Ops, ReplayDeadJob(c, j) PROVE Staged'
  <2>1. record[j].status = "dead" /\ UNCHANGED store
    BY <1>5, ReplayShape
  <2>2. PICK state : /\ Become(c, state) /\ state.job = j /\ state.held.retries = 0
    BY <1>0, <1>5, CallFields
  <2>3. ClientStage(state, record[state.job])
    BY <1>5, <2>1, <2>2 DEF ClientStage
  <2> QED BY <1>2, <2>1, <2>2, <2>3
<1>6. ASSUME NEW j \in Job, Call(c, j) PROVE Staged'
  BY <1>0, <1>3, <1>4, <1>5, <1>6 DEF Call
<1> QED BY <1>1, <1>6

-----------------------------------------------------------------------------
(* The index.                                                               *)

ClientHolds(k) == \E c \in Client : Holds(c, k)

\* No attempt of job k is alive or will be, unless a client requeues it.
Finished(k) == k \in submitted /\ record[k].status \in Ended \cup {"absent"} /\ ~ClientHolds(k)

\* An entry of aioq:jobs:expiring: the job has completed, in the queue it names.
Spent(m) == /\ Finished(m[1]) /\ record[m[1]].status \in {"completed", "absent"}
            /\ filed[m[1]] \subseteq {m[2]}

Cleared(k) == ~Exists(k) /\ listed[k] = {} /\ filed[k] = {}

\* The sets that a job is in: those of its status and of its queue.  Only a result
\* that has expired stays in them, until it is reaped.
Tallied(k) ==
    \/ Exists(k) /\ listed[k] = {record[k].status} /\ filed[k] = {record[k].queue}
    \/ Cleared(k)
    \/ /\ ~Exists(k) /\ listed[k] = {"completed"}
       /\ \E q \in Queue : filed[k] = {q} /\ <<k, q>> \in expiring

LEMMA TalliedKept ==
  ASSUME NEW k \in Job, Tallied(k), record'[k] = record[k],
         listed'[k] = listed[k], filed'[k] = filed[k], expiring \subseteq expiring'
  PROVE  Tallied(k)'
BY DEF Tallied, Cleared, Exists

\* A purge goes after a finished job, with the sets it is in, and a reap after
\* completed ones, of which it has cleared those it has not left to forget.
ReapAs(state) ==
    /\ state.pc \in {"fetch", "forget"} => Finished(state.job)
    /\ state.pc = "forget" => /\ listed[state.job] \subseteq {state.held.status}
                              /\ filed[state.job] \subseteq {state.held.queue}
    /\ state.pc = "reap" => /\ state.left \subseteq state.due
                            /\ \A m \in state.due :
                                  Spent(m) /\ (m \notin state.left => Cleared(m[1]))

\* What _write_job has read is still stored when it writes.
ReadAs(state, r) ==
    state.pc = "write" => state.old.status = r.status /\ state.old.queue = r.queue

\* The inductive invariant of StatsExact.
Indexed == /\ \A k \in Job : Tallied(k)
           /\ \A k \in Job : Expires(k, record[k]) => <<k, record[k].queue>> \in expiring
           /\ \A m \in expiring : Spent(m)
           /\ \A c \in Client : ReapAs(proc[c])
           /\ \A p \in Proc : ReadAs(proc[p], record[proc[p].job])

\* A finished job that is touched no more, or deleted.
Rests(k) == /\ Finished(k)' /\ record'[k].status \in {record[k].status, "absent"}
            /\ listed'[k] \subseteq listed[k] /\ filed'[k] \subseteq filed[k]

LEMMA SpentRests ==
  ASSUME Types, NEW m, m[1] \in Job, Spent(m), Rests(m[1])
  PROVE  Spent(m)' /\ (Cleared(m[1]) => Cleared(m[1])')
BY DEF Spent, Rests, Cleared, Exists

LEMMA ReapRests ==
  ASSUME Types, NEW state \in ProcState, Formed(state), ReapAs(state),
         \A k \in Job : Finished(k) => Rests(k)
  PROVE  ReapAs(state)'
<1>1. ASSUME state.pc \in {"fetch", "forget"} PROVE Finished(state.job)'
  <2>1. PICK k \in Job : k = state.job
    BY <1>1 DEF Formed, Owning
  <2> QED BY <1>1, <2>1 DEF ReapAs, Rests
<1>2. ASSUME state.pc = "forget"
      PROVE  /\ listed'[state.job] \subseteq {state.held.status}
             /\ filed'[state.job] \subseteq {state.held.queue}
  <2>1. PICK k \in Job : k = state.job
    BY <1>2 DEF Formed, Owning
  <2> QED BY <1>2, <2>1 DEF ReapAs, Rests
<1>3. ASSUME state.pc = "reap", NEW m \in state.due
      PROVE  Spent(m)' /\ (m \notin state.left => Cleared(m[1])')
  <2>1. m[1] \in Job
    BY DEF ProcState
  <2>2. Spent(m) /\ (m \notin state.left => Cleared(m[1]))
    BY <1>3 DEF ReapAs
  <2>3. Rests(m[1])
    BY <2>1, <2>2 DEF Spent
  <2> QED BY <2>1, <2>2, <2>3, SpentRests
<1> QED BY <1>1, <1>2, <1>3 DEF ReapAs

\* What is in the sets and in the hands of the others after a step of p.
LEMMA IndexMoves ==
  ASSUME Undisturbed, Types, Scripted, Indexed,
         NEW p \in Proc, NEW state, Become(p, state),
         \A k \in Job : Finished(k) => \/ Rests(k)
                                       \/ /\ record[k].status \in {"failed", "dead"}
                                          /\ \A c \in Client : c = p,
         \A r \in Proc \ {p}, k \in Job : Holds(r, k) => /\ record'[k].status = record[k].status
                                                         /\ record'[k].queue = record[k].queue,
         p \in Client => ReapAs(state)', ReadAs(state, record'[state.job]),
         \A k \in Job : Tallied(k)',
         \A k \in Job : Expires(k, record'[k]) => <<k, record'[k].queue>> \in expiring',
         \A m \in expiring' : Spent(m)'
  PROVE  Indexed'
<1>1. proc'[p] = state /\ \A r \in Proc \ {p} : proc'[r] = proc[r]
  BY Moved
<1>2. ASSUME NEW c \in Client, NEW other, other = proc'[c] PROVE ReapAs(other)'
  <2>1. c \in Proc
    BY DEF Proc
  <2>2. CASE c = p
    <3>1. other = state
      BY <1>1, <1>2, <2>2
    <3>2. ReapAs(state)'
      BY <2>2
    <3> QED BY <3>1, <3>2
  <2>3. CASE c # p
    <3>1. other = proc[c]
      BY <1>1, <1>2, <2>1, <2>3
    <3>2. ReapAs(other) /\ Formed(other) /\ other \in ProcState
      BY <2>1, <3>1 DEF Indexed, Types, Formed
    <3>3. \A k \in Job : Finished(k) => Rests(k)
      BY <2>3
    <3> QED BY <3>2, <3>3, ReapRests
  <2> QED BY <2>2, <2>3
<1>3. ASSUME NEW r \in Proc PROVE ReadAs(proc'[r], record'[proc'[r].job])
  <2>1. CASE r = p
    BY <1>1, <2>1
  <2>2. CASE r # p
    <3>1. ReadAs(proc[r], record[proc[r].job])
      BY DEF Indexed
    <3>2. CASE proc[r].pc = "write"
      <4>1. PICK k \in Job : k = proc[r].job
        BY <3>2, OwnerType DEF Owning
      <4>2. Holds(r, k)
        BY <3>2, <4>1, WriterHolds
      <4> QED BY <1>1, <2>2, <3>1, <4>1, <4>2 DEF ReadAs
    <3> QED BY <1>1, <2>2, <3>2 DEF ReadAs
  <2> QED BY <2>1, <2>2
<1>4. ASSUME NEW c \in Client PROVE ReapAs(proc[c])'
  <2>1. PICK other : other = proc'[c]
    OBVIOUS
  <2>2. ReapAs(other)'
    BY <1>2, <2>1
  <2> QED BY <2>1, <2>2 DEF ReapAs, Spent, Finished, Cleared, Exists, ClientHolds, Holds,
                            Delivered, WillPush
<1>5. \A r \in Proc : ReadAs(proc[r], record[proc[r].job])'
  BY <1>3 DEF ReadAs
<1> QED BY <1>4, <1>5 DEF Indexed, Proc

\* No process has a finished job, and it is not queued.
LEMMA FinishedFree ==
  ASSUME Scripted, Staged, NEW k \in Job, Finished(k)
  PROVE  /\ ~Queued(k)
         /\ \A r \in Proc : ~Holds(r, k)
<1>1. record[k].status \notin RUNNABLE \cup {"running"} /\ ~ClientHolds(k)
  BY DEF Finished, Ended, RUNNABLE
<1>2. ~Queued(k)
  BY <1>1 DEF Staged
<1>3. \A s \in Slot : ~Holds(s, k)
  BY <1>1, SlotsRecord
<1> QED BY <1>1, <1>2, <1>3 DEF ClientHolds, Proc

\* A step of p that stores nothing.
LEMMA IndexKept ==
  ASSUME Undisturbed, Types, Scripted, Indexed,
         NEW p \in Proc, NEW state, Become(p, state),
         record' = record, index' = index, submitted \subseteq submitted',
         \A k \in Job : Finished(k) /\ p \in Client /\ HoldsAs(p, state, k) =>
            record[k].status \in {"failed", "dead"} /\ \A c \in Client : c = p,
         p \in Client => \/ state.pc \notin {"reap", "fetch", "forget"}
                         \/ /\ Formed(state) /\ ReapAs(state)
                            /\ \A k \in Job : ~HoldsAs(p, state, k),
         ReadAs(state, record[state.job])
  PROVE  Indexed'
<1>1. listed' = listed /\ filed' = filed /\ expiring' = expiring
  BY DEF index
<1>2. ASSUME NEW k \in Job, Finished(k), p \in Client => ~HoldsAs(p, state, k)
      PROVE  Rests(k)
  <2>1. ASSUME NEW c \in Client PROVE ~Holds(c, k)'
    <3>1. ~Holds(c, k) /\ c \in Proc
      BY <1>2 DEF Finished, ClientHolds, Proc
    <3> QED BY <1>2, <3>1, HoldsMoved
  <2>2. ~ClientHolds(k)'
    BY <2>1 DEF ClientHolds
  <2> QED BY <1>1, <1>2, <2>2 DEF Rests, Finished
<1>3. \A k \in Job : Finished(k) => \/ Rests(k)
                                    \/ /\ record[k].status \in {"failed", "dead"}
                                       /\ \A c \in Client : c = p
  BY <1>2
<1>4. ASSUME p \in Client PROVE ReapAs(state)'
  <2>1. CASE state.pc \notin {"reap", "fetch", "forget"}
    BY <2>1 DEF ReapAs
  <2>2. CASE Formed(state) /\ ReapAs(state) /\ \A k \in Job : ~HoldsAs(p, state, k)
    <3>1. \A k \in Job : Finished(k) => Rests(k)
      BY <1>2, <2>2
    <3>2. state \in ProcState
      BY <2>2 DEF Formed
    <3> QED BY <2>2, <3>1, <3>2, ReapRests
  <2> QED BY <1>4, <2>1, <2>2
<1>5. \A k \in Job : Tallied(k)'
  BY <1>1 DEF Indexed, Tallied, Cleared, Exists
<1>6. ASSUME NEW m \in expiring' PROVE Spent(m)'
  <2>1. Spent(m) /\ m[1] \in Job
    BY <1>1 DEF Indexed, Types, TypeOK
  <2>2. record[m[1]].status \notin {"failed", "dead"}
    BY <2>1 DEF Spent
  <2>3. Rests(m[1])
    BY <1>3, <2>1, <2>2 DEF Spent
  <2> QED BY <2>1, <2>3, SpentRests
<1>7. \A k \in Job : Expires(k, record'[k]) => <<k, record'[k].queue>> \in expiring'
  BY <1>1 DEF Indexed
<1> QED BY <1>3, <1>4, <1>5, <1>6, <1>7, IndexMoves

\* A slot's step that stores nothing.
LEMMA SlotIndexed ==
  ASSUME Undisturbed, Types, Scripted, Indexed, NEW s \in Slot, NEW state, Become(s, state),
         record' = record, index' = index, submitted' = submitted, state.pc # "write"
  PROVE  Indexed'
<1>1. s \in Proc /\ s \notin Client
  BY SetsAssumption DEF Proc
<1>2. ReadAs(state, record[state.job])
  BY DEF ReadAs
<1> QED BY <1>1, <1>2, IndexKept

LEMMA DequeueIndexed ==
  ASSUME Undisturbed, Types, Scripted, Indexed, NEW s \in Slot, Dequeue(s)
  PROVE  Indexed'
<1>1. CASE PromoteDeferred(s)
  <2>1. /\ record' = record /\ index' = index /\ proc' = proc /\ submitted' = submitted
        /\ proc[s].pc = "idle" /\ s \in Proc
    BY <1>1 DEF PromoteDeferred, index, Proc
  <2>2. PICK state : state = proc[s]
    OBVIOUS
  <2>3. Become(s, state)
    BY <2>1, <2>2 DEF Become, Types, TypeOK
  <2> QED BY <2>1, <2>2, <2>3, SlotIndexed
<1>2. ASSUME NEW i \in DOMAIN Queues[s], NEW t \in Tier, Pop(s, i, t) PROVE Indexed'
  <2>1. record' = record /\ index' = index /\ submitted' = submitted
    BY <1>2 DEF Pop, index
  <2>2. PICK state : Become(s, state) /\ state.pc = "popped"
    BY <1>2, PopIn
  <2> QED BY <2>1, <2>2, SlotIndexed
<1> QED BY <1>1, <1>2 DEF Dequeue

LEMMA WorkIndexed ==
  ASSUME Undisturbed, Types, Scripted, Staged, Indexed, NEW s \in Slot, Work(s)
  PROVE  Indexed'
<1>0. s \in Proc /\ s \notin Client /\ Alone
  BY SetsAssumption DEF Proc, Undisturbed
<1>1. SlotStage(proc[s], record[proc[s].job])
  BY <1>0 DEF Staged, StageAs
<1>2. ASSUME UNCHANGED <<store, submitted>>, NEW state, Become(s, state), state.pc # "write"
      PROVE  Indexed'
  <2>1. record' = record /\ index' = index /\ submitted' = submitted
    BY <1>2 DEF store
  <2> QED BY <1>2, <2>1, SlotIndexed
<1>3. ~Drop(s)
  BY <1>1, DropShape DEF SlotStage
<1>4. CASE Load(s)
  <2>1. PICK state : Become(s, state) /\ state.pc \in {"claimed", "gone"}
    BY <1>4, LoadShape
  <2> QED BY <1>2, <1>4, <2>1, LoadShape
<1>5. CASE RejectUnknown(s) \/ Succeed(s) \/ MoveToDLQ(s) \/ Fail(s)
  <2>1. PICK state : Become(s, state) /\ state.pc = "get"
    BY <1>5, ConcludeShape
  <2> QED BY <1>2, <1>5, <2>1, ConcludeShape
<1>6. CASE CheckCancelled(s)
  <2>1. PICK state : Become(s, state) /\ state.pc \in {"idle", "get"}
    BY <1>6, CheckCancelledShape DEF Idle
  <2> QED BY <1>2, <1>6, <2>1, CheckCancelledShape
<1>7. ASSUME NEW due \in BOOLEAN, ScheduleRetry(s, due) PROVE Indexed'
  <2>1. PICK state : Become(s, state) /\ state.pc \in {"get", "register"}
    BY <1>7, ScheduleRetryShape
  <2> QED BY <1>2, <1>7, <2>1, ScheduleRetryShape
<1> QED BY <1>3, <1>4, <1>5, <1>6, <1>7 DEF Work

\* The sets a job is in once it is written: those of what is stored.
LEMMA WriteTallies ==
  ASSUME Undisturbed, Types, Scripted, Whereabouts, Staged, Indexed, NEW p \in Proc, Write(p),
         NEW j \in Job, j = proc[p].job, NEW job \in Record, job = proc[p].held
  PROVE  /\ listed'[j] = {job.status} /\ filed'[j] = {job.queue}
         /\ \A k \in Job : k # j => listed'[k] = listed[k] /\ filed'[k] = filed[k]
         /\ expiring' = IF Expires(j, job) THEN expiring \cup {<<j, job.queue>>} ELSE expiring
<1>1. PICK old \in Record : old = proc[p].old
  BY OwnerType
<1>2. /\ proc[p].pc = "write"
      /\ listed' = [listed EXCEPT ![j] = Relist(j, old, job)]
      /\ filed' = [filed EXCEPT ![j] = Refile(j, old, job)]
      /\ expiring' = IF Expires(j, job) THEN expiring \cup {<<j, job.queue>>} ELSE expiring
  BY <1>1, WriteShape
<1>3. /\ listed'[j] = Relist(j, old, job) /\ filed'[j] = Refile(j, old, job)
      /\ \A k \in Job : k # j => listed'[k] = listed[k] /\ filed'[k] = filed[k]
  BY <1>2 DEF Types, TypeOK
<1>4. old.status = record[j].status /\ old.queue = record[j].queue
  BY <1>1, <1>2 DEF Indexed, ReadAs
<1>5. ASSUME NEW q \in Queue PROVE <<j, q>> \notin expiring
  <2>1. Holds(p, j)
    BY <1>2, WriterHolds
  <2>2. \A m \in expiring : Spent(m)
    BY DEF Indexed
  <2>3. <<j, q>> \in expiring => Finished(j)
    BY <2>2 DEF Spent
  <2> QED BY <2>1, <2>3, FinishedFree
<1>6. \/ record[j].status # "absent" /\ listed[j] = {record[j].status}
                                     /\ filed[j] = {record[j].queue}
      \/ record[j].status = "absent" /\ listed[j] = {} /\ filed[j] = {}
  BY <1>5 DEF Indexed, Tallied, Cleared, Exists
<1>7. Relist(j, old, job) = {job.status}
  BY <1>4, <1>6 DEF Relist
<1>8. Refile(j, old, job) = {job.queue}
  BY <1>4, <1>6 DEF Refile
<1> QED BY <1>2, <1>3, <1>7, <1>8

LEMMA WriteIndexed ==
  ASSUME Undisturbed, Types, Scripted, Whereabouts, Staged, Indexed, NEW p \in Proc, Write(p)
  PROVE  Indexed'
<1>0. Alone /\ Cancels = {}
  BY DEF Undisturbed
<1>1. PICK j \in Job, job \in Record, state \in ProcState :
         /\ proc[p].pc = "write" /\ j = proc[p].job /\ job = proc[p].held
         /\ Become(p, state)
         /\ record'[j] = job /\ \A k \in Job : k # j => record'[k] = record[k]
         /\ submitted' = submitted
         /\ \/ state.pc = "idle"
            \/ state.pc \in {"invoke", "resolve", "get"} /\ state.job = j
         /\ job.status = "completed" => p \in Slot
  <2>1. PICK j \in Job, job \in Record, state \in ProcState :
           /\ proc[p].pc = "write" /\ j = proc[p].job /\ job = proc[p].held
           /\ Become(p, state)
           /\ record'[j] = job /\ \A k \in Job : k # j => record'[k] = record[k]
           /\ UNCHANGED <<dependents, submitted, calls, crashes>>
           /\ \/ /\ proc[p].push /\ job.status \in {"pending", "retrying"}
                 /\ state.pc = "idle" /\ state.job = None
              \/ \/ /\ p \in Slot /\ job.status = "running"
                    /\ state.pc = "invoke" /\ state.job = j
                 \/ /\ p \in Slot /\ job.status = "completed"
                    /\ state.pc = "resolve" /\ state.job = j
                 \/ /\ p \in Slot /\ job.status \in {"failed", "dead"} /\ state.pc = "idle"
                 \/ /\ p \in Client /\ job.status = "pending"
                    /\ state.pc = "get" /\ state.job = j
                 \/ /\ p \in Client /\ job.status = "cancelled" /\ state.pc = "idle"
    BY <1>0, WriteScript DEF Stores
  <2> QED BY <2>1
<1>2. job.status # "absent"
  BY <1>1, OwnerType DEF Storing
<1>3. /\ listed'[j] = {job.status} /\ filed'[j] = {job.queue}
      /\ \A k \in Job : k # j => listed'[k] = listed[k] /\ filed'[k] = filed[k]
      /\ expiring' = IF Expires(j, job) THEN expiring \cup {<<j, job.queue>>} ELSE expiring
  BY <1>1, WriteTallies
<1>4. Holds(p, j) /\ j \in submitted /\ \A r \in Proc \ {p} : ~Holds(r, j)
  BY <1>1, WriterHolds, HeldGiven, OnlyHolder DEF Whereabouts
<1>5. \A k \in Job \ {j} : ~HoldsAs(p, state, k)
  BY <1>1 DEF HoldsAs
<1>6. ASSUME NEW k \in Job, Finished(k) PROVE Rests(k)
  <2>1. k # j
    BY <1>4, <1>6, FinishedFree
  <2>2. ASSUME NEW c \in Client PROVE ~Holds(c, k)'
    <3>1. ~Holds(c, k) /\ c \in Proc
      BY <1>6 DEF Finished, ClientHolds, Proc
    <3> QED BY <1>1, <1>5, <2>1, <3>1, HoldsMoved
  <2>3. ~ClientHolds(k)'
    BY <2>2 DEF ClientHolds
  <2> QED BY <1>1, <1>3, <1>6, <2>1, <2>3 DEF Rests, Finished
<1>7. \A r \in Proc \ {p}, k \in Job : Holds(r, k) => /\ record'[k].status = record[k].status
                                                      /\ record'[k].queue = record[k].queue
  BY <1>1, <1>4
<1>8. p \in Client => ReapAs(state)'
  BY <1>1 DEF ReapAs
<1>9. ReadAs(state, record'[state.job])
  BY <1>1 DEF ReadAs
<1>10. expiring \subseteq expiring'
  BY <1>3
<1>11. ASSUME NEW k \in Job PROVE Tallied(k)'
  <2>1. CASE k = j
    BY <1>1, <1>2, <1>3, <2>1 DEF Tallied, Exists
  <2>2. CASE k # j
    <3>1. Tallied(k) /\ record'[k] = record[k] /\ listed'[k] = listed[k] /\ filed'[k] = filed[k]
      BY <1>1, <1>3, <2>2 DEF Indexed
    <3> QED BY <1>10, <3>1, TalliedKept
  <2> QED BY <2>1, <2>2
<1>12. ASSUME NEW k \in Job, Expires(k, record'[k]) PROVE <<k, record'[k].queue>> \in expiring'
  <2>1. CASE k = j
    BY <1>1, <1>3, <1>12, <2>1
  <2>2. CASE k # j
    BY <1>1, <1>10, <1>12, <2>2 DEF Indexed
  <2> QED BY <2>1, <2>2
<1>13. ASSUME NEW m \in expiring' PROVE Spent(m)'
  <2>1. CASE m \in expiring
    <3>1. Spent(m) /\ m[1] \in Job
      BY <2>1 DEF Indexed, Types, TypeOK
    <3>2. Rests(m[1])
      BY <1>6, <3>1 DEF Spent
    <3> QED BY <3>1, <3>2, SpentRests
  <2>2. CASE m \notin expiring
    <3>1. m = <<j, job.queue>> /\ job.status = "completed"
      BY <1>3, <1>13, <2>2 DEF Expires
    <3>2. p \in Slot /\ p \notin Client
      BY <1>1, <3>1, SetsAssumption
    <3>3. ASSUME NEW c \in Client PROVE ~Holds(c, j)'
      <4>1. c \in Proc \ {p} /\ ~Holds(c, j)
        BY <1>4, <3>2 DEF Proc
      <4> QED BY <1>1, <4>1, HoldsMoved
    <3>4. ~ClientHolds(j)'
      BY <3>3 DEF ClientHolds
    <3>5. Finished(j)'
      BY <1>1, <1>4, <3>1, <3>4 DEF Finished, Ended
    <3> QED BY <1>1, <1>3, <3>1, <3>5 DEF Spent
  <2> QED BY <2>1, <2>2
<1> QED BY <1>1, <1>6, <1>7, <1>8, <1>9, <1>11, <1>12, <1>13, IndexMoves

LEMMA BrokerIndexed ==
  ASSUME Undisturbed, Types, Scripted, Whereabouts, Staged, Indexed, NEW p \in Proc, Broker(p)
  PROVE  Indexed'
<1>1. CASE GetOld(p)
  <2>1. PICK old \in Record : old = record[proc[p].job]
    <3>1. proc[p].job \in Job
      BY <1>1, OwnerType DEF GetOld, Owning
    <3> QED BY <3>1 DEF Types, TypeOK
  <2>2. PICK state : state = [proc[p] EXCEPT !.pc = "write", !.old = old]
    OBVIOUS
  <2>3. proc[p] \in ProcState
    BY OwnerType
  <2>4. /\ state.pc = "write" /\ state.old = old /\ state.job = proc[p].job
        /\ state.push = proc[p].push /\ state.next = proc[p].next
    BY <2>2, <2>3 DEF ProcState
  <2>5. proc[p].pc = "get" /\ Become(p, state) /\ UNCHANGED <<store, submitted>>
    BY <1>1, <2>1, <2>2 DEF GetOld
  <2>6. ReadAs(state, record[state.job])
    BY <2>1, <2>4 DEF ReadAs
  <2>7. ASSUME NEW k \in Job, Finished(k), p \in Client, HoldsAs(p, state, k) PROVE FALSE
    <3>1. p \notin Slot
      BY <2>7, SetsAssumption
    <3>2. Holds(p, k)
      BY <2>4, <2>5, <2>7, <3>1 DEF HoldsAs, Holds, WillPush
    <3> QED BY <2>7, <3>2 DEF Finished, ClientHolds
  <2>8. record' = record /\ index' = index /\ submitted' = submitted
    BY <2>5 DEF store
  <2> QED BY <2>4, <2>5, <2>6, <2>7, <2>8, IndexKept
<1>2. CASE p \in Slot /\ Resolve(p)
  <2>1. PICK state : Become(p, state) /\ state.pc = "idle"
    BY <1>2, ResolveScript
  <2>2. record' = record /\ index' = index /\ submitted' = submitted
    BY <1>2, ResolveScript DEF store
  <2> QED BY <1>2, <2>1, <2>2, SlotIndexed
<1> QED BY <1>1, <1>2, NoDependencySteps, WriteIndexed

LEMMA ReapIndexed ==
  ASSUME Undisturbed, Types, Scripted, Indexed, NEW c \in Client, NEW due \in SUBSET expiring,
         NEW next \in After, Reap(c, due, next)
  PROVE  Indexed'
<1>0. c \in Proc /\ c \notin Slot
  BY SetsAssumption DEF Proc
<1>1. PICK state : state = Reaping(due, next)
  OBVIOUS
<1>2. due \in SUBSET (Job \X Queue)
  BY DEF Types, TypeOK
<1>3. Formed(state) /\ state.pc \in {"idle", "list", "reap"}
  BY <1>1, <1>2, ReapingType
<1>4. Become(c, state) /\ UNCHANGED <<store, submitted>>
  BY <1>1 DEF Reap, Called
<1>5. record' = record /\ index' = index /\ submitted' = submitted
  BY <1>4 DEF store
<1>6. ASSUME state.pc = "reap" PROVE state.due = due /\ state.left = due
  <2>1. due # {}
    BY <1>1, <1>6 DEF Reaping, AfterReap, Idle
  <2>2. state = [Idle EXCEPT !.pc = "reap", !.due = due, !.left = due, !.next = next]
    BY <1>1, <2>1 DEF Reaping
  <2> QED BY <2>2 DEF Idle
<1>7. ReapAs(state)
  BY <1>3, <1>6 DEF ReapAs, Indexed
<1>8. \A k \in Job : ~HoldsAs(c, state, k)
  BY <1>0, <1>3 DEF HoldsAs
<1>9. ReadAs(state, record[state.job])
  BY <1>3 DEF ReadAs
<1> QED BY <1>0, <1>3, <1>4, <1>5, <1>7, <1>8, <1>9, IndexKept

\* A client takes a new job, or one that has ended and that nobody else requeues.
LEMMA TakeIndexed ==
  ASSUME Undisturbed, Types, Scripted, Indexed, NEW c \in Client, NEW state, Become(c, state),
         UNCHANGED store, submitted \subseteq submitted', state.pc \in {"get", "register"},
         state.job \notin submitted \/
           (record[state.job].status \in {"failed", "dead"} /\ \A d \in Client : d = c)
  PROVE  Indexed'
<1>1. c \in Proc
  BY DEF Proc
<1>2. record' = record /\ index' = index
  BY DEF store
<1>3. \A k \in Job : Finished(k) /\ HoldsAs(c, state, k) =>
         record[k].status \in {"failed", "dead"} /\ \A d \in Client : d = c
  BY DEF Finished, HoldsAs
<1>4. ReadAs(state, record[state.job])
  BY DEF ReadAs
<1> QED BY <1>1, <1>2, <1>3, <1>4, IndexKept

LEMMA ClientIndexed ==
  ASSUME Undisturbed, Types, Scripted, Indexed, NEW c \in Client,
         Query(c) \/ \E j \in Job : Call(c, j)
  PROVE  Indexed'
<1>0. Alone /\ Cancels = {}
  BY DEF Undisturbed
<1>1. CASE Query(c)
  <2>1. PICK due \in SUBSET expiring, next \in After : Reap(c, due, next)
    BY <1>1 DEF Query, After
  <2> QED BY <2>1, ReapIndexed
<1>2. ASSUME NEW j \in Job, NEW due \in BOOLEAN, Enqueue(c, j, due) PROVE Indexed'
  <2>1. PICK state : Become(c, state) /\ state.job = j /\ state.pc \in {"get", "register"}
    BY <1>2, EnqueueShape
  <2>2. UNCHANGED store /\ submitted \subseteq submitted' /\ j \notin submitted
    BY <1>2, EnqueueShape
  <2> QED BY <2>1, <2>2, TakeIndexed
<1>3. ASSUME NEW j \in Job, "retry" \in Ops, RetryJob(c, j) PROVE Indexed'
  <2>1. PICK state : Become(c, state) /\ state.job = j /\ state.pc = "get"
    BY <1>3, RetryShape
  <2>2. UNCHANGED store /\ submitted' = submitted /\ record[j].status \in RETRIABLE_STATUSES
    BY <1>3, RetryShape
  <2>3. record[j].status = "failed"
    BY <1>0, <2>2 DEF Scripted, RETRIABLE_STATUSES
  <2>4. \A d \in Client : d = c
    BY <1>0, <1>3 DEF Alone
  <2> QED BY <2>1, <2>2, <2>3, <2>4, TakeIndexed
<1>4. ASSUME NEW j \in Job, "replay" \in Ops, ReplayDeadJob(c, j) PROVE Indexed'
  <2>1. PICK state : Become(c, state) /\ state.job = j /\ state.pc = "get"
    BY <1>4, ReplayShape
  <2>2. UNCHANGED store /\ submitted' = submitted /\ record[j].status = "dead"
    BY <1>4, ReplayShape
  <2>3. \A d \in Client : d = c
    BY <1>0, <1>4 DEF Alone
  <2> QED BY <2>1, <2>2, <2>3, TakeIndexed
<1>5. ASSUME NEW j \in Job, Call(c, j) PROVE Indexed'
  BY <1>0, <1>2, <1>3, <1>4, <1>5 DEF Call
<1> QED BY <1>1, <1>5

\* What a purge finds in the set of a terminal status has finished.
LEMMA ListedFinished ==
  ASSUME Undisturbed, Types, Scripted, Whereabouts, Staged, Indexed,
         NEW c \in Client, proc[c].pc = "list",
         NEW j \in Job, listed[j] \cap TERMINAL_STATUSES # {}
  PROVE  Finished(j)
<1>0. Alone /\ Cancels = {}
  BY DEF Undisturbed
<1>1. CASE Exists(j)
  <2>1. record[j].status \in TERMINAL_STATUSES
    BY <1>1 DEF Indexed, Tallied, Cleared
  <2>2. record[j].status \in Ended
    BY <1>0, <2>1 DEF Scripted, TERMINAL_STATUSES, Ended
  <2>3. j \in submitted
    BY <1>1 DEF Whereabouts, Placed, Given
  <2>4. ASSUME NEW d \in Client, Holds(d, j) PROVE FALSE
    <3>1. d \in Proc /\ d \notin Slot
      BY SetsAssumption DEF Proc
    <3>2. WillPush(d, j) /\ ClientScript(proc[d])
      BY <2>4, <3>1 DEF Holds, Scripted, ScriptAs
    <3>3. proc[d].job = j /\ proc[d].pc \in {"get", "write"}
      BY <3>2 DEF WillPush, ClientScript
    <3>4. ClientStage(proc[d], record[j])
      BY <3>1, <3>3 DEF Staged, StageAs
    <3>5. Ops \cap {"retry", "replay"} # {}
      BY <2>2, <3>3, <3>4 DEF ClientStage, Ended
    <3>6. d = c
      BY <1>0, <3>5 DEF Alone
    <3> QED BY <3>3, <3>6
  <2> QED BY <2>2, <2>3, <2>4 DEF Finished, ClientHolds
<1>2. CASE ~Exists(j)
  <2>1. PICK q \in Queue : <<j, q>> \in expiring
    BY <1>2 DEF Indexed, Tallied, Cleared
  <2>2. Spent(<<j, q>>)
    BY <2>1 DEF Indexed
  <2> QED BY <2>2 DEF Spent
<1> QED BY <1>1, <1>2

\* A finished job is deleted, with every entry it has in the sets.
LEMMA ForgetIndexed ==
  ASSUME Undisturbed, Types, Scripted, Staged, Indexed,
         NEW c \in Client, NEW state, Become(c, state), state.pc \in {"idle", "reap"},
         NEW j \in Job, NEW queues, NEW statuses, Forget(j, queues, statuses),
         Finished(j), listed[j] \subseteq statuses, filed[j] \subseteq queues,
         submitted' = submitted,
         state.pc = "reap" => /\ state.left \subseteq state.due
                              /\ \A m \in state.due :
                                    /\ m[1] \in Job /\ Spent(m)
                                    /\ m \notin state.left => m[1] = j \/ Cleared(m[1])
  PROVE  Indexed' /\ Staged'
<1>0. c \in Proc /\ c \notin Slot
  BY SetsAssumption DEF Proc
<1>1. /\ record' = [record EXCEPT ![j] = Absent]
      /\ listed' = [listed EXCEPT ![j] = listed[j] \ statuses]
      /\ filed' = [filed EXCEPT ![j] = filed[j] \ queues]
      /\ pending' = pending /\ deferred' = deferred /\ expiring' = expiring
  BY ForgetShape
<1>2. /\ record'[j] = Absent /\ listed'[j] = {} /\ filed'[j] = {}
      /\ \A k \in Job : k # j => /\ record'[k] = record[k]
                                 /\ listed'[k] = listed[k] /\ filed'[k] = filed[k]
  BY <1>1 DEF Types, TypeOK
<1>3. Absent.status = "absent" /\ Absent.retries = 0
  BY DEF Absent
<1>4. \A r \in Proc : ~Holds(r, j)
  BY FinishedFree
<1>5. \A k \in Job : ~HoldsAs(c, state, k)
  BY <1>0 DEF HoldsAs
<1>6. Cleared(j)'
  BY <1>2, <1>3 DEF Cleared, Exists
<1>7. ASSUME NEW k \in Job, Finished(k) PROVE Rests(k)
  <2>1. ASSUME NEW d \in Client PROVE ~Holds(d, k)'
    <3>1. ~Holds(d, k) /\ d \in Proc
      BY <1>7 DEF Finished, ClientHolds, Proc
    <3> QED BY <1>0, <1>5, <3>1, HoldsMoved
  <2>2. ~ClientHolds(k)'
    BY <2>1 DEF ClientHolds
  <2>3. record'[k].status \in {record[k].status, "absent"}
    BY <1>2, <1>3
  <2>4. listed'[k] \subseteq listed[k] /\ filed'[k] \subseteq filed[k]
    BY <1>2
  <2>5. Finished(k)'
    BY <1>7, <2>2, <2>3 DEF Finished
  <2> QED BY <2>3, <2>4, <2>5 DEF Rests
<1>8. ReapAs(state)'
  <2>1. ASSUME state.pc = "reap", NEW m \in state.due
        PROVE  Spent(m)' /\ (m \notin state.left => Cleared(m[1])')
    <3>1. m[1] \in Job /\ Spent(m)
      BY <2>1
    <3>2. Rests(m[1])
      BY <1>7, <3>1 DEF Spent
    <3>3. Spent(m)' /\ (Cleared(m[1]) => Cleared(m[1])')
      BY <3>1, <3>2, SpentRests
    <3> QED BY <1>6, <2>1, <3>3 DEF Cleared, Exists
  <2> QED BY <2>1 DEF ReapAs
<1>9. ReadAs(state, record'[state.job])
  BY DEF ReadAs
<1>10. \A r \in Proc \ {c}, k \in Job : Holds(r, k) => /\ record'[k].status = record[k].status
                                                       /\ record'[k].queue = record[k].queue
  BY <1>2, <1>4
<1>11. \A k \in Job : Tallied(k)'
  <2>1. Tallied(j)'
    BY <1>6 DEF Tallied
  <2>2. ASSUME NEW k \in Job, k # j PROVE Tallied(k)'
    <3>1. /\ Tallied(k) /\ record'[k] = record[k]
          /\ listed'[k] = listed[k] /\ filed'[k] = filed[k] /\ expiring' = expiring
      BY <1>1, <1>2, <2>2 DEF Indexed
    <3> QED BY <3>1, TalliedKept
  <2> QED BY <2>1, <2>2
<1>12. \A k \in Job : Expires(k, record'[k]) => <<k, record'[k].queue>> \in expiring'
  BY <1>1, <1>2, <1>3 DEF Indexed, Expires
<1>13. ASSUME NEW m \in expiring' PROVE Spent(m)'
  <2>1. Spent(m) /\ m[1] \in Job
    BY <1>1 DEF Indexed, Types, TypeOK
  <2> QED BY <1>7, <2>1, SpentRests DEF Spent
<1>14. Indexed'
  BY <1>0, <1>7, <1>8, <1>9, <1>10, <1>11, <1>12, <1>13, IndexMoves
<1>15. Staged'
  <2>1. Counts(j, record'[j])
    BY <1>2, <1>3, NumbersAssumption DEF Counts
  <2>2. \A k \in Job : Queued(k)' => Queued(k)
    BY <1>1 DEF Queued, InList
  <2>3. ~Queued(j)
    BY FinishedFree
  <2>4. StageAs(c, state, record'[state.job])
    BY <1>0, StageIdle
  <2> QED BY <1>0, <1>2, <1>4, <2>1, <2>2, <2>3, <2>4, StageMoves
<1> QED BY <1>14, <1>15

LEMMA ReapForgetIndexed ==
  ASSUME Undisturbed, Types, Scripted, Staged, Indexed, NEW c \in Client, NEW m \in proc[c].left,
         ReapForget(c, m)
  PROVE  Indexed' /\ Staged'
<1>0. c \in Proc
  BY DEF Proc
<1>1. /\ proc[c].pc = "reap" /\ m[1] \in Job /\ m[2] \in Queue /\ submitted' = submitted
      /\ Forget(m[1], {m[2]}, {"completed"})
  BY ReapForgetShape
<1>2. PICK j \in Job, q \in Queue : m = <<j, q>>
  BY <1>0, OwnerType
<1>3. /\ proc[c].left \subseteq proc[c].due /\ Spent(m)
      /\ \A n \in proc[c].due : n[1] \in Job /\ Spent(n)
                                /\ (n \notin proc[c].left => Cleared(n[1]))
  <2>1. /\ proc[c].left \subseteq proc[c].due
        /\ \A n \in proc[c].due : Spent(n) /\ (n \notin proc[c].left => Cleared(n[1]))
    BY <1>1 DEF Indexed, ReapAs
  <2>2. proc[c].due \in SUBSET (Job \X Queue)
    BY <1>0, OwnerType
  <2> QED BY <2>1, <2>2
<1>4. Finished(j) /\ record[j].status \in {"completed", "absent"} /\ filed[j] \subseteq {q}
  BY <1>2, <1>3 DEF Spent
<1>5. listed[j] \subseteq {"completed"}
  BY <1>4 DEF Indexed, Tallied, Cleared, Exists
<1>6. PICK left : left = proc[c].left \ {m}
  OBVIOUS
<1>7. PICK state : state = [proc[c] EXCEPT !.left = left]
  OBVIOUS
<1>8. state.pc = "reap" /\ state.due = proc[c].due /\ state.left = left
  BY <1>0, <1>1, <1>7, OwnerType DEF ProcState
<1>9. Become(c, state)
  BY <1>2, <1>6, <1>7 DEF ReapForget
<1>10. /\ state.left \subseteq state.due
       /\ \A n \in state.due : n[1] \in Job /\ Spent(n)
                                /\ (n \notin state.left => n[1] = j \/ Cleared(n[1]))
  BY <1>2, <1>3, <1>6, <1>8
<1>11. PICK queues, statuses : queues = {q} /\ statuses = {"completed"}
  OBVIOUS
<1>12. Forget(j, queues, statuses)
  BY <1>1, <1>2, <1>11
<1>13. listed[j] \subseteq statuses /\ filed[j] \subseteq queues
  BY <1>4, <1>5, <1>11
<1> QED BY <1>1, <1>4, <1>8, <1>9, <1>10, <1>12, <1>13, ForgetIndexed

LEMMA ReapRemoveIndexed ==
  ASSUME Undisturbed, Types, Scripted, Indexed, NEW c \in Client, ReapRemove(c)
  PROVE  Indexed'
<1>0. c \in Proc /\ c \notin Slot
  BY SetsAssumption DEF Proc
<1>1. /\ proc[c].pc = "reap" /\ expiring' = expiring \ proc[c].due
      /\ record' = record /\ listed' = listed /\ filed' = filed /\ submitted' = submitted
      /\ proc[c].left = {}
  BY DEF ReapRemove
<1>2. PICK state : Become(c, state) /\ state.pc \in {"idle", "list"}
  BY ReapRemoveShape
<1>3. \A m \in proc[c].due : Cleared(m[1])
  BY <1>1 DEF Indexed, ReapAs
<1>4. ASSUME NEW k \in Job, Finished(k) PROVE Rests(k)
  <2>1. ASSUME NEW d \in Client PROVE ~Holds(d, k)'
    <3>1. ~Holds(d, k) /\ d \in Proc
      BY <1>4 DEF Finished, ClientHolds, Proc
    <3>2. ~HoldsAs(c, state, k)
      BY <1>0, <1>2 DEF HoldsAs
    <3> QED BY <1>0, <1>2, <3>1, <3>2, HoldsMoved
  <2>2. ~ClientHolds(k)'
    BY <2>1 DEF ClientHolds
  <2> QED BY <1>1, <1>4, <2>2 DEF Rests, Finished
<1>5. ASSUME NEW k \in Job, NEW q \in Queue, ~Cleared(k), <<k, q>> \in expiring
      PROVE  <<k, q>> \in expiring'
  BY <1>1, <1>3, <1>5
<1>6. ASSUME NEW k \in Job PROVE Tallied(k)'
  <2>1. Tallied(k)
    BY DEF Indexed
  <2>2. CASE Cleared(k)
    BY <1>1, <2>2 DEF Tallied, Cleared, Exists
  <2>3. CASE ~Cleared(k)
    BY <1>1, <1>5, <2>1, <2>3 DEF Tallied, Cleared, Exists
  <2> QED BY <2>2, <2>3
<1>7. ASSUME NEW k \in Job, Expires(k, record'[k]) PROVE <<k, record'[k].queue>> \in expiring'
  <2>1. <<k, record[k].queue>> \in expiring /\ record[k].status = "completed"
    BY <1>1, <1>7 DEF Indexed, Expires
  <2>2. record[k].queue \in Queue
    BY DEF Types, TypeOK, Record
  <2> QED BY <1>1, <1>5, <2>1, <2>2 DEF Cleared, Exists
<1>8. ASSUME NEW m \in expiring' PROVE Spent(m)'
  <2>1. Spent(m) /\ m[1] \in Job
    BY <1>1 DEF Indexed, Types, TypeOK
  <2> QED BY <1>4, <2>1, SpentRests DEF Spent
<1>9. ReapAs(state)'
  BY <1>2 DEF ReapAs
<1>10. ReadAs(state, record'[state.job])
  BY <1>2 DEF ReadAs
<1> QED BY <1>0, <1>1, <1>2, <1>4, <1>6, <1>7, <1>8, <1>9, <1>10, IndexMoves

\* A purge: what it lists has finished, and what it forgets it has fetched.
LEMMA PurgeIndexed ==
  ASSUME Undisturbed, Types, Scripted, Whereabouts, Staged, Indexed, NEW c \in Client,
         PurgeList(c) \/ \E old \in BOOLEAN : PurgeFetch(c, old)
  PROVE  Indexed'
<1>0. c \in Proc /\ c \notin Slot
  BY SetsAssumption DEF Proc
<1>1. ASSUME UNCHANGED <<store, submitted>>, NEW state, Become(c, state), Formed(state),
             state.pc \in {"idle", "fetch", "forget"}, ReapAs(state)
      PROVE  Indexed'
  <2>1. record' = record /\ index' = index /\ submitted' = submitted
    BY <1>1 DEF store
  <2>2. \A k \in Job : ~HoldsAs(c, state, k)
    BY <1>0, <1>1 DEF HoldsAs
  <2>3. ReadAs(state, record[state.job])
    BY <1>1 DEF ReadAs
  <2> QED BY <1>0, <1>1, <2>1, <2>2, <2>3, IndexKept
<1>2. PICK idle : idle = Idle
  OBVIOUS
<1>3. Formed(idle) /\ idle.pc = "idle" /\ ReapAs(idle)
  BY <1>2, IdleType DEF ReapAs, Idle
<1>4. CASE PurgeList(c)
  <2>1. proc[c].pc = "list" /\ UNCHANGED <<store, submitted>>
    BY <1>4, PurgeListShape
  <2>2. CASE Become(c, Idle)
    BY <1>1, <1>2, <1>3, <2>1, <2>2
  <2>3. ASSUME NEW j \in Job, listed[j] \cap TERMINAL_STATUSES # {},
               Become(c, [Idle EXCEPT !.pc = "fetch", !.job = j])
        PROVE  Indexed'
    <3>1. PICK state : state = [Idle EXCEPT !.pc = "fetch", !.job = j]
      OBVIOUS
    <3>2. state.pc = "fetch" /\ state.job = j
      BY <3>1 DEF Idle
    <3>3. Formed(state)
      <4>1. state \in ProcState
        BY <3>1, IdleType DEF ProcState, PC
      <4> QED BY <3>2, <4>1 DEF Formed, Storing
    <3>4. ReapAs(state)
      BY <2>1, <2>3, <3>2, ListedFinished DEF ReapAs
    <3> QED BY <1>1, <2>1, <2>3, <3>1, <3>2, <3>3, <3>4
  <2> QED BY <1>4, <2>2, <2>3 DEF PurgeList, Return
<1>5. ASSUME NEW old \in BOOLEAN, PurgeFetch(c, old) PROVE Indexed'
  <2>1. proc[c].pc = "fetch" /\ UNCHANGED <<store, submitted>>
    BY <1>5, PurgeFetchShape
  <2>2. CASE Become(c, Idle)
    BY <1>1, <1>2, <1>3, <2>1, <2>2
  <2>3. CASE ~Become(c, Idle)
    <3>1. PICK j \in Job : j = proc[c].job
      BY <1>0, <2>1, OwnerType DEF Owning
    <3>2. PICK job \in Record : job = record[j]
      BY DEF Types, TypeOK
    <3>3. PICK state : state = [proc[c] EXCEPT !.pc = "forget", !.held = job]
      OBVIOUS
    <3>4. Exists(j) /\ Become(c, state)
      BY <1>5, <2>3, <3>1, <3>2, <3>3 DEF PurgeFetch
    <3>5. proc[c] \in ProcState
      BY <1>0, OwnerType
    <3>6. state.pc = "forget" /\ state.job = j /\ state.held = job
      BY <3>1, <3>3, <3>5 DEF ProcState
    <3>7. Formed(state)
      <4>1. state \in ProcState
        BY <3>3, <3>5 DEF ProcState, PC
      <4> QED BY <3>6, <4>1 DEF Formed, Storing
    <3>8. Finished(j)
      BY <2>1, <3>1 DEF Indexed, ReapAs
    <3>9. listed[j] = {job.status} /\ filed[j] = {job.queue}
      BY <3>2, <3>4 DEF Indexed, Tallied, Cleared
    <3>10. ReapAs(state)
      BY <3>6, <3>8, <3>9 DEF ReapAs
    <3> QED BY <1>1, <2>1, <3>4, <3>6, <3>7, <3>10
  <2> QED BY <2>2, <2>3
<1> QED BY <1>4, <1>5

LEMMA PurgeForgetIndexed ==
  ASSUME Undisturbed, Types, Scripted, Staged, Indexed, NEW c \in Client, PurgeForget(c)
  PROVE  Indexed' /\ Staged'
<1>1. /\ proc[c].pc = "forget" /\ Become(c, Idle)
      /\ Forget(proc[c].job, {proc[c].held.queue}, {proc[c].held.status})
      /\ submitted' = submitted
  BY PurgeForgetShape
<1>2. PICK j \in Job : j = proc[c].job
  BY PurgeForgetShape
<1>3. PICK queues, statuses : queues = {proc[c].held.queue} /\ statuses = {proc[c].held.status}
  OBVIOUS
<1>4. Finished(j) /\ listed[j] \subseteq statuses /\ filed[j] \subseteq queues
  BY <1>1, <1>2, <1>3 DEF Indexed, ReapAs
<1>5. PICK idle : idle = Idle
  OBVIOUS
<1>6. idle.pc = "idle"
  BY <1>5 DEF Idle
<1>7. Become(c, idle) /\ Forget(j, queues, statuses)
  BY <1>1, <1>2, <1>3, <1>5
<1> QED BY <1>1, <1>4, <1>6, <1>7, ForgetIndexed

LEMMA MaintainKept ==
  ASSUME Undisturbed, Types, Scripted, Whereabouts, Staged, Indexed, NEW c \in Client, Maintain(c)
  PROVE  Indexed' /\ Staged'
<1>0. c \in Proc /\ c \notin Slot
  BY SetsAssumption DEF Proc
<1>1. ASSUME NEW state, Become(c, state), state.pc \in {"idle", "list", "fetch", "forget"},
             record' = record, pending' = pending, deferred' = deferred
      PROVE  Staged'
  <2>1. \A k \in Job : Queued(k)' => Queued(k)
    BY <1>1 DEF Queued, InList
  <2>2. StageAs(c, state, record[state.job])
    BY <1>0, <1>1, StageIdle
  <2> QED BY <1>0, <1>1, <2>1, <2>2, StageKept
<1>2. ASSUME NEW m \in proc[c].left, ReapForget(c, m) PROVE Indexed' /\ Staged'
  BY <1>2, ReapForgetIndexed
<1>3. CASE ReapRemove(c)
  <2>1. PICK state : Become(c, state) /\ state.pc \in {"idle", "list"}
    BY <1>3, ReapRemoveShape
  <2> QED BY <1>1, <1>3, <2>1, ReapRemoveIndexed, ReapRemoveShape
<1>4. CASE PurgeList(c)
  <2>1. PICK state : Become(c, state) /\ state.pc \in {"idle", "fetch"}
    BY <1>4, PurgeListShape
  <2>2. UNCHANGED store
    BY <1>4, PurgeListShape
  <2> QED BY <1>1, <1>4, <2>1, <2>2, PurgeIndexed DEF store
<1>5. ASSUME NEW old \in BOOLEAN, PurgeFetch(c, old) PROVE Indexed' /\ Staged'
  <2>1. PICK state : Become(c, state) /\ state.pc \in {"idle", "forget"}
    BY <1>5, PurgeFetchShape
  <2>2. UNCHANGED store
    BY <1>5, PurgeFetchShape
  <2> QED BY <1>1, <1>5, <2>1, <2>2, PurgeIndexed DEF store
<1>6. CASE PurgeForget(c)
  BY <1>6, PurgeForgetIndexed
<1> QED BY <1>2, <1>3, <1>4, <1>5, <1>6 DEF Maintain

LEMMA CrashKept ==
  ASSUME Undisturbed, Types, Scripted, Staged, Indexed, NEW p \in Proc, Crash(p)
  PROVE  Indexed' /\ Staged'
<1>1. PICK idle : idle = Idle
  OBVIOUS
<1>2. idle.pc = "idle"
  BY <1>1 DEF Idle
<1>3. Become(p, idle) /\ UNCHANGED <<store, submitted>>
  BY <1>1 DEF Crash, Return
<1>4. StageAs(p, idle, record[idle.job])
  BY <1>2, StageIdle
<1>5. ReadAs(idle, record[idle.job]) /\ \A k \in Job : ~HoldsAs(p, idle, k)
  BY <1>2 DEF ReadAs, HoldsAs
<1>6. record' = record /\ index' = index /\ submitted' = submitted
  BY <1>3 DEF store
<1> QED BY <1>2, <1>3, <1>4, <1>5, <1>6, StageLocal, IndexKept

\* What an event of the environment leaves of a process.
Same(p) == /\ proc'[p].pc = proc[p].pc /\ proc'[p].job = proc[p].job
           /\ proc'[p].push = proc[p].push /\ proc'[p].next = proc[p].next
           /\ proc'[p].old = proc[p].old /\ proc'[p].due = proc[p].due
           /\ proc'[p].left = proc[p].left /\ proc'[p].held.status = proc[p].held.status
           /\ proc'[p].held.queue = proc[p].held.queue
           /\ proc'[p].held.retries = proc[p].held.retries

LEMMA ClockSame ==
  ASSUME Types, NEW j \in Job, RunAtPasses(j), NEW p \in Proc
  PROVE  Same(p)
<1>1. PICK state \in ProcState : state = proc[p]
  BY OwnerType
<1>2. PICK held \in Record : held = state.held
  BY <1>1, OwnerType
<1>3. PICK later : later = [held EXCEPT !.due = TRUE]
  OBVIOUS
<1>4. /\ later.status = held.status /\ later.queue = held.queue
      /\ later.retries = held.retries
  BY <1>3 DEF Record
<1>5. PICK moved : moved = [state EXCEPT !.held = later]
  OBVIOUS
<1>6. /\ moved.pc = state.pc /\ moved.job = state.job /\ moved.push = state.push
      /\ moved.next = state.next /\ moved.old = state.old /\ moved.due = state.due
      /\ moved.left = state.left /\ moved.held = later
  BY <1>5 DEF ProcState
<1>7. proc'[p] = IF state.job = j THEN moved ELSE state
  BY <1>1, <1>2, <1>3, <1>5 DEF RunAtPasses
<1> QED BY <1>1, <1>2, <1>4, <1>6, <1>7 DEF Same

\* An event that stores nothing but a later due, or deletes a job that has completed
\* and whose result expires.
LEMMA EventKept ==
  ASSUME Undisturbed, Types, Scripted, Staged, Indexed, Types',
         \A p \in Proc : Same(p),
         \A k \in Job : \/ /\ record'[k].status = record[k].status
                           /\ record'[k].queue = record[k].queue
                           /\ record'[k].retries = record[k].retries
                        \/ Expires(k, record[k]) /\ record'[k] = Absent,
         pending' = pending,
         \A q \in Queue, k \in Job : deferred'[q][k] = "none" <=> deferred[q][k] = "none",
         index' = index, submitted' = submitted
  PROVE  Indexed' /\ Staged'
<1>1. listed' = listed /\ filed' = filed /\ expiring' = expiring
  BY DEF index
<1>2. Absent.status = "absent" /\ Absent.retries = 0
  BY DEF Absent
<1>3. \A p \in Proc, k \in Job : Holds(p, k)' <=> Holds(p, k)
  BY DEF Holds, Delivered, WillPush, Same
<1>4. ASSUME NEW k \in Job, Expires(k, record[k]) PROVE Finished(k)
  <2>1. PICK m : m = <<k, record[k].queue>>
    OBVIOUS
  <2>2. Spent(m)
    BY <1>4, <2>1 DEF Indexed
  <2> QED BY <2>1, <2>2 DEF Spent
<1>5. ASSUME NEW k \in Job, Finished(k) PROVE Rests(k)
  <2>1. ~ClientHolds(k)'
    BY <1>3, <1>5 DEF Finished, ClientHolds, Proc
  <2>2. record'[k].status \in {record[k].status, "absent"}
    BY <1>2
  <2>3. Finished(k)'
    BY <1>5, <2>1, <2>2 DEF Finished
  <2> QED BY <1>1, <2>2, <2>3 DEF Rests
<1>6. ASSUME NEW p \in Proc, NEW k \in Job, Holds(p, k)
      PROVE  /\ record'[k].status = record[k].status /\ record'[k].queue = record[k].queue
             /\ record'[k].retries = record[k].retries
  BY <1>4, <1>6, FinishedFree
<1>7. ASSUME NEW c \in Client PROVE ReapAs(proc[c])'
  <2>1. c \in Proc
    BY DEF Proc
  <2>2. PICK state : state = proc[c]
    OBVIOUS
  <2>3. Formed(state) /\ state \in ProcState /\ ReapAs(state)
    BY <2>1, <2>2 DEF Types, Formed, Indexed
  <2>4. ReapAs(state)'
    BY <1>5, <2>3, ReapRests
  <2>5. PICK other : other = proc'[c]
    OBVIOUS
  <2>6. /\ other.pc = state.pc /\ other.job = state.job /\ other.due = state.due
        /\ other.left = state.left /\ other.held.status = state.held.status
        /\ other.held.queue = state.held.queue
    BY <2>1, <2>2, <2>5 DEF Same
  <2>7. ReapAs(other)'
    BY <2>4, <2>6 DEF ReapAs
  <2> QED BY <2>5, <2>7 DEF ReapAs, Spent, Finished, Cleared, Exists, ClientHolds, Holds,
                            Delivered, WillPush
<1>8. ASSUME NEW p \in Proc PROVE ReadAs(proc[p], record[proc[p].job])'
  <2>1. ReadAs(proc[p], record[proc[p].job])
    BY DEF Indexed
  <2>2. CASE proc[p].pc = "write"
    <3>1. PICK k \in Job : k = proc[p].job
      BY <2>2, OwnerType DEF Owning
    <3>2. Holds(p, k)
      BY <2>2, <3>1, WriterHolds
    <3> QED BY <1>6, <2>1, <3>1, <3>2 DEF ReadAs, Same
  <2>3. CASE proc[p].pc # "write"
    BY <2>3 DEF ReadAs, Same
  <2> QED BY <2>2, <2>3
<1>9. ASSUME NEW k \in Job PROVE Tallied(k)'
  <2>1. Tallied(k)
    BY DEF Indexed
  <2>2. CASE record'[k].status = record[k].status /\ record'[k].queue = record[k].queue
    BY <1>1, <2>1, <2>2 DEF Tallied, Cleared, Exists
  <2>3. CASE Expires(k, record[k]) /\ record'[k] = Absent
    <3>1. record[k].status = "completed" /\ <<k, record[k].queue>> \in expiring
          /\ record[k].queue \in Queue
      BY <2>3 DEF Expires, Indexed, Types, TypeOK, Record
    <3>2. listed[k] = {"completed"} /\ filed[k] = {record[k].queue}
      BY <2>1, <3>1 DEF Tallied, Cleared, Exists
    <3> QED BY <1>1, <1>2, <2>3, <3>1, <3>2 DEF Tallied, Exists
  <2> QED BY <2>2, <2>3
<1>10. \A k \in Job : Expires(k, record'[k]) => <<k, record'[k].queue>> \in expiring'
  BY <1>1, <1>2 DEF Indexed, Expires
<1>11. ASSUME NEW m \in expiring' PROVE Spent(m)'
  <2>1. Spent(m) /\ m[1] \in Job
    BY <1>1 DEF Indexed, Types, TypeOK
  <2> QED BY <1>5, <2>1, SpentRests DEF Spent
<1>12. Indexed'
  BY <1>7, <1>8, <1>9, <1>10, <1>11 DEF Indexed, Proc
<1>13. ASSUME NEW k \in Job PROVE Counts(k, record'[k])
  BY <1>2, NumbersAssumption DEF Staged, Counts
<1>14. ASSUME NEW k \in Job, Queued(k)' PROVE record'[k].status \in RUNNABLE
  <2>1. Queued(k)
    BY <1>14 DEF Queued, InList
  <2>2. record[k].status \in RUNNABLE /\ ~Expires(k, record[k])
    BY <2>1 DEF Staged, Expires, RUNNABLE
  <2> QED BY <2>2
<1>15. ASSUME NEW p \in Proc PROVE StageAs(p, proc'[p], record'[proc'[p].job])
  <2>1. StageAs(p, proc[p], record[proc[p].job])
    BY DEF Staged
  <2>2. CASE \E k \in Job : Holds(p, k)
    <3>1. PICK k \in Job : Holds(p, k)
      BY <2>2
    <3>2. proc[p].job = k
      BY <3>1 DEF Holds, Delivered, WillPush
    <3>3. /\ record'[k].status = record[k].status /\ record'[k].retries = record[k].retries
      BY <1>6, <3>1
    <3>4. p \in Slot => SlotStage(proc'[p], record'[k])
      BY <2>1, <3>2, <3>3 DEF StageAs, SlotStage, Same
    <3>5. p \in Client => ClientStage(proc'[p], record'[k])
      BY <2>1, <3>2, <3>3 DEF StageAs, ClientStage, Same
    <3> QED BY <3>2, <3>4, <3>5 DEF StageAs, Same
  <2>3. CASE ~\E k \in Job : Holds(p, k)
    <3>1. proc[p].pc \notin {"get", "write"}
      BY <2>3, WriterHolds, OwnerType DEF Owning
    <3>2. p \in Slot => proc[p].pc \notin {"gone", "popped", "claimed", "invoke"}
      BY <2>1, <2>3, OwnerType DEF Holds, Delivered, Owning, StageAs, SlotStage
    <3>3. proc'[p].pc = proc[p].pc
      BY DEF Same
    <3> QED BY <3>1, <3>2, <3>3 DEF StageAs, SlotStage, ClientStage
  <2> QED BY <2>2, <2>3
<1>16. Staged'
  BY <1>13, <1>14, <1>15 DEF Staged, Proc
<1> QED BY <1>12, <1>16

LEMMA ClockKept ==
  ASSUME Undisturbed, Types, Scripted, Staged, Indexed, NEW j \in Job,
         RunAtPasses(j) \/ ResultExpires(j)
  PROVE  Indexed' /\ Staged'
<1>0. Types'
  BY ClockTypes
<1>1. CASE RunAtPasses(j)
  <2>1. /\ pending' = pending /\ index' = index /\ submitted' = submitted
        /\ \A k \in Job : /\ record'[k].status = record[k].status
                          /\ record'[k].queue = record[k].queue
                          /\ k # j => record'[k] = record[k]
        /\ \A q \in Queue, k \in Job : deferred'[q][k] = "none" <=> deferred[q][k] = "none"
    BY <1>1, RunAtPassesShape
  <2>2. PICK old \in Record : old = record[j]
    BY DEF Types, TypeOK
  <2>3. PICK new : new = [old EXCEPT !.due = TRUE]
    OBVIOUS
  <2>4. new.retries = old.retries
    BY <2>3 DEF Record
  <2>5. record'[j] = new
    BY <1>1, <2>2, <2>3 DEF RunAtPasses, Types, TypeOK
  <2>6. \A k \in Job : record'[k].retries = record[k].retries
    BY <2>1, <2>2, <2>4, <2>5
  <2>7. \A p \in Proc : Same(p)
    BY <1>1, ClockSame
  <2> QED BY <1>0, <2>1, <2>6, <2>7, EventKept
<1>2. CASE ResultExpires(j)
  <2>1. /\ record' = [record EXCEPT ![j] = Absent] /\ Expires(j, record[j])
        /\ pending' = pending /\ deferred' = deferred /\ index' = index
        /\ proc' = proc /\ submitted' = submitted
    BY <1>2 DEF ResultExpires
  <2>2. record'[j] = Absent /\ \A k \in Job : k # j => record'[k] = record[k]
    BY <2>1 DEF Types, TypeOK
  <2>3. \A p \in Proc : Same(p)
    BY <2>1 DEF Same
  <2> QED BY <1>0, <2>1, <2>2, <2>3, EventKept
<1> QED BY <1>1, <1>2

LEMMA IndexedHolds ==
  ASSUME Undisturbed
  PROVE  /\ Init => Staged /\ Indexed
         /\ Types /\ Scripted /\ Whereabouts /\ Staged /\ Indexed /\ [Next]_vars
              => Staged' /\ Indexed'
<1>1. ASSUME Init PROVE Staged /\ Indexed
  <2>1. /\ \A k \in Job : record[k].status = "absent" /\ record[k].retries = 0
        /\ \A k \in Job : listed[k] = {} /\ filed[k] = {}
        /\ \A q \in Queue, k \in Job : deferred[q][k] = "none"
        /\ \A p \in Proc : proc[p].pc = "idle"
        /\ expiring = {}
    BY <1>1 DEF Init, Absent, Idle
  <2>2. \A q \in Queue, t \in Tier : pending[q][t] = <<>>
    BY <1>1 DEF Init
  <2>3. \A q \in Queue, t \in Tier : DOMAIN pending[q][t] = {}
    BY <2>2
  <2>4. \A k \in Job : ~Queued(k)
    BY <2>1, <2>3 DEF Queued, InList
  <2>5. \A k \in Job : Counts(k, record[k])
    BY <2>1, NumbersAssumption DEF Counts
  <2>6. \A p \in Proc : StageAs(p, proc[p], record[proc[p].job])
    BY <2>1, StageIdle
  <2>7. \A k \in Job : Tallied(k)
    BY <2>1 DEF Tallied, Cleared, Exists
  <2>8. \A c \in Client : ReapAs(proc[c])
    BY <2>1 DEF ReapAs, Proc
  <2>9. \A p \in Proc : ReadAs(proc[p], record[proc[p].job])
    BY <2>1 DEF ReadAs
  <2>10. \A k \in Job : ~Expires(k, record[k])
    BY <2>1 DEF Expires
  <2>11. Indexed
    BY <2>1, <2>7, <2>8, <2>9, <2>10 DEF Indexed
  <2> QED BY <2>4, <2>5, <2>6, <2>11 DEF Staged
<1>2. ASSUME Types, Scripted, Whereabouts, Staged, Indexed, [Next]_vars
      PROVE  Staged' /\ Indexed'
  <2>0. Alone
    BY DEF Undisturbed
  <2>1. CASE UNCHANGED vars
    <3>1. /\ record' = record /\ pending' = pending /\ deferred' = deferred /\ index' = index
          /\ proc' = proc /\ submitted' = submitted
      BY <2>1 DEF vars, store
    <3>2. \A p \in Proc : Same(p)
      BY <3>1 DEF Same
    <3>3. Types'
      BY <1>2, TypesHold
    <3> QED BY <1>2, <3>1, <3>2, <3>3, EventKept
  <2>2. ASSUME NEW s \in Slot, Dequeue(s) \/ Work(s) PROVE Staged' /\ Indexed'
    BY <1>2, <2>0, <2>2, DequeueStaged, DequeueIndexed, WorkStaged, WorkIndexed
  <2>3. ASSUME NEW p \in Proc, Broker(p) \/ Crash(p) PROVE Staged' /\ Indexed'
    BY <1>2, <2>3, BrokerStaged, BrokerIndexed, CrashKept
  <2>4. ASSUME NEW c \in Client, Maintain(c) \/ Query(c) \/ \E j \in Job : Call(c, j)
        PROVE  Staged' /\ Indexed'
    BY <1>2, <2>4, MaintainKept, ClientStaged, ClientIndexed
  <2>5. ASSUME NEW j \in Job, RunAtPasses(j) \/ ResultExpires(j) PROVE Staged' /\ Indexed'
    BY <1>2, <2>5, ClockKept
  <2>6. CASE Next
    BY <2>2, <2>3, <2>4, <2>5, <2>6 DEF Next
  <2> QED BY <1>2, <2>1, <2>6
<1> QED BY <1>1, <1>2

\* The invariants of this section together.
LEMMA UndisturbedHolds ==
  ASSUME Undisturbed
  PROVE  Spec => [](Types /\ Scripted /\ Whereabouts /\ Staged /\ Indexed)
<1>1. Alone
  BY DEF Undisturbed
<1> QED BY <1>1, TypesHold, ScriptedHolds, WhereaboutsHold, IndexedHolds, PTL DEF Spec

\* Without dependencies and cancels, and without two callers that requeue at once,
\* queue_stats counts every stored job once, under its own status and queue, at every
\* moment: whatever the writers, the purges, the expiries and the calls that crash in
\* the middle of a reap leave behind is an expired result that a later call reaps.
THEOREM StatsAddUp == ASSUME Undisturbed PROVE Spec => []StatsExact
<1>1. ASSUME Types, Indexed PROVE StatsExact
  <2>1. ASSUME NEW queue \in Queue, NEW status \in JobStatus, NEW j \in Job,
               record[j].queue = queue, record[j].status = status
        PROVE  j \in Counted(queue, status)
    <3>1. Tallied(j) /\ Exists(j)
      BY <1>1, <2>1 DEF Indexed, Exists, JobStatus
    <3> QED BY <2>1, <3>1 DEF Tallied, Cleared, Counted
  <2>2. ASSUME NEW queue \in Queue, NEW status \in JobStatus, NEW j \in Counted(queue, status),
               ~(record[j].queue = queue /\ record[j].status = status)
        PROVE  ~Exists(j) /\ status = "completed" /\ <<j, queue>> \in expiring
    <3>1. j \in Job /\ queue \in filed[j] /\ status \in listed[j] /\ Tallied(j)
      BY <1>1 DEF Indexed, Counted
    <3> QED BY <2>2, <3>1 DEF Tallied, Cleared
  <2>3. ASSUME NEW queue \in Queue, NEW status \in JobStatus
        PROVE  LET stored == {j \in Job : record[j].queue = queue /\ record[j].status = status}
               IN  /\ stored \subseteq Counted(queue, status)
                   /\ \A j \in Counted(queue, status) \ stored :
                         ~Exists(j) /\ status = "completed" /\ <<j, queue>> \in expiring
    <3>1. Counted(queue, status) \subseteq Job
      BY DEF Counted
    <3> QED BY <2>1, <2>2, <3>1
  <2> QED BY <2>3 DEF StatsExact
<1>2. Types /\ Scripted /\ Whereabouts /\ Staged /\ Indexed => StatsExact
  BY <1>1
<1> QED BY <1>2, UndisturbedHolds, PTL

-----------------------------------------------------------------------------
(* The refinement: every step is, to each job, a step of JobLifecycle.      *)

\* The slots that execute job j, as Life(j) has them.
Executors(j) == {s \in Slot : Delivered(s, j) /\ record[j].status = "running"}

\* What a step is to job j.
LifeStep(j) == [Life(j)!Next]_(Life(j)!vars)

Lives == \A j \in Job : LifeStep(j)

LEMMA LifeStays ==
  ASSUME NEW j \in Job, record'[j].status = record[j].status,
         record'[j].retries = record[j].retries,
         record[j].status = "running" => \A s \in Slot : Delivered(s, j)' <=> Delivered(s, j)
  PROVE  LifeStep(j)
<1>1. Executors(j)' = Executors(j)
  BY DEF Executors
<1> QED BY <1>1 DEF Life!vars, LifeStep, Executors

\* A step of p that stores nothing in a record, after which p has no other job
\* that is running, and still has the one it had.
LEMMA LifeLocal ==
  ASSUME Types, NEW p \in Proc, NEW state, Become(p, state),
         \A k \in Job : record'[k] = record[k],
         p \in Slot => \A k \in Job : record[k].status = "running" =>
                         (HoldsAs(p, state, k) <=> Holds(p, k))
  PROVE  Lives
<1>1. proc'[p] = state /\ \A r \in Proc \ {p} : proc'[r] = proc[r]
  BY Moved
<1>2. ASSUME NEW k \in Job, record[k].status = "running", NEW s \in Slot
      PROVE  Delivered(s, k)' <=> Delivered(s, k)
  <2>1. s \in Proc /\ s \notin Client
    BY SetsAssumption DEF Proc
  <2>2. CASE s = p
    <3>1. HoldsAs(p, state, k) <=> Holds(p, k)
      BY <1>2, <2>2
    <3> QED BY <1>1, <2>1, <2>2, <3>1 DEF HoldsAs, Holds, Delivered
  <2>3. CASE s # p
    BY <1>1, <2>1, <2>3 DEF Delivered
  <2> QED BY <2>2, <2>3
<1>3. ASSUME NEW k \in Job PROVE LifeStep(k)
  <2>1. record'[k].status = record[k].status /\ record'[k].retries = record[k].retries
    OBVIOUS
  <2> QED BY <1>2, <2>1, LifeStays
<1> QED BY <1>3 DEF Lives

\* A job that is executed is executed by one slot.
LEMMA OneExecutor ==
  ASSUME Types, Scripted, Whereabouts, NEW s \in Slot, NEW k \in Job, Delivered(s, k)
  PROVE  \A r \in Slot : Delivered(r, k) => r = s
<1>1. \A r \in Slot : r \in Proc /\ (Delivered(r, k) => Holds(r, k))
  BY DEF Proc, Holds
<1> QED BY <1>1, OnlyHolder

LEMMA DequeueLives ==
  ASSUME Types, Staged, NEW s \in Slot, Dequeue(s)
  PROVE  Lives
<1>0. s \in Proc
  BY DEF Proc
<1>1. CASE PromoteDeferred(s)
  <2>1. record' = record /\ proc' = proc
    BY <1>1 DEF PromoteDeferred
  <2>2. ASSUME NEW k \in Job PROVE LifeStep(k)
    BY <2>1, LifeStays DEF Delivered
  <2> QED BY <2>2 DEF Lives
<1>2. ASSUME NEW i \in DOMAIN Queues[s], NEW t \in Tier, Pop(s, i, t) PROVE Lives
  <2>1. record' = record /\ proc[s].pc = "idle"
    BY <1>2 DEF Pop
  <2>2. PICK q \in Queue, j \in Job, state \in ProcState :
           /\ Become(s, state) /\ state.pc = "popped" /\ state.job = j
           /\ InList(q, t, j)
           /\ \A r \in Queue, u \in Tier, k \in Job : InList(r, u, k)' => InList(r, u, k)
    BY <1>2, PopIn
  <2>3. record[j].status # "running"
    BY <2>2 DEF Staged, Queued, RUNNABLE
  <2>4. ASSUME NEW k \in Job, record[k].status = "running"
        PROVE  ~HoldsAs(s, state, k) /\ ~Holds(s, k)
    BY <2>1, <2>2, <2>3, <2>4 DEF HoldsAs, Holds, Delivered, WillPush
  <2> QED BY <1>0, <2>1, <2>2, <2>4, LifeLocal
<1> QED BY <1>1, <1>2 DEF Dequeue

LEMMA WorkLives ==
  ASSUME Undisturbed, Types, Scripted, Staged, NEW s \in Slot, Work(s)
  PROVE  Lives
<1>0. s \in Proc /\ s \notin Client /\ Alone /\ Cancels = {}
  BY SetsAssumption DEF Proc, Undisturbed
<1>1. SlotStage(proc[s], record[proc[s].job])
  BY <1>0 DEF Staged, StageAs
<1>2. ASSUME NEW state, Become(s, state), UNCHANGED store, state.job = proc[s].job,
             proc[s].pc \in {"popped", "claimed", "invoke"},
             state.pc \in {"popped", "claimed", "invoke", "get"}
      PROVE  Lives
  <2>1. \A k \in Job : HoldsAs(s, state, k) <=> Holds(s, k)
    BY <1>0, <1>2 DEF HoldsAs, Holds, Delivered, WillPush
  <2> QED BY <1>0, <1>2, <2>1, LifeLocal DEF store
<1>3. CASE Load(s)
  <2>1. /\ proc[s].pc = "popped" /\ UNCHANGED store
        /\ record[proc[s].job].status \in RUNNABLE
    BY <1>1, <1>3, LoadShape DEF SlotStage
  <2>2. PICK state : /\ Become(s, state) /\ state.job = proc[s].job
                     /\ state.pc = "claimed" /\ state.held = record[proc[s].job]
    BY <1>3, <2>1, LoadShape DEF Exists, RUNNABLE
  <2> QED BY <1>2, <2>1, <2>2
<1>4. ~Drop(s)
  BY <1>1, DropShape DEF SlotStage
<1>5. CASE RejectUnknown(s) \/ Succeed(s) \/ MoveToDLQ(s) \/ Fail(s)
  <2>1. proc[s].pc \in {"claimed", "invoke"} /\ UNCHANGED store
    BY <1>5 DEF RejectUnknown, Succeed, MoveToDLQ, Fail, Conclude
  <2>2. PICK state : Become(s, state) /\ state.pc = "get" /\ state.job = proc[s].job
    BY <1>5, ConcludeFields
  <2> QED BY <1>2, <2>1, <2>2
<1>6. CASE CheckCancelled(s)
  <2>1. proc[s].pc = "claimed" /\ UNCHANGED store
    BY <1>6, CheckCancelledShape
  <2>2. PICK j \in Job : j = proc[s].job
    BY <1>0, <2>1, OwnerType DEF Owning
  <2>3. record[j].status # "cancelled"
    BY <1>0 DEF Scripted
  <2>4. PICK state : Become(s, state) /\ state.pc = "get" /\ state.job = proc[s].job
    <3>1. PICK job : job = [proc[s].held EXCEPT !.status = "running"]
      OBVIOUS
    <3>2. PICK state : state = Writing(j, job, FALSE, "invoke")
      OBVIOUS
    <3>3. state.pc = "get" /\ state.job = j
      BY <3>2 DEF Writing, Idle
    <3> QED BY <1>6, <2>2, <2>3, <3>1, <3>2, <3>3 DEF CheckCancelled
  <2> QED BY <1>2, <2>1, <2>4
<1>7. ASSUME NEW due \in BOOLEAN, ScheduleRetry(s, due) PROVE Lives
  <2>1. /\ proc[s].pc = "invoke" /\ UNCHANGED store
    BY <1>7 DEF ScheduleRetry
  <2>2. PICK j \in Job : j = proc[s].job
    BY <1>0, <2>1, OwnerType DEF Owning
  <2>3. PICK state : Become(s, state) /\ state.pc = "get" /\ state.job = proc[s].job
    BY <1>0, <1>7, <2>2, StartFields DEF Alone
  <2> QED BY <1>2, <2>1, <2>3
<1> QED BY <1>3, <1>4, <1>5, <1>6, <1>7 DEF Work

\* What a write does to its own job.
LEMMA WriteLife ==
  ASSUME Undisturbed, Types, Scripted, Whereabouts, Staged, NEW p \in Proc, Write(p),
         NEW j \in Job, NEW job \in Record, NEW state,
         proc[p].pc = "write", j = proc[p].job, job = proc[p].held,
         Become(p, state), record'[j] = job,
         p \in Client => job.status = "pending",
         p \in Slot /\ job.status = "running" => state.pc = "invoke" /\ state.job = j
  PROVE  LifeStep(j)
<1>1. proc'[p] = state /\ \A r \in Proc \ {p} : proc'[r] = proc[r]
  BY Moved
<1>2. StageAs(p, proc[p], record[j])
  BY DEF Staged
<1>3. \A s \in Slot : s \in Proc /\ s \notin Client
  BY SetsAssumption DEF Proc
<1>4. Holds(p, j) /\ \A r \in Proc \ {p} : ~Holds(r, j)
  BY WriterHolds, OnlyHolder
<1>5. \A s \in Slot : s # p => ~Delivered(s, j) /\ ~Delivered(s, j)'
  BY <1>1, <1>3, <1>4 DEF Holds, Delivered
<1>6. Counts(j, record[j])
  BY DEF Staged
<1>7. CASE p \in Client
  <2>1. /\ ClientStage(proc[p], record[j]) /\ job.status = "pending" /\ job.retries = 0
    BY <1>2, <1>7 DEF StageAs, ClientStage
  <2>2. p \notin Slot
    BY <1>3, <1>7
  <2>3. Executors(j) = {} /\ Executors(j)' = {}
    BY <1>5, <2>2 DEF Executors
  <2>4. record[j].status \in {"absent", "pending", "failed", "dead"}
    BY <2>1 DEF ClientStage
  <2>5. Life(j)!Submit \/ Life(j)!Requeue
    BY <2>1, <2>3, <2>4 DEF Life!Submit, Life!Requeue, Executors
  <2> QED BY <2>5 DEF Life!Next, LifeStep
<1>8. CASE p \in Slot
  <2>1. SlotStage(proc[p], record[j]) /\ Delivered(p, j)
    BY <1>2, <1>8 DEF StageAs, Delivered
  <2>2. CASE job.status = "running"
    <3>1. record[j].status \in RUNNABLE /\ job.retries = record[j].retries
      BY <2>1, <2>2 DEF SlotStage
    <3>2. Executors(j) = {}
      BY <3>1 DEF Executors, RUNNABLE
    <3>3. Delivered(p, j)'
      BY <1>1, <1>8, <2>2 DEF Delivered
    <3>4. Executors(j)' = {p}
      BY <1>5, <1>8, <2>2, <3>3 DEF Executors
    <3>5. Life(j)!Take(p)
      BY <2>2, <3>1, <3>2, <3>4 DEF Life!Take, Executors
    <3> QED BY <1>8, <3>5 DEF Life!Next, LifeStep
  <2>3. CASE job.status # "running"
    <3>1. Executors(j)' = {}
      BY <2>3 DEF Executors
    <3>2. record[j].status = "running" => Executors(j) # {}
      BY <1>8, <2>1 DEF Executors
    <3>3. \/ /\ job.status = "retrying" /\ record[j].status = "running"
             /\ record[j].retries < MaxRetries[j] /\ job.retries = record[j].retries + 1
          \/ /\ job.status = "completed" /\ record[j].status = "running"
             /\ job.retries = record[j].retries
          \/ /\ job.status = "failed" /\ j \in Unknown /\ job.retries = record[j].retries
          \/ /\ job.status = (IF j \in DeadLettered THEN "dead" ELSE "failed")
             /\ record[j].status = "running" /\ record[j].retries = MaxRetries[j]
             /\ job.retries = record[j].retries
      BY <2>1, <2>3 DEF SlotStage
    <3>4. Life(j)!Retry \/ Life(j)!Complete \/ Life(j)!Reject \/ Life(j)!GiveUp
      BY <3>1, <3>2, <3>3 DEF Life!Retry, Life!Complete, Life!Reject, Life!GiveUp, Executors
    <3> QED BY <3>4 DEF Life!Next, LifeStep
  <2> QED BY <2>2, <2>3
<1> QED BY <1>7, <1>8 DEF Proc

LEMMA WriteLives ==
  ASSUME Undisturbed, Types, Scripted, Whereabouts, Staged, NEW p \in Proc, Write(p)
  PROVE  Lives
<1>0. Alone /\ Cancels = {} /\ (p \in Slot => p \notin Client)
  BY SetsAssumption DEF Undisturbed
<1>1. PICK j \in Job, job \in Record, state \in ProcState :
         /\ proc[p].pc = "write" /\ j = proc[p].job /\ job = proc[p].held
         /\ Become(p, state)
         /\ record'[j] = job /\ \A k \in Job : k # j => record'[k] = record[k]
         /\ \/ /\ proc[p].push /\ job.status \in {"pending", "retrying"}
               /\ p \in Slot <=> job.status = "retrying"
               /\ state.pc = "idle" /\ state.job = None
            \/ /\ p \in Slot /\ job.status = "running"
               /\ state.pc = "invoke" /\ state.job = j
            \/ /\ p \in Slot /\ job.status = "completed" /\ state.pc = "resolve"
            \/ /\ p \in Slot /\ job.status \in {"failed", "dead"} /\ state.pc = "idle"
            \/ /\ p \in Client /\ job.status = "pending" /\ state.pc = "get" /\ state.job = j
            \/ /\ p \in Client /\ j \in Cancels
  BY <1>0, WriteScript DEF Stores
<1>2. LifeStep(j)
  <2>1. p \in Client => job.status = "pending"
    BY <1>0, <1>1
  <2>2. p \in Slot /\ job.status = "running" => state.pc = "invoke" /\ state.job = j
    BY <1>0, <1>1
  <2> QED BY <1>1, <2>1, <2>2, WriteLife
<1>3. ASSUME NEW k \in Job, k # j PROVE LifeStep(k)
  <2>1. proc'[p] = state /\ \A r \in Proc \ {p} : proc'[r] = proc[r]
    BY <1>1, Moved
  <2>2. ~Delivered(p, k)
    BY <1>1, <1>3 DEF Delivered
  <2>3. p \in Slot => ~Delivered(p, k)'
    BY <1>0, <1>1, <1>3, <2>1 DEF Delivered
  <2>4. \A s \in Slot : Delivered(s, k)' <=> Delivered(s, k)
    BY <2>1, <2>2, <2>3 DEF Delivered, Proc
  <2> QED BY <1>1, <1>3, <2>4, LifeStays
<1> QED BY <1>2, <1>3 DEF Lives

LEMMA BrokerLives ==
  ASSUME Undisturbed, Types, Scripted, Whereabouts, Staged, NEW p \in Proc, Broker(p)
  PROVE  Lives
<1>0. p \in Slot => p \notin Client
  BY SetsAssumption
<1>1. CASE GetOld(p)
  <2>1. PICK state : /\ Become(p, state) /\ state.pc = "write"
                     /\ state.job = proc[p].job /\ state.held = proc[p].held
                     /\ state.push = proc[p].push /\ state.next = proc[p].next
    BY <1>1, GetOldShape
  <2>2. proc[p].pc = "get" /\ UNCHANGED store
    BY <1>1, GetOldShape
  <2>3. p \in Slot => \A k \in Job : HoldsAs(p, state, k) <=> Holds(p, k)
    BY <1>0, <2>1, <2>2 DEF HoldsAs, Holds, Delivered, WillPush
  <2> QED BY <2>1, <2>2, <2>3, LifeLocal DEF store
<1>2. CASE p \in Slot /\ Resolve(p)
  <2>1. PICK state : Become(p, state) /\ state.pc = "idle"
    BY <1>2, ResolveScript
  <2>2. proc[p].pc = "resolve" /\ UNCHANGED store
    BY <1>2 DEF Resolve
  <2>3. \A k \in Job : ~HoldsAs(p, state, k) /\ ~Holds(p, k)
    BY <1>0, <1>2, <2>1, <2>2 DEF HoldsAs, Holds, Delivered, WillPush
  <2> QED BY <2>1, <2>2, <2>3, LifeLocal DEF store
<1> QED BY <1>1, <1>2, NoDependencySteps, WriteLives

\* A step of a client changes no record, or deletes that of a finished job.
LEMMA ForgetLives ==
  ASSUME Types, Scripted, Staged, NEW c \in Client, NEW state, Become(c, state),
         NEW j \in Job, Finished(j), NEW queues, NEW statuses, Forget(j, queues, statuses)
  PROVE  Lives
<1>0. c \in Proc /\ c \notin Slot
  BY SetsAssumption DEF Proc
<1>1. \A s \in Slot : s \in Proc /\ proc'[s] = proc[s]
  BY <1>0, Moved DEF Proc
<1>2. \A s \in Slot, k \in Job : Delivered(s, k)' <=> Delivered(s, k)
  BY <1>1 DEF Delivered
<1>3. record'[j] = Absent /\ \A k \in Job : k # j => record'[k] = record[k]
  BY DEF Forget, Types, TypeOK
<1>4. Absent.status = "absent" /\ Absent.retries = 0
  BY DEF Absent
<1>5. LifeStep(j)
  <2>1. CASE record[j].status = "absent"
    <3>1. record[j].retries = 0
      BY <2>1 DEF Staged, Counts
    <3> QED BY <1>2, <1>3, <1>4, <2>1, <3>1, LifeStays
  <2>2. CASE record[j].status \in Ended
    <3>1. Executors(j) = {} /\ Executors(j)' = {}
      BY <1>3, <1>4, <2>2 DEF Executors, Ended
    <3>2. Life(j)!Purge
      BY <1>3, <1>4, <2>2, <3>1 DEF Life!Purge, Executors, Ended, Life!TERMINAL_STATUSES
    <3> QED BY <3>2 DEF Life!Next, LifeStep
  <2> QED BY <2>1, <2>2 DEF Finished
<1>6. \A k \in Job : k # j => LifeStep(k)
  BY <1>2, <1>3, LifeStays
<1> QED BY <1>5, <1>6 DEF Lives

LEMMA MaintainLives ==
  ASSUME Undisturbed, Types, Scripted, Whereabouts, Staged, Indexed, NEW c \in Client, Maintain(c)
  PROVE  Lives
<1>0. c \in Proc /\ c \notin Slot /\ ReapAs(proc[c])
  BY SetsAssumption DEF Proc, Indexed
<1>1. ASSUME NEW state, Become(c, state), record' = record PROVE Lives
  BY <1>0, <1>1, LifeLocal
<1>2. ASSUME NEW m \in proc[c].left, ReapForget(c, m) PROVE Lives
  <2>1. /\ proc[c].pc = "reap" /\ m[1] \in Job /\ Forget(m[1], {m[2]}, {"completed"})
    BY <1>2, ReapForgetShape
  <2>2. PICK state : Become(c, state)
    BY <1>2, ReapForgetShape
  <2>3. Finished(m[1])
    BY <1>0, <2>1 DEF ReapAs, Spent
  <2> QED BY <2>1, <2>2, <2>3, ForgetLives
<1>3. CASE ReapRemove(c)
  BY <1>1, <1>3, ReapRemoveShape
<1>4. CASE PurgeList(c)
  BY <1>1, <1>4, PurgeListShape DEF store
<1>5. ASSUME NEW old \in BOOLEAN, PurgeFetch(c, old) PROVE Lives
  BY <1>1, <1>5, PurgeFetchShape DEF store
<1>6. CASE PurgeForget(c)
  <2>1. /\ proc[c].pc = "forget" /\ proc[c].job \in Job /\ Become(c, Idle)
        /\ Forget(proc[c].job, {proc[c].held.queue}, {proc[c].held.status})
    BY <1>6, PurgeForgetShape
  <2>2. Finished(proc[c].job)
    BY <1>0, <2>1 DEF ReapAs
  <2> QED BY <2>1, <2>2, ForgetLives
<1> QED BY <1>2, <1>3, <1>4, <1>5, <1>6 DEF Maintain

LEMMA ClientLives ==
  ASSUME Undisturbed, Types, Scripted, NEW c \in Client,
         Query(c) \/ \E j \in Job : Call(c, j)
  PROVE  Lives
<1>0. c \in Proc /\ c \notin Slot /\ Cancels = {}
  BY SetsAssumption DEF Proc, Undisturbed
<1>1. record' = record
  <2>1. ASSUME NEW j \in Job, Call(c, j) PROVE record' = record
    BY <1>0, <2>1 DEF Call, Enqueue, RetryJob, ReplayDeadJob, Called, store
  <2> QED BY <2>1 DEF Query, Reap, Called, store
<1>2. \E state : Become(c, state)
  <2>1. ASSUME NEW j \in Job, Call(c, j) PROVE \E state : Become(c, state)
    BY <1>0, <2>1 DEF Call, Enqueue, RetryJob, ReplayDeadJob
  <2> QED BY <2>1 DEF Query, Reap
<1> QED BY <1>0, <1>1, <1>2, LifeLocal

\* A slot that is lost leaves the job it executes running, and nobody executes it.
LEMMA CrashLives ==
  ASSUME Types, Scripted, Whereabouts, NEW p \in Proc, Crash(p)
  PROVE  Lives
<1>1. Become(p, Idle) /\ record' = record
  BY DEF Crash, Return, store
<1>2. proc'[p].pc = "idle" /\ \A r \in Proc \ {p} : proc'[r] = proc[r]
  BY <1>1, Moved DEF Idle
<1>3. ASSUME NEW k \in Job PROVE LifeStep(k)
  <2>1. \A s \in Slot : Delivered(s, k)' <=> s # p /\ Delivered(s, k)
    BY <1>2 DEF Delivered, Proc
  <2>2. CASE p \in Slot /\ Delivered(p, k) /\ record[k].status = "running"
    <3>1. Executors(k) # {}
      BY <2>2 DEF Executors
    <3>2. Executors(k)' = {}
      BY <2>1, <2>2, OneExecutor DEF Executors
    <3>3. Life(k)!Lose
      BY <1>1, <3>1, <3>2 DEF Life!Lose, Executors
    <3> QED BY <3>3 DEF Life!Next, LifeStep
  <2>3. CASE ~(p \in Slot /\ Delivered(p, k) /\ record[k].status = "running")
    <3>1. record[k].status = "running" => \A s \in Slot : Delivered(s, k)' <=> Delivered(s, k)
      BY <2>1, <2>3
    <3>2. record'[k].status = record[k].status /\ record'[k].retries = record[k].retries
      BY <1>1
    <3> QED BY <3>1, <3>2, LifeStays
  <2> QED BY <2>2, <2>3
<1> QED BY <1>3 DEF Lives

LEMMA ClockLives ==
  ASSUME Types, NEW j \in Job, RunAtPasses(j) \/ ResultExpires(j)
  PROVE  Lives
<1>1. CASE RunAtPasses(j)
  <2>1. \A k \in Job : /\ record'[k].status = record[k].status
                       /\ k # j => record'[k] = record[k]
    BY <1>1, RunAtPassesShape
  <2>2. PICK old \in Record : old = record[j]
    BY DEF Types, TypeOK
  <2>3. PICK new : new = [old EXCEPT !.due = TRUE]
    OBVIOUS
  <2>4. new.retries = old.retries
    BY <2>3 DEF Record
  <2>5. record'[j] = new
    BY <1>1, <2>2, <2>3 DEF RunAtPasses, Types, TypeOK
  <2>6. \A k \in Job : record'[k].retries = record[k].retries
    BY <2>1, <2>2, <2>4, <2>5
  <2>7. \A s \in Slot, k \in Job : Delivered(s, k)' <=> Delivered(s, k)
    BY <1>1, ClockSame DEF Same, Delivered, Proc
  <2> QED BY <2>1, <2>6, <2>7, LifeStays DEF Lives
<1>2. CASE ResultExpires(j)
  <2>1. /\ record' = [record EXCEPT ![j] = Absent] /\ record[j].status = "completed"
        /\ proc' = proc
    BY <1>2 DEF ResultExpires, Expires
  <2>2. record'[j] = Absent /\ \A k \in Job : k # j => record'[k] = record[k]
    BY <2>1 DEF Types, TypeOK
  <2>3. Absent.status = "absent" /\ Absent.retries = 0
    BY DEF Absent
  <2>4. \A s \in Slot, k \in Job : Delivered(s, k)' <=> Delivered(s, k)
    BY <2>1 DEF Delivered
  <2>5. LifeStep(j)
    <3>1. Executors(j) = {} /\ Executors(j)' = {}
      BY <2>1, <2>2, <2>3 DEF Executors
    <3>2. Life(j)!Purge
      BY <2>1, <2>2, <2>3, <3>1 DEF Life!Purge, Executors, Life!TERMINAL_STATUSES
    <3> QED BY <3>2 DEF Life!Next, LifeStep
  <2>6. \A k \in Job : k # j => LifeStep(k)
    BY <2>2, <2>4, LifeStays
  <2> QED BY <2>5, <2>6 DEF Lives
<1> QED BY <1>1, <1>2

LEMMA LifeStepNext ==
  ASSUME Undisturbed, Types, Scripted, Whereabouts, Staged, Indexed, [Next]_vars
  PROVE  Lives
<1>1. CASE UNCHANGED vars
  <2>1. record' = record /\ proc' = proc
    BY <1>1 DEF vars, store
  <2> QED BY <2>1, LifeStays DEF Lives, Delivered
<1>2. ASSUME NEW s \in Slot, Dequeue(s) \/ Work(s) PROVE Lives
  BY <1>2, DequeueLives, WorkLives
<1>3. ASSUME NEW p \in Proc, Broker(p) \/ Crash(p) PROVE Lives
  BY <1>3, BrokerLives, CrashLives
<1>4. ASSUME NEW c \in Client, Maintain(c) \/ Query(c) \/ \E j \in Job : Call(c, j)
      PROVE  Lives
  BY <1>4, MaintainLives, ClientLives
<1>5. ASSUME NEW j \in Job, RunAtPasses(j) \/ ResultExpires(j) PROVE Lives
  BY <1>5, ClockLives
<1>6. CASE Next
  BY <1>2, <1>3, <1>4, <1>5, <1>6 DEF Next
<1> QED BY <1>1, <1>6

LEMMA LifeInit == Init => \A j \in Job : Life(j)!Init
<1> SUFFICES ASSUME Init, NEW j \in Job PROVE Life(j)!Init
  OBVIOUS
<1>1. record[j].status = "absent" /\ record[j].retries = 0
  BY DEF Init, Absent
<1> QED BY <1>1 DEF Life!Init

\* Without dependencies and cancels, and without two callers that requeue at once,
\* every job lives as JobLifecycle promises, although a claim is no more than an id
\* popped off a list and a write replaces the whole record: every round trip of a
\* worker or a client, every crash, expiry and purge is to each job a step of its
\* life cycle, or none.
THEOREM Implements == ASSUME Undisturbed PROVE Spec => ImplementsLifecycle
<1>1. Types /\ Scripted /\ Whereabouts /\ Staged /\ Indexed /\ [Next]_vars
        => [\A j \in Job : [Life(j)!Next]_(Life(j)!vars)]_vars
  BY LifeStepNext DEF Lives, LifeStep
<1> QED BY <1>1, LifeInit, UndisturbedHolds, PTL DEF Spec, ImplementsLifecycle

\* Under the same conditions a purge deletes nothing that has work left to do, although
\* it decides on what it has listed and fetched some round trips ago: what a step
\* deletes had reached the end of its life.
THEOREM PurgesSpareQueued == ASSUME Undisturbed PROVE Spec => PurgeSparesQueued
<1>1. ASSUME Lives, NEW j \in Job, Exists(j), ~Exists(j)'
      PROVE  record[j].status \in TERMINAL_STATUSES
  <2>1. LifeStep(j) /\ record[j].status # "absent" /\ record'[j].status = "absent"
    BY <1>1 DEF Lives, Exists
  <2>2. Life(j)!Next
    BY <2>1 DEF LifeStep, Life!vars
  <2>3. Life(j)!Purge
    BY <2>1, <2>2 DEF Life!Next, Life!Submit, Life!Release, Life!Take, Life!Complete,
       Life!Retry, Life!GiveUp, Life!Reject, Life!Cancel, Life!Requeue, Life!Lose
  <2> QED BY <2>3 DEF Life!Purge, Life!TERMINAL_STATUSES, TERMINAL_STATUSES
<1>2. Types /\ Scripted /\ Whereabouts /\ Staged /\ Indexed /\ [Next]_vars
        => [\A c \in Client, j \in Job :
              proc[c].pc = "forget" /\ proc'[c].pc = "idle" /\ Exists(j) /\ ~Exists(j)'
                => record[j].status \in TERMINAL_STATUSES]_vars
  BY <1>1, LifeStepNext
<1> QED BY <1>2, UndisturbedHolds, PTL DEF Spec, PurgeSparesQueued
===============================================================================
