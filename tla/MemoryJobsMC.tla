----------------------------- MODULE MemoryJobsMC -----------------------------
(* A small instance of MemoryJobs. *)
EXTENDS MemoryJobs, TLC

CONSTANTS a, b, c, d    \* jobs

\* c needs a and b; a may retry once, b is dead-lettered and nobody knows the
\* task of d.
Chain == [j \in Job |-> IF j = c THEN {a, b} ELSE {}]
Retries == [j \in Job |-> IF j = a THEN 1 ELSE 0]

\* The others tie on priority and enqueued_at, c comes before them.
Order == [j \in Job |-> IF j = c THEN 0 ELSE 1]

\* One worker serves the dead letter queue as well.
HomeAndDLQ == [s \in Slot |-> Queue]

Symmetry == Permutations(Slot)
===============================================================================
