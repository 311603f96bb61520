------------------------------ MODULE SQLJobsMC ------------------------------
(* Small instances of SQLJobs. *)
EXTENDS SQLJobs, TLC

CONSTANTS a, b, c       \* jobs

\* c needs a and b; a may retry once and b ends in its dead letter queue, so
\* that the dependencies finish at different times and in different ways.
Chain == [j \in Job |-> IF j = c THEN Job \ {c} ELSE {}]
Retries == [j \in Job |-> IF j = a THEN 1 ELSE 0]
NoRetries == [j \in Job |-> 0]

\* a and b tie on priority and enqueued_at, c comes after them.
Order == [j \in Job |-> IF j = c THEN 2 ELSE 1]

\* Workers that serve only the job's own queue, or the dead letter queue too.
Home == [s \in Slot |-> {"home"}]
HomeAndDLQ == [s \in Slot |-> Queue]

\* Slots are interchangeable, and so are clients.
Symmetry == Permutations(Slot) \cup Permutations(Client)
===============================================================================
