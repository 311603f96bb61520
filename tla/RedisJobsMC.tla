----------------------------- MODULE RedisJobsMC -----------------------------
(* Small instances of RedisJobs. *)
EXTENDS RedisJobs, TLC

CONSTANTS a, b       \* jobs

\* Two independent jobs, or b waiting for a.
Independent == [j \in Job |-> {}]
Chain == [j \in Job |-> IF j = b THEN {a} ELSE {}]
Retries == [j \in Job |-> IF j = a THEN 1 ELSE 0]
NoRetries == [j \in Job |-> 0]
\* a is urgent (tier 10), b is not (tier 0).
Urgent == [j \in Job |-> IF j = a THEN 6 ELSE 0]
Plain == [j \in Job |-> 0]

Home == [s \in Slot |-> <<"home">>]
HomeAndDLQ == [s \in Slot |-> <<"home", "dlq">>]
===============================================================================
