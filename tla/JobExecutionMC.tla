---------------------------- MODULE JobExecutionMC ----------------------------
(* A small instance of JobExecution. *)
EXTENDS JobExecution

CONSTANTS a, b, c, d    \* jobs

\* a backs off, is capped at once and overflows on its second retry; b is dead-lettered
\* and d fails, at once; nobody knows the task of c.
Retry == [j \in Job |-> IF j = a THEN 2 ELSE 0]
Delay == [j \in Job |-> IF j = a THEN 2 ELSE 0]
Limit == [j \in Job |-> 1]
===============================================================================
