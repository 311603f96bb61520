----------------------------- MODULE CronFleetMC -----------------------------
(* Small instances of CronFleet. *)
EXTENDS CronFleet, TLC

CONSTANTS w1, w2, c1, c2

\* The occurrences go on after MaxTime, so that a schedule always has a next one.
OneCron == [c \in Cron |-> {2, 5, 8}]
\* Two crons of different periods that are due together at 2.
TwoCrons == [c \in Cron |-> IF c = c1 THEN {2, 4, 6} ELSE {2, 5, 8}]

\* One clock ahead of the broker's, one behind.
Skew == [w \in Worker |-> IF w = w1 THEN 1 ELSE -1]
===============================================================================
