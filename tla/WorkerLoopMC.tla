---------------------------- MODULE WorkerLoopMC ----------------------------
(* Small instances of WorkerLoop: more jobs than slots. *)
EXTENDS WorkerLoop, TLC

\* No symmetry: the liveness properties name jobs.
===============================================================================
