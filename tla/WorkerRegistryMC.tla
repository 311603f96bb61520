--------------------------- MODULE WorkerRegistryMC ---------------------------
(* A small instance of WorkerRegistry. *)
EXTENDS WorkerRegistry
===============================================================================
