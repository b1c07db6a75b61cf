-------------------------- MODULE MCWorkerSupervisor --------------------------
(* One supervisor, two activations, late reports.                             *)
EXTENDS WorkerSupervisor
=============================================================================
