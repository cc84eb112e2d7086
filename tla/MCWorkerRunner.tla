--------------------------- MODULE MCWorkerRunner ---------------------------
(* The worker runner with one attempt the scheduler may lease. *)
EXTENDS WorkerRunner

CONSTANT a1

=============================================================================
