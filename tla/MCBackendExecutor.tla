------------------------ MODULE MCBackendExecutor ------------------------
(* A small instance of BackendExecutor for TLC. *)
EXTENDS BackendExecutor

\* A stopped executor drains, and the final drain (shutdownAll) is announced, in
\* the end, and only when no thread is left.
ExecutorsDrain ==
  /\ []FinalDrainWaitsForThreads
  /\ ShutdownDrains
  /\ FinalDrainCompletes
=============================================================================
