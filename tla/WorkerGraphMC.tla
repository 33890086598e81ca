----------------------------- MODULE WorkerGraphMC -----------------------------
(* Values of the constants of WorkerGraph for TLC. *)
EXTENDS WorkerGraph

\* The two batches emitSkeletonMutations returns, and a short one.
MCBatches == {<<"foundation", "copy", "polish">>,
              <<"foundation", "photo", "copy", "polish">>}
===============================================================================
