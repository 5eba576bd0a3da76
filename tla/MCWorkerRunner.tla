--------------------------- MODULE MCWorkerRunner ---------------------------
(* Instances of WorkerRunner for TLC. *)
EXTENDS WorkerRunner, TLC

CONSTANTS b1, b2

\* Two batches of one ASCII character each.
MCSize  == [b \in Batch |-> 1]
MCWidth == [b \in Batch |-> 1]

MCReport == RunnerReport

Symmetry == Permutations(Worker) \cup Permutations(Job) \cup Permutations(Batch)
=============================================================================
