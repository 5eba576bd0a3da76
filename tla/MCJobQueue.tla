----------------------------- MODULE MCJobQueue -----------------------------
(* Instances of JobQueue for TLC. *)
EXTENDS JobQueue, TLC

CONSTANTS b1, b2

\* b1 is one ASCII character, b2 one character of two bytes.
MCSize  == [b \in Batch |-> IF b = b1 THEN 1 ELSE 2]
MCWidth == [b \in Batch |-> IF b = b1 THEN 1 ELSE 2]

MCBody(exit, code, canceled) ==
  [exitCode |-> exit, errorCode |-> code, errorMessage |-> FALSE,
   canceled |-> canceled]

\* A clean exit, a failure, and a report that claims to have been canceled.
MCReport == {MCBody("zero", "none", FALSE), MCBody("nonzero", "none", FALSE),
             MCBody("null", "CANCELED", TRUE), MCBody("zero", "none", TRUE)}

\* The ids of jobs, workers and users are interchangeable.
Symmetry == Permutations(Job) \cup Permutations(Worker) \cup Permutations(User)
=============================================================================
