----------------------------- MODULE MCJobQueue -----------------------------
(* Instances of JobQueue for TLC. *)
EXTENDS JobQueue, TLC

\* Workers are interchangeable, and so are jobs when all have a handler
WorkerSymmetry == Permutations(Workers)
FullSymmetry == Permutations(Workers) \cup Permutations(Jobs)

=============================================================================
