------------------------ MODULE MCJobQueueRefinement ------------------------
(* Instances of JobQueueRefinement for TLC. *)
EXTENDS JobQueueRefinement
=============================================================================
