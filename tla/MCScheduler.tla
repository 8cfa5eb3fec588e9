----------------------------- MODULE MCScheduler -----------------------------
(* Instances of Scheduler for TLC. *)
EXTENDS Scheduler, TLC

\* The slots of the instance are as far apart as NoSlotSkipped needs them
ASSUME InstanceAssumption == SlotsApart

Symmetry == Permutations(Articles)
=============================================================================
