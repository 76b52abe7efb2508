-------------------------- MODULE MCPlanningJournal --------------------------
(* A small instance of PlanningJournal for TLC. *)
EXTENDS PlanningJournal, TLC

MCSymmetry == Permutations(Hooks)
=============================================================================
