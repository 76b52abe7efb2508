----------------------------- MODULE MCRollback -----------------------------
(* A small instance of Rollback for TLC. *)
EXTENDS Rollback, TLC

MCSymmetry == Permutations(Names) \cup Permutations(Files)
=============================================================================
