---------------------------- MODULE MCStateStore ----------------------------
(* Requests, channels and repositories are interchangeable.                *)
EXTENDS StateStore, TLC

MCSymmetry == Permutations(Calls) \cup Permutations(Channels) \cup Permutations(Repos)
=============================================================================
