--------------------------- MODULE MCProgressFeed ---------------------------
(* A small instance of ProgressFeed for TLC. *)
EXTENDS ProgressFeed
=============================================================================
