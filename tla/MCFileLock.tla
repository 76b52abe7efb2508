----------------------------- MODULE MCFileLock -----------------------------
(* Two gateways that share a lock file; one of them makes two calls.       *)
EXTENDS FileLock

CONSTANTS a1, a2, b1, a, b

MCHome == [c \in {a1, a2, b1} |-> IF c = b1 THEN b ELSE a]
=============================================================================
