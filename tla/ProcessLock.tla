---------------------------- MODULE ProcessLock ----------------------------
(***************************************************************************)
(* What withFileLock (state/locks.ts) promises to the callers of one       *)
(* gateway process: at most one of them runs its action at a time.  The    *)
(* action ends by itself or with the process.  FileLock implements this    *)
(* specification; a program with one process per state directory needs no  *)
(* more.                                                                   *)
(***************************************************************************)
CONSTANTS Processes, Callers, Home

VARIABLE holders    \* the callers of each process whose action runs

Init == holders = [p \in Processes |-> {}]

Acquire(c) ==
    /\ holders[Home[c]] = {}
    /\ holders' = [holders EXCEPT ![Home[c]] = {c}]

Release(c) ==
    /\ holders[Home[c]] = {c}
    /\ holders' = [holders EXCEPT ![Home[c]] = {}]

Next == \E c \in Callers : Acquire(c) \/ Release(c)

Spec == Init /\ [][Next]_holders
=============================================================================
