------------------------------ MODULE FileLock ------------------------------
(***************************************************************************)
(* The lock file of state/locks.ts.  Callers of one process wait for each  *)
(* other on a chain of promises; processes exclude each other by creating  *)
(* the file exclusively.  A file that is older than the stale time is      *)
(* taken for abandoned and removed, which happens in two steps: judge it,  *)
(* remove whatever is there by then.                                       *)
(*                                                                         *)
(* A file carries the token of one call; the caller stands for it, for a   *)
(* caller has one call at a time and its file of an earlier call is gone   *)
(* when a later call creates one.  Time is the flag "stale": a file that   *)
(* nobody works under becomes stale sooner or later, one that is worked    *)
(* under only by a fault.                                                  *)
(***************************************************************************)
EXTENDS Naturals

CONSTANTS
    Processes,      \* gateways that share the state directory
    Callers,        \* concurrent calls of withFileLock for one lock path
    Home,           \* Home[c]: the process of a caller
    Retries,        \* FileLockOptions.retries
    Faults,         \* faults that may happen: "crash", "write", "slow"
    MaxFaults       \* bound: faults of a behaviour

ASSUME HomeAssumption == Home \in [Callers -> Processes]
ASSUME RetriesAssumption == Retries \in Nat
ASSUME FaultsAssumption ==
    Faults \subseteq {"crash", "write", "slow"} /\ MaxFaults \in Nat

VARIABLES
    pc,             \* where each call is
    ahead,          \* the calls whose promises a call still waits for
    attempt,        \* the calls' counter of acquireLockHandle
    file,           \* the lock file, or NoFile
    faults,         \* faults so far
    robbed          \* history: a lock file was removed under its holder

vars == <<pc, ahead, attempt, file, faults, robbed>>

NoFile == [by |-> "nobody"]
Files == [by : Callers, written : BOOLEAN, stale : BOOLEAN]

\* Steps of a call that created the file and has not given it up.
InHand == {"write", "hold", "read", "unlink"}
Pcs == {"idle", "queued", "open", "check", "stat", "break"} \cup InHand

TypeOK ==
    /\ pc \in [Callers -> Pcs]
    /\ ahead \in [Callers -> SUBSET Callers]
    /\ attempt \in [Callers -> 0..Retries]
    /\ file \in Files \cup {NoFile}
    /\ faults \in 0..MaxFaults
    /\ robbed \in BOOLEAN

Init ==
    /\ pc = [c \in Callers |-> "idle"]
    /\ ahead = [c \in Callers |-> {}]
    /\ attempt = [c \in Callers |-> 0]
    /\ file = NoFile
    /\ faults = 0
    /\ robbed = FALSE

-----------------------------------------------------------------------------
(* Helpers.                                                                *)

Exists == file # NoFile
Mine(c) == Exists /\ file.by = c
Goes(c, to) == pc' = [pc EXCEPT ![c] = to]

\* The calls of c's process that have not resolved their promise.
Before(c) == {d \in Callers : Home[d] = Home[c] /\ pc[d] # "idle"}

\* Fault: the promise is resolved only when the lock file was given up.
ResolvedOnUnlink(c) ==
    [d \in Callers |-> IF pc[c] = "unlink" THEN ahead[d] \ {c} ELSE ahead[d]]

\* releaseLock(): nobody waits for c any more.
Resolved(c) == [d \in Callers |-> ahead[d] \ {c}]

\* The call is over, with a result or an error.
Leaves(c) ==
    /\ Goes(c, "idle")
    /\ ahead' = Resolved(c)
    /\ attempt' = [attempt EXCEPT ![c] = 0]

\* removeIfExists(lockPath), whatever the path names by now.
Removes(c) ==
    /\ file' = NoFile
    /\ robbed' = (robbed \/ (Exists /\ file.by # c /\ pc[file.by] \in InHand))

\* Fault: one attempt too many.
GivesUpLate(c) == attempt[c] > Retries

GivesUp(c) == attempt[c] = Retries

\* The lock is not free and not stale: wait and try again, or give up.
TriesAgain(c) ==
    \/ /\ ~GivesUp(c)
       /\ attempt' = [attempt EXCEPT ![c] = @ + 1]
       /\ Goes(c, "open")
       /\ UNCHANGED ahead
    \/ /\ GivesUp(c)
       /\ Leaves(c)

-----------------------------------------------------------------------------
(* A call of withFileLock.                                                 *)

Enter(c) ==
    /\ pc[c] = "idle"
    /\ Goes(c, "queued")
    /\ ahead' = [ahead EXCEPT ![c] = Before(c)]
    /\ UNCHANGED <<attempt, file, faults, robbed>>

\* Fault: the chain forgets a call as soon as its turn has come.
NobodyQueuedAhead(c) == \A d \in ahead[c] : pc[d] # "queued"

NobodyAhead(c) == ahead[c] = {}

\* await previous
Proceed(c) ==
    /\ pc[c] = "queued"
    /\ NobodyAhead(c)
    /\ Goes(c, "open")
    /\ UNCHANGED <<ahead, attempt, file, faults, robbed>>

\* Fault: open(lockPath, "w").
CanTruncate == TRUE

\* The flag "x": creating the file fails with EEXIST when it is there.
CanCreate == ~Exists

\* open(lockPath, "wx")
Open(c) ==
    /\ pc[c] = "open"
    /\ IF CanCreate
       THEN Goes(c, "write") /\ file' = [by |-> c, written |-> FALSE, stale |-> FALSE]
       ELSE Goes(c, "check") /\ UNCHANGED file
    /\ UNCHANGED <<ahead, attempt, faults, robbed>>

\* handle.writeFile: token and time.  The handle may be of a file that
\* another process has removed.
Write(c) ==
    /\ pc[c] = "write"
    /\ Goes(c, "hold")
    /\ file' = IF Mine(c) THEN [by |-> c, written |-> TRUE, stale |-> FALSE] ELSE file
    /\ UNCHANGED <<ahead, attempt, faults, robbed>>

\* isLockStale by the content of the file.
Check(c) ==
    /\ pc[c] = "check"
    /\ \/ /\ ~(Exists /\ file.written)
          /\ Goes(c, "stat")
          /\ UNCHANGED <<ahead, attempt>>
       \/ /\ Exists /\ file.written /\ file.stale
          /\ Goes(c, "break")
          /\ UNCHANGED <<ahead, attempt>>
       \/ /\ Exists /\ file.written /\ ~file.stale
          /\ TriesAgain(c)
    /\ UNCHANGED <<file, faults, robbed>>

\* isLockStale by the time of modification, when there is no content.
Stat(c) ==
    /\ pc[c] = "stat"
    /\ \/ /\ Exists /\ file.stale
          /\ Goes(c, "break")
          /\ UNCHANGED <<ahead, attempt>>
       \/ /\ ~(Exists /\ file.stale)
          /\ TriesAgain(c)
    /\ UNCHANGED <<file, faults, robbed>>

\* The stale lock is removed; that is not counted as an attempt.
Break(c) ==
    /\ pc[c] = "break"
    /\ Removes(c)
    /\ Goes(c, "open")
    /\ UNCHANGED <<ahead, attempt, faults>>

\* The action ends, with a result or an error.
Done(c) ==
    /\ pc[c] = "hold"
    /\ Goes(c, "read")
    /\ UNCHANGED <<ahead, attempt, file, faults, robbed>>

\* releaseLockFile: is it still this call's file?
ReadToken(c) ==
    /\ pc[c] = "read"
    /\ IF Mine(c) /\ file.written
       THEN Goes(c, "unlink") /\ UNCHANGED <<ahead, attempt>>
       ELSE Leaves(c)
    /\ UNCHANGED <<file, faults, robbed>>

Unlink(c) ==
    /\ pc[c] = "unlink"
    /\ Removes(c)
    /\ Leaves(c)
    /\ UNCHANGED faults

Step(c) ==
    \/ Proceed(c) \/ Open(c) \/ Write(c) \/ Check(c) \/ Stat(c) \/ Break(c)
    \/ Done(c) \/ ReadToken(c) \/ Unlink(c)

-----------------------------------------------------------------------------
(* Faults and time.                                                        *)

Fault(kind) == kind \in Faults /\ faults < MaxFaults /\ faults' = faults + 1

\* The process dies and starts again; its lock file stays.
Crash(p) ==
    /\ Fault("crash")
    /\ pc' = [c \in Callers |-> IF Home[c] = p THEN "idle" ELSE pc[c]]
    /\ ahead' = [c \in Callers |-> IF Home[c] = p THEN {} ELSE ahead[c]]
    /\ attempt' = [c \in Callers |-> IF Home[c] = p THEN 0 ELSE attempt[c]]
    /\ UNCHANGED <<file, robbed>>

\* Writing the token fails: the error goes to the caller, the file stays.
WriteFails(c) ==
    /\ Fault("write")
    /\ pc[c] = "write"
    /\ Leaves(c)
    /\ UNCHANGED <<file, robbed>>

\* The stale time passes.
Ages ==
    /\ Exists /\ ~file.stale
    /\ IF pc[file.by] \in InHand THEN Fault("slow") ELSE UNCHANGED faults
    /\ file' = [file EXCEPT !.stale = TRUE]
    /\ UNCHANGED <<pc, ahead, attempt, robbed>>

Next ==
    \/ \E c \in Callers : Enter(c) \/ Step(c) \/ WriteFails(c)
    \/ \E p \in Processes : Crash(p)
    \/ Ages

Spec == Init /\ [][Next]_vars

\* Promises, timers and file operations of a running process are served.
\* Nobody has to call, and no lock has to become stale.
FairSpec == Spec /\ \A c \in Callers : WF_vars(Step(c))

-----------------------------------------------------------------------------
(* Properties.                                                             *)

Holders == {c \in Callers : pc[c] = "hold"}

\* Two actions run at the same time, in one process or in two, only after a
\* lock was removed under the caller that held it: creating the file
\* exclusively, giving it up and waiting on the chain of promises are sound,
\* whatever crashes and failed writes leave behind.
ExclusiveUnlessRobbed == ~robbed => \A c, d \in Holders : c = d

\* The lock of the test "withFileLock blocks competing processes on the same
\* lock file": no two actions run at the same time.
Exclusive == \A c, d \in Holders : c = d

\* Every call comes back, with the lock taken and given up or with an error,
\* unless its process dies.
CallsReturn == \A c \in Callers : pc[c] # "idle" ~> pc[c] = "idle"

PL == INSTANCE ProcessLock
        WITH holders <- [p \in Processes |-> {c \in Holders : Home[c] = p}]

\* For the callers of one process the lock is a lock, also when locks become
\* stale under their holders, writes fail and other processes break locks.
ImplementsProcessLock == PL!Spec
=============================================================================
