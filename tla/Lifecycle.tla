------------------------------ MODULE Lifecycle ------------------------------
(***************************************************************************)
(* What the chat may see of a change: proposed, worked on in the           *)
(* background when the user asked for it, done, and gone.  Execution, with *)
(* the gateway up, implements it: see ExecutionProperties.                 *)
(***************************************************************************)

VARIABLE change     \* where the change is, and what is done in the background

Places == {"none", "open", "armed", "running", "done"}

InBackground == change.at \in {"armed", "running"}

Init == change = [at |-> "none", job |-> "none"] \/ change = [at |-> "open", job |-> "none"]

\* A new change may follow one that is done.
Propose ==
    /\ change.at \in {"none", "done"}
    /\ change' = [at |-> "open", job |-> "none"]

\* cs-work; planning is not queued, and a change that is done is not, until
\* the chat, with new notes or tasks, has opened it again.
Queue ==
    /\ change.at = "open"
    /\ change' = [at |-> "armed", job |-> "work"]

\* Task after task, artifact after artifact, and what failed again.
Start == change.at = "armed" /\ change' = [change EXCEPT !.at = "running"]
Rearm == change.at = "running" /\ change' = [change EXCEPT !.at = "armed"]

\* Done, blocked, paused, to be planned, or cancelled: the background work
\* ends, it never goes over from one job to another.
Settle ==
    /\ InBackground
    /\ \E at \in {"none", "open", "done"} : change' = [at |-> at, job |-> "none"]

\* Planning in the chat, or a look at the tasks.
Reconsider ==
    /\ change.at \in {"open", "done"}
    /\ \E at \in {"open", "done"} : change' = [at |-> at, job |-> "none"]

\* cs-cancel and cs-archive of a change that rests.
Discard ==
    /\ change.at \in {"open", "done"}
    /\ change' = [at |-> "none", job |-> "none"]

Next == Propose \/ Queue \/ Start \/ Rearm \/ Settle \/ Reconsider \/ Discard

\* A task that runs comes to an end.
Fairness == WF_change(Rearm \/ (change.at = "running" /\ Settle))

Spec == Init /\ [][Next]_change /\ Fairness
=============================================================================
