---------------------------- MODULE ProjectRecord ----------------------------
(***************************************************************************)
(* The project record that ClawSpec keeps for one chat channel (the        *)
(* `ProjectState` of src/types.ts, stored in state.json) and every pure    *)
(* update the plugin applies to it.                                        *)
(*                                                                         *)
(* The program only ever changes the record through                        *)
(* ProjectStateStore.updateProject, whose callback receives the record as  *)
(* it is when the file lock is granted.  Each operator of the second part  *)
(* of this module is one of those callbacks: it maps the current record p  *)
(* to the next one.  The modules that describe the watcher, the manager    *)
(* and the chat commands say when the callbacks run.  A definition whose   *)
(* comment begins with "Fault" is a wrong variant of the one after it: the *)
(* properties are tested against it.                                       *)
(*                                                                         *)
(* Kept of the record: what guards test and what the callbacks change.     *)
(* `change` says whether changeName is set, `dirty` is                     *)
(* planningJournal.dirty, `late` says that planningJournal.lastEntryAt is  *)
(* later than execution.startedAt, `empty` that the recorded taskCounts    *)
(* have remaining = 0, and `acpFailure` that the recorded failure texts    *)
(* match isRecoverableAcpFailure.  Names, summaries, timestamps and        *)
(* notification keys are left out.                                         *)
(***************************************************************************)
EXTENDS Naturals

CONSTANTS
    Sessions,       \* keys createWorkerSessionKey can produce
    NoSession,      \* execution.sessionKey is undefined
    Artifacts,      \* number of planning artifacts of the OpenSpec schema
    MaxRestart      \* MAX_WORKER_RESTART_ATTEMPTS

ASSUME NoSessionAssumption == NoSession \notin Sessions
ASSUME ArtifactsAssumption == Artifacts \in Nat \ {0}
ASSUME MaxRestartAssumption == MaxRestart \in Nat

Statuses == {"idle", "ready", "planning", "armed", "running", "paused",
             "blocked", "done", "archived"}

Phases == {"proposal", "planning_sync", "tasks", "implementing",
           "validating", "cancelling", "archiving"}

Actions == {"plan", "work"}

\* The execution block: action, armed or running, the ACP session it uses,
\* restartCount, and currentArtifact (0 for none).
Executions == [action : Actions, state : {"armed", "running"},
               sess : Sessions, restarts : 0..MaxRestart,
               artifact : 0..Artifacts]

NoExec == [action |-> "none", state |-> "none", sess |-> NoSession,
           restarts |-> 0, artifact |-> 0]

Projects == [change : BOOLEAN, status : Statuses, phase : Phases,
             pause : BOOLEAN, cancel : BOOLEAN,
             dirty : BOOLEAN, late : BOOLEAN, empty : BOOLEAN,
             acpFailure : BOOLEAN, exec : Executions \cup {NoExec}]

-----------------------------------------------------------------------------
(* Predicates on the record.                                               *)

HasExec(p) == p.exec # NoExec

\* Faults: the watcher takes a change for a queued run, or looks only after
\* queued runs.
WatchEveryChange(p) == p.change
WatchArmedOnly(p) == p.change /\ p.exec.state = "armed"

\* A project the watcher looks after.
ShouldWatch(p) == p.change /\ HasExec(p)

\* Fault: a queued run does not block.
BlockedByStatus(p) == p.status = "running"

\* A project that refuses other work in the meantime; for pause and cancel,
\* one in which they only leave a request.
HasBlockingExecution(p) == HasExec(p) \/ p.status = "running"

RequiresPlanningSync(p) ==
    /\ p.change
    /\ p.status \notin {"done", "archived"}
    /\ p.phase = "proposal" \/ p.dirty

\* Chat messages are journaled unless the project is running or archived.
ShouldCapturePlanningMessage(p) ==
    p.change /\ p.status \notin {"running", "archived"}

PlanningPending(p) == p.status = "planning" \/ p.exec.action = "plan"

IsRecoverableBlocked(p) ==
    /\ p.status = "blocked" /\ ~HasExec(p)
    /\ p.phase \in {"implementing", "planning_sync"}
    /\ p.acpFailure

\* Fault: the phase alone decides.
NeedsRecoveryByPhase(p) == p.change /\ (HasExec(p) \/ p.phase = "implementing")

NeedsStartupRecovery(p) ==
    /\ p.change
    /\ \/ IsRecoverableBlocked(p)
       \/ HasExec(p)
       \/ p.phase = "implementing" /\ p.status \in {"armed", "running", "planning"}

HasPendingPlanningSync(p) ==
    p.dirty \/ p.phase = "planning_sync" \/ PlanningPending(p)

-----------------------------------------------------------------------------
(* The callbacks given to updateProject.                                   *)

\* What most callbacks have in common: requests and execution are dropped.
Settled(p, status, phase) ==
    [p EXCEPT !.status = status, !.phase = phase, !.pause = FALSE,
              !.cancel = FALSE, !.acpFailure = FALSE, !.exec = NoExec]

\* The block a queued run starts from.
Armed(action, sess, restarts, artifact) ==
    [action |-> action, state |-> "armed", sess |-> sess,
     restarts |-> restarts, artifact |-> artifact]

\* The record of a queued run: status, phase and block agree on the action.
Queued(p, exec) ==
    [p EXCEPT !.status = IF exec.action = "plan" THEN "planning" ELSE "armed",
              !.phase = IF exec.action = "plan" THEN "planning_sync" ELSE "implementing",
              !.pause = FALSE, !.cancel = FALSE, !.acpFailure = FALSE,
              !.exec = exec]

\* setRunningState: the queued run starts in session sess.
Started(p, action, sess, artifact) ==
    [p EXCEPT !.status = IF @ = "planning" THEN "planning" ELSE "running",
              !.phase = IF p.status = "planning" \/ action = "plan"
                        THEN "planning_sync" ELSE "implementing",
              !.late = FALSE,
              !.exec = [action |-> action, state |-> "running", sess |-> sess,
                        restarts |-> p.exec.restarts, artifact |-> artifact]]

\* The turn ended and work is left: queue the next turn in the same session.
Rearmed(p, action, artifact, fresh) ==
    Queued(p, Armed(action, IF HasExec(p) THEN p.exec.sess ELSE fresh,
                    0, artifact))

\* The worker failed in a way worth a retry, in a new session.
Restarted(p, exec, restarts, fresh) ==
    Queued(p, Armed(exec.action, fresh, restarts,
                    IF exec.action = "plan" THEN exec.artifact ELSE 0))

\* pauseProject and blockProject keep the phase on the planning side.
StoppedPhase(p) ==
    IF p.exec.action = "plan" \/ p.phase = "planning_sync"
    THEN "planning_sync" ELSE "implementing"

Paused(p) == Settled(p, "paused", StoppedPhase(p))

Blocked(p, acpFailure) ==
    [Settled(p, "blocked", StoppedPhase(p)) EXCEPT !.acpFailure = acpFailure]

Completed(p) == Settled(p, "done", "validating")

\* Fault: the journal counts as synced.
NeedsNoPlan(p) == [Settled(p, "ready", "tasks") EXCEPT !.dirty = FALSE]

\* Notes arrived while tasks were implemented: planning comes first.
NeedsPlan(p) == Settled(p, "ready", "tasks")

\* Fault: the execution block stays on record.
CancelledAsIs(p) ==
    [p EXCEPT !.status = "idle", !.phase = "cancelling", !.change = FALSE, !.dirty = FALSE]

Cancelled(p) ==
    [Settled(p, "idle", "cancelling")
        EXCEPT !.change = FALSE, !.dirty = FALSE, !.late = FALSE, !.empty = FALSE]

Archived(p) ==
    [Settled(p, "archived", "archiving")
        EXCEPT !.change = FALSE, !.dirty = FALSE, !.late = FALSE, !.empty = FALSE]

\* processPlanning has nothing left to generate: applyState is what OpenSpec
\* says of the change, newNotes whether notes arrived during the run.
Planned(p, applyState, newNotes) ==
    [Settled(p, CASE applyState = "all_done" -> "done"
                  [] applyState = "blocked" -> "blocked"
                  [] OTHER -> "ready",
                CASE applyState = "all_done" -> "validating"
                  [] applyState = "blocked" -> "proposal"
                  [] OTHER -> "tasks")
        EXCEPT !.dirty = newNotes \/ applyState = "blocked"]

\* finalizePlanningTurn: the visible planning turn failed.
PlanningFailed(p, acpFailure) ==
    [Settled(p, "blocked", "planning_sync")
        EXCEPT !.dirty = TRUE, !.acpFailure = acpFailure]

\* startVisiblePlanningSync: planning runs in the chat, without a worker.
VisiblePlanning(p) == Settled(p, "planning", "planning_sync")

\* queuePlanningProject: back to waiting for cs-plan.
PlanningReady(p) ==
    Settled(p, "ready", IF p.phase = "planning_sync" THEN "proposal" ELSE p.phase)

\* proposalProject: a new change.
Proposed(p) ==
    [Settled(p, "ready", "proposal")
        EXCEPT !.change = TRUE, !.dirty = FALSE, !.late = FALSE, !.empty = FALSE]

\* captureIncomingMessage, captureAssistantPlanningMessage: a journal entry.
Noted(p) == [p EXCEPT !.dirty = TRUE, !.late = p.exec.state = "running"]

PauseRequested(p) == [p EXCEPT !.pause = TRUE, !.cancel = FALSE]

CancelRequested(p) == [p EXCEPT !.cancel = TRUE, !.pause = FALSE]

\* haltProjectsForGatewayStop: nothing is left to do ...
HaltedDone(p) ==
    [p EXCEPT !.status = "done", !.phase = "validating", !.pause = FALSE,
              !.acpFailure = FALSE, !.exec = NoExec]

\* ... or the run is put back in the queue; the action is the one of the
\* record the manager read, the block is the one of the current record.
HaltedArmed(p, action) ==
    [p EXCEPT !.status = IF action = "plan" THEN "planning" ELSE "armed",
              !.phase = IF action = "plan" THEN "planning_sync" ELSE "implementing",
              !.pause = FALSE, !.acpFailure = FALSE,
              !.exec = IF HasExec(p) THEN [p.exec EXCEPT !.state = "armed"] ELSE NoExec]

\* queueWorkProject finds every task complete.
NothingToDo(p) ==
    [p EXCEPT !.status = "done", !.phase = "validating",
              !.acpFailure = FALSE, !.exec = NoExec]

\* Fault: an adopted planning worker is taken for an implementation.
AdoptedAsWork(p) ==
    [p EXCEPT !.status = "running", !.phase = "implementing", !.pause = FALSE,
              !.cancel = FALSE, !.acpFailure = FALSE]

\* tryAdoptRunningSession: keep watching the session that is still alive.
Adopted(p) ==
    [p EXCEPT !.status = IF p.exec.action = "plan" THEN "planning" ELSE "running",
              !.phase = IF p.exec.action = "plan" THEN "planning_sync" ELSE "implementing",
              !.pause = FALSE, !.cancel = FALSE, !.acpFailure = FALSE]

\* recoverProject: queue the interrupted run again, in a new session.
RecoveredAction(p) ==
    IF p.phase = "planning_sync" \/ p.status = "planning" THEN "plan" ELSE "work"

Recovered(p, fresh) ==
    Queued(p, Armed(RecoveredAction(p), fresh, p.exec.restarts, 0))

\* reconcileProjectFromApplyInstructions leaves requests and execution alone.
Reconciled(p, status, phase) ==
    [p EXCEPT !.status = status, !.phase = phase, !.acpFailure = FALSE]

\* The recorded task counts, as openspec reports them.
Counted(p, empty) == [p EXCEPT !.empty = empty]
=============================================================================
