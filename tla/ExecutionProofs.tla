--------------------------- MODULE ExecutionProofs ---------------------------
(* Theorems about Execution, for every value of its constants.             *)
EXTENDS ExecutionProperties, TLAPS

-----------------------------------------------------------------------------
(* What the updates of the project record preserve.                        *)

\* The empty execution block is told apart from every block of a run.
LEMMA NoExecLemma == NoExec \notin Executions
  BY DEF NoExec, Executions, Actions

\* A record without the empty block has the block of a run.
LEMMA HasExecLemma ==
  ASSUME NEW p \in Projects
  PROVE  HasExec(p) <=> p.exec \in Executions
  BY NoExecLemma DEF HasExec, Projects

\* Armed blocks are blocks of a run.
LEMMA ArmedType ==
  ASSUME NEW action \in Actions, NEW s \in Sessions,
         NEW n \in 0..MaxRestart, NEW a \in 0..Artifacts
  PROVE  Armed(action, s, n, a) \in Executions
  BY DEF Armed, Executions

\* The fields of a record, without the notation of record sets.
LEMMA ProjectFields ==
  ASSUME NEW p \in Projects
  PROVE  /\ p.change \in BOOLEAN /\ p.status \in Statuses /\ p.phase \in Phases
         /\ p.pause \in BOOLEAN /\ p.cancel \in BOOLEAN /\ p.dirty \in BOOLEAN
         /\ p.late \in BOOLEAN /\ p.empty \in BOOLEAN /\ p.acpFailure \in BOOLEAN
         /\ p.exec \in Executions \cup {NoExec}
         /\ p.exec.restarts \in 0..MaxRestart
         /\ p.exec.artifact \in 0..Artifacts
         /\ HasExec(p) => p.exec.sess \in Sessions /\ p.exec.action \in Actions
  <1>1. p.exec \in Executions \cup {NoExec}
    BY DEF Projects
  <1>2. CASE p.exec \in Executions
    BY <1>2, HasExecLemma DEF Projects, Executions
  <1>3. CASE p.exec = NoExec
    BY <1>3, MaxRestartAssumption, ArtifactsAssumption DEF Projects, NoExec, HasExec
  <1> QED
    BY <1>1, <1>2, <1>3

\* Dropping requests and execution.
LEMMA SettledType ==
  ASSUME NEW p \in Projects, NEW status \in Statuses, NEW phase \in Phases
  PROVE  Settled(p, status, phase) \in Projects
  BY DEF Settled, Projects

\* Queueing a run.
LEMMA QueuedType ==
  ASSUME NEW p \in Projects, NEW exec \in Executions
  PROVE  Queued(p, exec) \in Projects
  BY DEF Queued, Projects, Statuses, Phases

\* Starting the queued run.
LEMMA StartedType ==
  ASSUME NEW p \in Projects, NEW action \in Actions, NEW s \in Sessions,
         NEW a \in 0..Artifacts
  PROVE  /\ Started(p, action, s, a) \in Projects
         /\ Started(p, action, s, a).exec \in Executions
         /\ Started(p, action, s, a).exec.sess = s
  <1> DEFINE e == [action |-> action, state |-> "running", sess |-> s,
                   restarts |-> p.exec.restarts, artifact |-> a]
  <1>1. e \in Executions
    BY ProjectFields DEF Executions
  <1>2. Started(p, action, s, a).exec = e
    BY DEF Started, Projects
  <1>3. Started(p, action, s, a) \in Projects
    <2> DEFINE status == IF p.status = "planning" THEN "planning" ELSE "running"
               phase == IF p.status = "planning" \/ action = "plan"
                        THEN "planning_sync" ELSE "implementing"
    <2>1. status \in Statuses /\ phase \in Phases
      BY DEF Statuses, Phases
    <2> HIDE DEF e, status, phase
    <2>2. [p EXCEPT !.status = status, !.phase = phase, !.late = FALSE, !.exec = e] \in Projects
      BY <1>1, <2>1 DEF Projects
    <2> QED
      BY <2>2 DEF Started, e, status, phase
  <1> QED
    BY <1>1, <1>2, <1>3

\* Queueing the next turn.
LEMMA RearmedType ==
  ASSUME NEW p \in Projects, NEW action \in Actions, NEW a \in 0..Artifacts,
         NEW fresh, HasExec(p) \/ fresh \in Sessions
  PROVE  Rearmed(p, action, a, fresh) \in Projects
  <1> DEFINE s == IF HasExec(p) THEN p.exec.sess ELSE fresh
  <1>1. s \in Sessions
    BY ProjectFields
  <1>2. Armed(action, s, 0, a) \in Executions
    BY <1>1, ArmedType, MaxRestartAssumption
  <1> QED
    BY <1>2, QueuedType DEF Rearmed

\* The same for a restart in a new session.
LEMMA RestartedType ==
  ASSUME NEW p \in Projects, NEW exec \in Executions, NEW n \in 0..MaxRestart,
         NEW fresh \in Sessions
  PROVE  Restarted(p, exec, n, fresh) \in Projects
  <1> DEFINE a == IF exec.action = "plan" THEN exec.artifact ELSE 0
  <1>1. a \in 0..Artifacts /\ exec.action \in Actions
    BY ArtifactsAssumption DEF Executions
  <1>2. Armed(exec.action, fresh, n, a) \in Executions
    BY <1>1, ArmedType
  <1> QED
    BY <1>2, QueuedType DEF Restarted

\* The same for a run that is recovered when the gateway starts.
LEMMA RecoveredType ==
  ASSUME NEW p \in Projects, NEW fresh \in Sessions
  PROVE  Recovered(p, fresh) \in Projects
  <1>1. RecoveredAction(p) \in Actions
    BY DEF RecoveredAction, Actions
  <1>2. Armed(RecoveredAction(p), fresh, p.exec.restarts, 0) \in Executions
    BY <1>1, ArmedType, ProjectFields, ArtifactsAssumption
  <1> QED
    BY <1>2, QueuedType DEF Recovered

\* Forgetting the change, and a new value for the dirty flag.
LEMMA ForgottenType ==
  ASSUME NEW p \in Projects, NEW dirty \in BOOLEAN
  PROVE  /\ [p EXCEPT !.change = FALSE, !.dirty = FALSE, !.late = FALSE,
                      !.empty = FALSE] \in Projects
         /\ [p EXCEPT !.dirty = dirty] \in Projects
         /\ [p EXCEPT !.dirty = TRUE, !.acpFailure = dirty] \in Projects
  BY DEF Projects

\* The ways a run or a planning turn ends.
LEMMA EndedType ==
  ASSUME NEW p \in Projects, NEW b \in BOOLEAN, NEW applyState
  PROVE  /\ Paused(p) \in Projects
         /\ Blocked(p, b) \in Projects
         /\ Completed(p) \in Projects
         /\ NeedsPlan(p) \in Projects
         /\ Cancelled(p) \in Projects
         /\ Archived(p) \in Projects
         /\ Planned(p, applyState, b) \in Projects
         /\ PlanningFailed(p, b) \in Projects
  <1> USE SettledType DEF Statuses, Phases
  <1>1. StoppedPhase(p) \in Phases
    BY DEF StoppedPhase
  <1>2. Paused(p) \in Projects
    BY <1>1 DEF Paused
  <1>3. Blocked(p, b) \in Projects
    <2>1. Settled(p, "blocked", StoppedPhase(p)) \in Projects
      BY <1>1
    <2> QED
      BY <2>1 DEF Blocked, Projects
  <1>4. Completed(p) \in Projects /\ NeedsPlan(p) \in Projects
    BY DEF Completed, NeedsPlan
  <1>5. Cancelled(p) \in Projects
    <2>1. Settled(p, "idle", "cancelling") \in Projects
      OBVIOUS
    <2> QED
      BY <2>1, ForgottenType DEF Cancelled
  <1>6. Archived(p) \in Projects
    <2>1. Settled(p, "archived", "archiving") \in Projects
      OBVIOUS
    <2> QED
      BY <2>1, ForgottenType DEF Archived
  <1>7. Planned(p, applyState, b) \in Projects
    <2> DEFINE status == CASE applyState = "all_done" -> "done"
                           [] applyState = "blocked" -> "blocked"
                           [] OTHER -> "ready"
               phase == CASE applyState = "all_done" -> "validating"
                          [] applyState = "blocked" -> "proposal"
                          [] OTHER -> "tasks"
    <2>1. status \in Statuses /\ phase \in Phases
      OBVIOUS
    <2> HIDE DEF status, phase
    <2>2. Settled(p, status, phase) \in Projects
      BY <2>1
    <2>3. (b \/ applyState = "blocked") \in BOOLEAN
      OBVIOUS
    <2>4. [Settled(p, status, phase) EXCEPT !.dirty = b \/ applyState = "blocked"] \in Projects
      BY <2>2, <2>3, ForgottenType
    <2> QED
      BY <2>4 DEF Planned, status, phase
  <1>8. PlanningFailed(p, b) \in Projects
    <2>1. Settled(p, "blocked", "planning_sync") \in Projects
      OBVIOUS
    <2> QED
      BY <2>1, ForgottenType DEF PlanningFailed
  <1> QED
    BY <1>2, <1>3, <1>4, <1>5, <1>6, <1>7, <1>8

\* What the commands write.
LEMMA CommandType ==
  ASSUME NEW p \in Projects, NEW e \in BOOLEAN,
         NEW status \in Statuses, NEW phase \in Phases
  PROVE  /\ VisiblePlanning(p) \in Projects
         /\ PlanningReady(p) \in Projects
         /\ Proposed(p) \in Projects
         /\ Noted(p) \in Projects
         /\ PauseRequested(p) \in Projects
         /\ CancelRequested(p) \in Projects
         /\ NothingToDo(p) \in Projects
         /\ Reconciled(p, status, phase) \in Projects
         /\ Counted(p, e) \in Projects
  <1>1. VisiblePlanning(p) \in Projects
    BY SettledType DEF VisiblePlanning, Statuses, Phases
  <1>2. PlanningReady(p) \in Projects
    <2>1. (IF p.phase = "planning_sync" THEN "proposal" ELSE p.phase) \in Phases
      BY ProjectFields DEF Phases
    <2> QED
      BY <2>1, SettledType DEF PlanningReady, Statuses
  <1>3. Proposed(p) \in Projects
    <2>1. Settled(p, "ready", "proposal") \in Projects
      BY SettledType DEF Statuses, Phases
    <2> QED
      BY <2>1 DEF Proposed, Projects
  <1>4. Noted(p) \in Projects /\ PauseRequested(p) \in Projects /\ CancelRequested(p) \in Projects
    BY DEF Noted, PauseRequested, CancelRequested, Projects
  <1>5. NothingToDo(p) \in Projects
    BY DEF NothingToDo, Projects, Statuses, Phases
  <1>6. Reconciled(p, status, phase) \in Projects /\ Counted(p, e) \in Projects
    BY DEF Reconciled, Counted, Projects
  <1> QED
    BY <1>1, <1>2, <1>3, <1>4, <1>5, <1>6

\* What the manager writes when the gateway stops and starts.
LEMMA ManagerType ==
  ASSUME NEW p \in Projects, NEW action
  PROVE  /\ HaltedDone(p) \in Projects
         /\ HaltedArmed(p, action) \in Projects
         /\ Adopted(p) \in Projects
  <1>1. HaltedDone(p) \in Projects
    BY DEF HaltedDone, Projects, Statuses, Phases
  <1>2. HaltedArmed(p, action) \in Projects
    <2> DEFINE e == IF HasExec(p) THEN [p.exec EXCEPT !.state = "armed"] ELSE NoExec
    <2>1. e \in Executions \cup {NoExec}
      BY HasExecLemma DEF Executions
    <2> HIDE DEF e
    <2>2. [p EXCEPT !.status = IF action = "plan" THEN "planning" ELSE "armed",
                    !.phase = IF action = "plan" THEN "planning_sync" ELSE "implementing",
                    !.pause = FALSE, !.acpFailure = FALSE, !.exec = e] \in Projects
      BY <2>1 DEF Projects, Statuses, Phases
    <2> QED
      BY <2>2 DEF HaltedArmed, e
  <1>3. Adopted(p) \in Projects
    BY DEF Adopted, Projects, Statuses, Phases
  <1> QED
    BY <1>1, <1>2, <1>3

-----------------------------------------------------------------------------
(* Types.                                                                  *)

\* The places of a run at which it still holds the block it started with.
RunPcs == {"read", "synced", "start", "spawn", "turn", "resolve", "restart", "restarted"}

\* The inductive form of the type invariant: TypeOK alone is not inductive,
\* because SetRunning writes the session of the block the watcher read into
\* the record, and that block is empty in a watcher that has nothing to do.
TypeInv == TypeOK /\ (watcher.pc \in RunPcs => watcher.exec \in Executions)

USE DEF WorkerStates, Actions

-----------------------------------------------------------------------------
(* Lemmas.                                                                 *)

\* A session key that is asked for when there is room is a new one.
LEMMA FreshLemma == RoomForSession => Fresh \in Sessions /\ Fresh \notin SessionsInUse
  <1>1. SessionsInUse \subseteq Sessions
    BY DEF SessionsInUse
  <1>2. RoomForSession => \E s \in Sessions : s \notin SessionsInUse
    BY <1>1 DEF RoomForSession
  <1> QED
    BY <1>2 DEF Fresh

\* Killing the worker of a session changes no other session and leaves no
\* session of this process working.
LEMMA KilledLemma ==
  ASSUME worker \in [Sessions -> WorkerStates], NEW s
  PROVE  /\ Killed(s) \in [Sessions -> WorkerStates]
         /\ \A t \in Sessions : Killed(s)[t] # worker[t] => t = s /\ Killed(s)[t] = "acp"
         /\ \A t \in Sessions : Killed(s)[t] \in Actions => worker[t] \in Actions
  BY DEF Killed, Working

\* The fields of the watcher and of the manager.
LEMMA WatcherFields ==
  ASSUME NEW w \in Watchers
  PROVE  /\ w.pc \in WatcherPcs /\ w.goal \in Goals /\ w.action \in Actions
         /\ w.exec \in Executions \cup {NoExec} /\ w.dirty \in BOOLEAN
         /\ w.attached \in BOOLEAN /\ w.result \in Results
         /\ w.failure \in {"none", "acp", "other"}
         /\ w.exec.artifact \in 0..Artifacts
  <1>1. w.exec \in Executions \cup {NoExec}
    BY DEF Watchers
  <1>2. w.exec.artifact \in 0..Artifacts
    BY <1>1, ArtifactsAssumption DEF Executions, NoExec
  <1> QED
    BY <1>1, <1>2 DEF Watchers

\* The resting watcher, client and manager have their types.
LEMMA IdleTypes ==
  /\ IdleWatcher \in Watchers
  /\ IdleClient \in ClientStates
  /\ \A pc \in ManagerPcs : IdleManager(pc) \in Managers
  BY DEF IdleWatcher, Watchers, WatcherPcs, Goals, Results, IdleClient,
         ClientStates, ClientPcs, IdleManager, Managers, NoExec

\* Changes: nothing, a new one, a planned one, one artifact more.
LEMMA SpecTypes ==
  /\ NoChange \in Specs
  /\ [dir |-> TRUE, arts |-> 0, tasks |-> 0] \in Specs
  /\ [dir |-> TRUE, arts |-> Artifacts, tasks |-> MaxTasks] \in Specs
  /\ \A sp \in Specs : /\ sp.dir \in BOOLEAN
                        /\ sp.arts \in 0..Artifacts
                        /\ sp.tasks \in 0..MaxTasks
  /\ \A sp \in Specs, a \in 0..Artifacts, n \in 0..MaxTasks :
        /\ [sp EXCEPT !.arts = a] \in Specs
        /\ [sp EXCEPT !.tasks = n] \in Specs
        /\ [sp EXCEPT !.arts = a, !.tasks = n] \in Specs
  <1>1. NoChange \in Specs
    BY ArtifactsAssumption, MaxTasksAssumption DEF Specs, NoChange
  <1>2. [dir |-> TRUE, arts |-> 0, tasks |-> 0] \in Specs
    BY ArtifactsAssumption, MaxTasksAssumption DEF Specs
  <1>3. [dir |-> TRUE, arts |-> Artifacts, tasks |-> MaxTasks] \in Specs
    BY ArtifactsAssumption, MaxTasksAssumption DEF Specs
  <1>4. \A sp \in Specs : /\ sp.dir \in BOOLEAN
                          /\ sp.arts \in 0..Artifacts
                          /\ sp.tasks \in 0..MaxTasks
    BY DEF Specs
  <1>5. \A sp \in Specs, a \in 0..Artifacts, n \in 0..MaxTasks :
           /\ [sp EXCEPT !.arts = a] \in Specs
           /\ [sp EXCEPT !.tasks = n] \in Specs
           /\ [sp EXCEPT !.arts = a, !.tasks = n] \in Specs
    BY DEF Specs
  <1> QED
    BY <1>1, <1>2, <1>3, <1>4, <1>5

-----------------------------------------------------------------------------
(* The type invariant.                                                     *)

\* Every record a run may start from has its type.
LEMMA TypeInit == Init => TypeInv
  <1> SUFFICES ASSUME Init PROVE TypeInv
    OBVIOUS
  <1>1. Blank \in Projects
    BY DEF Blank, Projects, Statuses, Phases
  <1>2. [Blank EXCEPT !.phase = "tasks"] \in Projects
    BY <1>1 DEF Projects, Phases
  <1>3. project \in Projects
    <2>1. PlanningFailed(Blank, TRUE) \in Projects
      BY <1>1, EndedType
    <2> QED
      BY <1>1, <1>2, <2>1 DEF Init
  <1>4. spec \in Specs
    BY SpecTypes DEF Init
  <1>5. manager \in Managers
    BY IdleTypes DEF Init, ManagerPcs
  <1>6. watcher \in Watchers /\ watcher.pc = "idle"
    BY IdleTypes DEF Init, IdleWatcher
  <1>7. client \in [Clients -> ClientStates]
    BY IdleTypes DEF Init
  <1>8. worker \in [Sessions -> WorkerStates]
    BY DEF Init
  <1>9. result \in Results /\ known \subseteq Sessions /\ timer \in BOOLEAN
    BY DEF Init, Results
  <1>10. downs \in [stops : 0..MaxDowns, crashes : 0..MaxDowns]
    BY MaxDownsAssumption DEF Init
  <1> QED
    BY <1>3, <1>4, <1>5, <1>6, <1>7, <1>8, <1>9, <1>10 DEF TypeInv, TypeOK, RunPcs

\* Writing an artifact, by a worker or in the visible planning turn.
LEMMA WriteType ==
  ASSUME TypeInv, WriteArtifact
  PROVE  spec' \in Specs
  <1>1. spec \in Specs /\ spec.arts \in 0..Artifacts
    BY SpecTypes DEF TypeInv, TypeOK
  <1>2. CASE spec.arts + 1 < Artifacts /\ spec' = [spec EXCEPT !.arts = @ + 1]
    <2>1. spec.arts + 1 \in 0..Artifacts
      BY <1>1, <1>2, ArtifactsAssumption
    <2> QED
      BY <1>1, <1>2, <2>1, SpecTypes
  <1>3. CASE \E n \in 1..MaxTasks : spec' = [spec EXCEPT !.arts = Artifacts, !.tasks = n]
    <2>1. PICK n \in 1..MaxTasks : spec' = [spec EXCEPT !.arts = Artifacts, !.tasks = n]
      BY <1>3
    <2>2. n \in 0..MaxTasks /\ Artifacts \in 0..Artifacts
      BY ArtifactsAssumption, MaxTasksAssumption
    <2> QED
      BY <1>1, <2>1, <2>2, SpecTypes
  <1> QED
    BY <1>2, <1>3 DEF WriteArtifact

\* A step of a worker.
LEMMA WorkerType ==
  ASSUME TypeInv, NEW s \in Sessions, WorkerStep(s)
  PROVE  TypeInv'
  <1> USE DEF TypeInv, TypeOK
  <1>1. CASE CompleteTask(s)
    <2>1. spec \in Specs /\ spec.arts \in 0..Artifacts /\ spec.tasks \in 0..MaxTasks
      BY SpecTypes
    <2>2. spec.tasks - 1 \in 0..MaxTasks
      BY <1>1, <2>1, MaxTasksAssumption DEF CompleteTask
    <2>3. spec' \in Specs
      BY <1>1, <2>1, <2>2, SpecTypes DEF CompleteTask
    <2> QED
      BY <1>1, <2>3 DEF CompleteTask
  <1>2. CASE GenerateArtifact(s)
    BY <1>2, WriteType DEF GenerateArtifact
  <1>3. CASE Report(s)
    BY <1>3 DEF Report
  <1>4. CASE WorkerExit(s)
    BY <1>4 DEF WorkerExit
  <1> QED
    BY <1>1, <1>2, <1>3, <1>4 DEF WorkerStep

\* A run that begins, and a run that goes over to closing its session.
LEMMA WatcherMoves ==
  ASSUME NEW w \in Watchers, NEW pc \in WatcherPcs, NEW goal \in Goals,
         NEW action \in Actions, NEW exec \in Executions \cup {NoExec},
         NEW dirty \in BOOLEAN
  PROVE  /\ [w EXCEPT !.pc = pc, !.goal = goal, !.action = action, !.exec = exec,
                      !.dirty = dirty] \in Watchers
         /\ [w EXCEPT !.pc = pc, !.goal = goal, !.exec = exec, !.dirty = dirty] \in Watchers
  BY DEF Watchers

\* Interrupting and closing sessions.
LEMMA InterruptType ==
  ASSUME TypeInv, NEW s
  PROVE  /\ Interrupt(s) => worker' \in [Sessions -> WorkerStates]
         /\ CloseSession(s) => worker' \in [Sessions -> WorkerStates] /\ known' \subseteq Sessions
  BY KilledLemma DEF TypeInv, TypeOK, Interrupt, CloseSession

\* The reads of a run: what the watcher decides before and after a turn.
LEMMA ReadType ==
  ASSUME TypeInv, RunStart \/ Leave \/ RunFails \/ ReadApply \/ ReadStatus \/ ReadSynced
  PROVE  TypeInv'
  <1> USE DEF TypeInv, TypeOK
  <1> project \in Projects /\ watcher \in Watchers
    OBVIOUS
  <1>1. CASE RunStart
    <2> DEFINE pc == CASE ~ShouldWatch(project) -> "leave"
                       [] StopsAtOnce -> "close"
                       [] OTHER -> "read"
               goal == CASE StopsAtOnce /\ project.cancel -> "cancel"
                         [] StopsAtOnce /\ ~project.cancel -> "pause"
                         [] OTHER -> "none"
               action == IF PlanningPending(project) THEN "plan" ELSE "work"
               w == [IdleWatcher EXCEPT !.pc = pc, !.goal = goal, !.action = action,
                                        !.exec = project.exec, !.dirty = project.dirty]
    <2>0. watcher' = w
      BY <1>1 DEF RunStart
    <2>a. pc \in WatcherPcs /\ goal \in Goals /\ action \in Actions
      BY DEF WatcherPcs, Goals
    <2>b. pc \in RunPcs => ShouldWatch(project)
      BY DEF RunPcs, StopsAtOnce
    <2> HIDE DEF pc, goal, action
    <2>1. w \in Watchers
      BY <2>a, ProjectFields, WatcherMoves, IdleTypes
    <2>2. w.exec = project.exec /\ w.pc = pc
      BY DEF IdleWatcher
    <2> HIDE DEF w
    <2>3. watcher'.pc \in RunPcs => watcher'.exec \in Executions
      BY <2>0, <2>2, <2>b, HasExecLemma DEF ShouldWatch
    <2> QED
      BY <1>1, <2>0, <2>1, <2>3 DEF RunStart
  <1>2. CASE Leave
    BY <1>2, IdleTypes DEF Leave, IdleWatcher, RunPcs
  <1>3. CASE RunFails
    <2>1. CASE watcher' = IdleWatcher
      BY <1>3, <2>1, IdleTypes DEF RunFails, IdleWatcher, RunPcs
    <2>2. CASE \E f \in {"acp", "other"} :
                 watcher' = [watcher EXCEPT !.pc = "close", !.goal = "block",
                                            !.exec = project.exec, !.failure = f]
      <3>1. watcher' \in Watchers /\ watcher'.pc = "close"
        BY <2>2, ProjectFields DEF Watchers, WatcherPcs, Goals
      <3> QED
        BY <1>3, <3>1 DEF RunFails, RunPcs
    <2> QED
      BY <1>3, <2>1, <2>2 DEF RunFails
  <1>4. CASE ReadApply
    <2>1. worker' \in [Sessions -> WorkerStates]
      BY <1>4, InterruptType DEF ReadApply
    <2>2. watcher.exec \in Executions
      BY <1>4 DEF ReadApply, RunPcs
    <2>3. \/ watcher' = [watcher EXCEPT !.pc = "close", !.goal = "block", !.failure = "other"]
          \/ watcher' = [watcher EXCEPT !.pc = "close", !.goal = "done"]
          \/ watcher' = [watcher EXCEPT !.pc = "turn", !.attached = TRUE]
          \/ watcher' = [watcher EXCEPT !.pc = "start"]
      BY <1>4 DEF ReadApply
    <2>4. watcher' \in Watchers /\ watcher'.exec = watcher.exec
      <3>1. CASE watcher' = [watcher EXCEPT !.pc = "close", !.goal = "block", !.failure = "other"]
        BY <3>1 DEF Watchers, WatcherPcs, Goals
      <3>2. CASE watcher' = [watcher EXCEPT !.pc = "close", !.goal = "done"]
        BY <3>2 DEF Watchers, WatcherPcs, Goals
      <3>3. CASE watcher' = [watcher EXCEPT !.pc = "turn", !.attached = TRUE]
        BY <3>3 DEF Watchers, WatcherPcs
      <3>4. CASE watcher' = [watcher EXCEPT !.pc = "start"]
        BY <3>4 DEF Watchers, WatcherPcs
      <3> QED
        BY <2>3, <3>1, <3>2, <3>3, <3>4
    <2> QED
      BY <1>4, <2>1, <2>2, <2>4 DEF ReadApply
  <1>5. CASE ReadStatus
    <2>1. watcher.exec \in Executions
      BY <1>5 DEF ReadStatus, RunPcs
    <2>2. CASE watcher' = [watcher EXCEPT !.pc = "synced"]
      <3>1. watcher' \in Watchers /\ watcher'.exec \in Executions
        BY <2>1, <2>2 DEF Watchers, WatcherPcs
      <3> QED
        BY <1>5, <3>1 DEF ReadStatus
    <2>3. CASE watcher' = [watcher EXCEPT !.pc = "close", !.goal = "block", !.failure = "other"]
      <3>1. watcher' \in Watchers /\ watcher'.exec \in Executions
        BY <2>1, <2>3 DEF Watchers, WatcherPcs, Goals
      <3> QED
        BY <1>5, <3>1 DEF ReadStatus
    <2>4. CASE /\ Forced \/ Pending
               /\ watcher' = [watcher EXCEPT
                     !.pc = IF watcher.exec.state = "running" THEN "turn" ELSE "start",
                     !.attached = watcher.exec.state = "running",
                     !.exec.artifact = SelectedArtifact]
      <3>1. SelectedArtifact \in 0..Artifacts
        <4>1. watcher.exec.artifact \in 0..Artifacts /\ spec.arts \in 0..Artifacts
          BY WatcherFields, SpecTypes
        <4>2. Forced => watcher.exec.artifact + 1 \in 0..Artifacts
          BY <4>1, ArtifactsAssumption DEF Forced
        <4>3. Pending => spec.arts + 1 \in 0..Artifacts
          BY <4>1, ArtifactsAssumption DEF Pending
        <4> QED
          BY <2>4, <4>1, <4>2, <4>3 DEF SelectedArtifact
      <3>2. [watcher.exec EXCEPT !.artifact = SelectedArtifact] \in Executions
        BY <2>1, <3>1 DEF Executions
      <3>3. watcher' \in Watchers /\ watcher'.exec \in Executions
        BY <2>4, <3>2 DEF Watchers, WatcherPcs
      <3> QED
        BY <1>5, <3>3 DEF ReadStatus
    <2> QED
      BY <1>5, <2>2, <2>3, <2>4 DEF ReadStatus
  <1>6. CASE ReadSynced
    <2>1. watcher.exec \in Executions
      BY <1>6 DEF ReadSynced, RunPcs
    <2> DEFINE goal == CASE ApplyState = "ready" -> "plan_ready"
                         [] ApplyState = "all_done" -> "plan_done"
                         [] OTHER -> "plan_blocked"
               exec == IF HasExec(project) THEN project.exec ELSE watcher.exec
               dirty == project.dirty /\ project.late /\ project.exec.state = "running"
               w == [watcher EXCEPT !.pc = "close", !.goal = goal, !.exec = exec, !.dirty = dirty]
    <2>2. watcher' = w
      BY <1>6 DEF ReadSynced
    <2>3. goal \in Goals /\ dirty \in BOOLEAN
      BY DEF Goals
    <2>4. exec \in Executions \cup {NoExec}
      BY <2>1, ProjectFields
    <2> HIDE DEF goal, exec, dirty
    <2>5. "close" \in WatcherPcs
      BY DEF WatcherPcs
    <2>6. w \in Watchers
      BY <2>3, <2>4, <2>5, WatcherMoves
    <2>7. w.pc = "close"
      BY DEF Watchers
    <2> HIDE DEF w
    <2> QED
      BY <1>6, <2>2, <2>6, <2>7 DEF ReadSynced, RunPcs
  <1> QED
    BY <1>1, <1>2, <1>3, <1>4, <1>5, <1>6

\* The turn: from the queued run to the decision on what follows it.
LEMMA TurnType ==
  ASSUME TypeInv, SetRunning \/ Spawn \/ CaptureResult \/ TurnEnds \/ WatchEnds \/ Resolve
  PROVE  TypeInv'
  <1> USE DEF TypeInv, TypeOK
  <1> project \in Projects /\ watcher \in Watchers
    OBVIOUS
  <1>1. CASE SetRunning
    <2> DEFINE a == IF watcher.action = "plan" THEN watcher.exec.artifact ELSE 0
    <2>1. watcher.exec \in Executions
      BY <1>1 DEF SetRunning, RunPcs
    <2>2. watcher.action \in Actions /\ watcher.exec.sess \in Sessions /\ a \in 0..Artifacts
      BY <2>1, WatcherFields, ArtifactsAssumption DEF Executions
    <2>3. project' = Started(project, watcher.action, watcher.exec.sess, a)
      BY <1>1 DEF SetRunning
    <2> HIDE DEF a
    <2>4. project' \in Projects /\ project'.exec \in Executions
      BY <2>2, <2>3, StartedType
    <2>5. watcher' \in Watchers /\ watcher'.exec \in Executions
      BY <1>1, <2>4 DEF SetRunning, Watchers, WatcherPcs
    <2> QED
      BY <1>1, <2>4, <2>5 DEF SetRunning
  <1>2. CASE Spawn
    <2>1. watcher.exec \in Executions
      BY <1>2 DEF Spawn, RunPcs
    <2>2. watcher.exec.sess \in Sessions /\ watcher.action \in Actions
      BY <2>1, WatcherFields DEF Executions
    <2>3. PICK how \in {watcher.action, "acp", "other"} :
             worker' = [worker EXCEPT ![watcher.exec.sess] = how]
      BY <1>2 DEF Spawn
    <2>4. worker' \in [Sessions -> WorkerStates]
      BY <2>2, <2>3
    <2>5. watcher' \in Watchers /\ watcher'.exec \in Executions
      BY <1>2, <2>1 DEF Spawn, Watchers, WatcherPcs
    <2> QED
      BY <1>2, <2>2, <2>4, <2>5 DEF Spawn, Results
  <1>3. CASE CaptureResult
    BY <1>3, InterruptType DEF CaptureResult
  <1>4. ASSUME NEW failure \in {"none", "acp", "other"}, watcher.pc = "turn", AfterTurn(failure)
        PROVE  watcher' \in Watchers /\ (watcher'.pc \in RunPcs => watcher'.exec \in Executions)
    <2>1. CASE manager.pc = "up"
      <3>1. watcher.exec \in Executions
        BY <1>4 DEF RunPcs
      <3>2. watcher' = [watcher EXCEPT !.pc = "resolve", !.failure = failure]
        BY <1>4, <2>1 DEF AfterTurn
      <3> QED
        BY <3>1, <3>2 DEF Watchers, WatcherPcs
    <2>2. CASE manager.pc # "up"
      BY <1>4, <2>2, IdleTypes DEF AfterTurn, IdleWatcher, RunPcs
    <2> QED
      BY <2>1, <2>2
  <1>5. CASE TurnEnds
    <2> DEFINE failure == IF worker[watcher.exec.sess] \in {"acp", "other"}
                          THEN worker[watcher.exec.sess] ELSE "none"
    <2>1. failure \in {"none", "acp", "other"} /\ watcher.pc = "turn" /\ AfterTurn(failure)
      BY <1>5 DEF TurnEnds
    <2>2. worker' \in [Sessions -> WorkerStates]
      BY <1>5 DEF TurnEnds
    <2> HIDE DEF failure
    <2> QED
      BY <1>5, <1>4, <2>1, <2>2 DEF TurnEnds
  <1>6. CASE WatchEnds
    <2>1. worker' \in [Sessions -> WorkerStates]
      BY <1>6, InterruptType DEF WatchEnds
    <2>2. watcher.pc = "turn" /\ \E f \in {"none", "acp", "other"} : AfterTurn(f)
      BY <1>6 DEF WatchEnds
    <2> QED
      BY <1>6, <1>4, <2>1, <2>2 DEF WatchEnds
  <1>7. CASE Resolve
    <2>1. watcher.exec \in Executions
      BY <1>7 DEF Resolve, RunPcs
    <2>2. ASSUME NEW pc \in WatcherPcs, NEW goal \in Goals,
                 watcher' = [watcher EXCEPT !.pc = pc, !.goal = goal, !.result = result]
          PROVE  watcher' \in Watchers /\ watcher'.exec \in Executions
      BY <2>1, <2>2 DEF Watchers
    <2>3. ASSUME NEW goal \in Goals, NEW f \in {"none", "acp", "other"},
                 watcher' = [[watcher EXCEPT !.pc = "close", !.goal = goal, !.result = result]
                               EXCEPT !.exec = project.exec, !.failure = f]
          PROVE  watcher' \in Watchers /\ watcher'.pc = "close"
      BY <2>3, ProjectFields DEF Watchers, WatcherPcs
    <2>4. ASSUME NEW goal \in Goals,
                 watcher' = [[watcher EXCEPT !.pc = "close", !.goal = goal, !.result = result]
                               EXCEPT !.exec = project.exec]
          PROVE  watcher' \in Watchers /\ watcher'.pc = "close"
      BY <2>4, ProjectFields DEF Watchers, WatcherPcs
    <2>5. \/ watcher' \in Watchers /\ watcher'.exec \in Executions
          \/ watcher' \in Watchers /\ watcher'.pc = "close"
      BY <1>7, <2>2, <2>3, <2>4 DEF Resolve, WatcherPcs, Goals
    <2> QED
      BY <1>7, <2>5 DEF Resolve, RunPcs
  <1> QED
    BY <1>1, <1>2, <1>3, <1>5, <1>6, <1>7

\* The end of a run: restart, next turn, or the update that settles it.
LEMMA SettleType ==
  ASSUME TypeInv,
         RestartClose \/ RestartUpdate \/ Finish \/ Rearm \/ Close \/ Settle
  PROVE  TypeInv'
  <1> USE DEF TypeInv, TypeOK
  <1> project \in Projects /\ watcher \in Watchers
    OBVIOUS
  <1>0. IdleWatcher \in Watchers /\ IdleWatcher.pc \notin RunPcs
    BY IdleTypes DEF IdleWatcher, RunPcs
  <1>1. CASE RestartClose
    <2> DEFINE exec == IF HasExec(project) THEN project.exec ELSE watcher.exec
    <2>1. exec \in Executions
      BY <1>1, HasExecLemma DEF RestartClose, RunPcs
    <2> HIDE DEF exec
    <2>2. CASE CapReached(exec)
      <3>1. watcher' = [watcher EXCEPT !.pc = "close", !.goal = "block", !.exec = project.exec]
        BY <1>1, <2>2 DEF RestartClose, exec
      <3>2. watcher' \in Watchers /\ watcher'.pc = "close"
        BY <3>1, ProjectFields DEF Watchers, WatcherPcs, Goals
      <3> QED
        BY <1>1, <2>2, <3>2 DEF RestartClose, RunPcs, exec
    <2>3. CASE ~CapReached(exec)
      <3>1. exec.restarts + 1 \in 0..MaxRestart
        BY <2>1, <2>3, MaxRestartAssumption DEF CapReached, Executions
      <3>2. [exec EXCEPT !.restarts = exec.restarts + 1] \in Executions
        BY <2>1, <3>1 DEF Executions
      <3>3. /\ watcher' = [watcher EXCEPT !.pc = "restarted", !.exec = exec,
                                          !.exec.restarts = exec.restarts + 1]
            /\ CloseSession(exec.sess) /\ result' = "none"
        BY <1>1, <2>3 DEF RestartClose, exec
      <3>4. watcher' \in Watchers /\ watcher'.exec \in Executions
        BY <3>2, <3>3 DEF Watchers, WatcherPcs
      <3>5. worker' \in [Sessions -> WorkerStates] /\ known' \subseteq Sessions
        BY <3>3, InterruptType
      <3> QED
        BY <1>1, <3>3, <3>4, <3>5 DEF RestartClose, Results
    <2> QED
      BY <2>2, <2>3
  <1>2. CASE RestartUpdate
    <2>1. watcher.exec \in Executions /\ Fresh \in Sessions
      BY <1>2, FreshLemma DEF RestartUpdate, RunPcs
    <2>2. watcher.exec.restarts \in 0..MaxRestart
      BY <2>1 DEF Executions
    <2>3. project' \in Projects
      BY <1>2, <2>1, <2>2, RestartedType DEF RestartUpdate
    <2> QED
      BY <1>2, <1>0, <2>3 DEF RestartUpdate, Kick
  <1>3. CASE Finish
    <2>1. watcher' \in Watchers /\ watcher'.pc \in {"close", "rearm"}
      <3>1. CASE watcher' = [watcher EXCEPT !.pc = "close", !.goal = "done", !.exec = project.exec]
        BY <3>1, ProjectFields DEF Watchers, WatcherPcs, Goals
      <3>2. CASE watcher' = [watcher EXCEPT !.pc = "close", !.goal = "dirty",
                               !.exec = IF HasExec(project) THEN project.exec ELSE @]
        BY <3>2, ProjectFields DEF Watchers, WatcherPcs, Goals
      <3>3. CASE watcher' = [watcher EXCEPT !.pc = "rearm"]
        BY <3>3 DEF Watchers, WatcherPcs
      <3> QED
        BY <1>3, <3>1, <3>2, <3>3 DEF Finish
    <2> QED
      BY <1>3, <2>1 DEF Finish, RunPcs
  <1>4. CASE Rearm
    <2> DEFINE a == IF watcher.action = "plan" THEN watcher.exec.artifact ELSE 0
    <2>1. a \in 0..Artifacts /\ watcher.action \in Actions
      BY WatcherFields, ArtifactsAssumption
    <2>2. HasExec(project) \/ Fresh \in Sessions
      BY <1>4, FreshLemma DEF Rearm
    <2>3. project' = Rearmed(project, watcher.action, a, Fresh)
      BY <1>4 DEF Rearm
    <2> HIDE DEF a
    <2>4. project' \in Projects
      BY <2>1, <2>2, <2>3, RearmedType
    <2> QED
      BY <1>4, <1>0, <2>4 DEF Rearm, Kick
  <1>5. CASE Close
    <2>1. worker' \in [Sessions -> WorkerStates] /\ known' \subseteq Sessions
      BY <1>5, InterruptType DEF Close
    <2>2. spec' \in Specs
      BY <1>5, SpecTypes DEF Close
    <2>3. watcher' \in Watchers /\ watcher'.pc = "settle"
      BY <1>5 DEF Close, Watchers, WatcherPcs
    <2> QED
      BY <1>5, <2>1, <2>2, <2>3 DEF Close, Results, RunPcs
  <1>6. CASE Settle
    <2>0. \A e \in BOOLEAN, q \in Projects : Counted(q, e) \in Projects
      BY CommandType DEF Statuses, Phases
    <2>1. \A q \in Projects : q.empty \in BOOLEAN /\ (q.empty \/ watcher.result # "none") \in BOOLEAN
      BY ProjectFields
    <2>2. /\ Paused(project) \in Projects
          /\ Blocked(project, watcher.failure = "acp") \in Projects
          /\ Cancelled(project) \in Projects
          /\ Completed(project) \in Projects
          /\ NeedsPlan(project) \in Projects
          /\ \A applyState : Planned(project, applyState, watcher.dirty) \in Projects
      BY EndedType, WatcherFields
    <2>3. project' \in Projects
      <3>1. CASE watcher.goal = "pause"
        <4>1. PICK e \in BOOLEAN : project' = Counted(Paused(project), e)
          BY <1>6, <2>1, <3>1 DEF Settle
        <4> QED
          BY <2>0, <2>2, <4>1
      <3>3. CASE watcher.goal = "block"
        <4>1. PICK e \in BOOLEAN : project' = Counted(Blocked(project, watcher.failure = "acp"), e)
          BY <1>6, <2>1, <3>3 DEF Settle
        <4> QED
          BY <2>0, <2>2, <4>1
      <3>2. CASE watcher.goal # "pause" /\ watcher.goal # "block"
        BY <1>6, <3>2, <2>2 DEF Settle
      <3> QED
        BY <3>1, <3>2, <3>3
    <2> QED
      BY <1>6, <1>0, <2>3 DEF Settle
  <1> QED
    BY <1>1, <1>2, <1>3, <1>4, <1>5, <1>6

\* A step of the run of the watcher.
LEMMA WatcherType == TypeInv /\ WatcherStep => TypeInv'
  BY ReadType, TurnType, SettleType DEF WatcherStep

\* The manager and the process around it.
LEMMA ManagerStepType ==
  ASSUME TypeInv, ManagerStep \/ StopBegin \/ Crash \/ Poll \/ TimerSwallowed
  PROVE  TypeInv'
  <1> USE DEF TypeInv, TypeOK
  <1> project \in Projects /\ manager \in Managers
    OBVIOUS
  <1>0. IdleWatcher \in Watchers /\ IdleWatcher.pc \notin RunPcs
    BY IdleTypes DEF IdleWatcher, RunPcs
  <1>a. \A pc \in ManagerPcs : IdleManager(pc) \in Managers
    BY IdleTypes
  <1>b. NoTasksLeft(project) \in BOOLEAN /\ ShouldWatch(project) \in BOOLEAN
    BY ProjectFields DEF NoTasksLeft, ShouldWatch, HasExec
  <1>1. CASE StopBegin
    <2>1. downs' \in [stops : 0..MaxDowns, crashes : 0..MaxDowns]
      BY <1>1, MaxDownsAssumption DEF StopBegin
    <2>2. manager' \in Managers
      <3>1. CASE project.change
        BY <1>1, <1>b, <3>1, ProjectFields DEF StopBegin, Managers, ManagerPcs
      <3>2. CASE ~project.change
        BY <1>1, <1>a, <3>2 DEF StopBegin, ManagerPcs
      <3> QED
        BY <3>1, <3>2
    <2> QED
      BY <1>1, <2>1, <2>2 DEF StopBegin
  <1>2. CASE HaltUpdate
    <2>1. project' \in Projects
      BY <1>2, ManagerType DEF HaltUpdate
    <2>2. manager' \in Managers
      BY <1>2 DEF HaltUpdate, Managers, ManagerPcs
    <2> QED
      BY <1>2, <2>1, <2>2 DEF HaltUpdate
  <1>3. CASE HaltClose
    <2>1. worker' \in [Sessions -> WorkerStates] /\ known' \subseteq Sessions
      BY <1>3, InterruptType DEF HaltClose
    <2> QED
      BY <1>3, <1>a, <2>1 DEF HaltClose, ManagerPcs
  <1>4. Down => /\ worker' \in [Sessions -> WorkerStates] /\ manager' \in Managers
                /\ client' \in [Clients -> ClientStates]
    BY <1>a, IdleTypes DEF Down, ManagerPcs
  <1>5. CASE ProcessExit
    BY <1>5, <1>0, <1>4 DEF ProcessExit, Down
  <1>6. CASE Crash
    <2>1. downs' \in [stops : 0..MaxDowns, crashes : 0..MaxDowns]
      BY <1>6, MaxDownsAssumption DEF Crash
    <2> QED
      BY <1>6, <1>0, <1>4, <2>1 DEF Crash, Down
  <1>7. CASE BootIdle
    BY <1>7, <1>a, <1>b DEF BootIdle, ManagerPcs
  <1>8. CASE BootAdopt
    <2>1. manager' \in Managers
      BY <1>8, ProjectFields DEF BootAdopt, IdleManager, Managers, ManagerPcs
    <2> QED
      BY <1>8, <2>1 DEF BootAdopt
  <1>9. CASE BootRecover
    <2>1. worker' \in [Sessions -> WorkerStates] /\ known' \subseteq Sessions
      BY <1>9, InterruptType DEF BootRecover
    <2>2. manager' \in Managers
      BY <1>9, <1>b, ProjectFields DEF BootRecover, IdleManager, Managers, ManagerPcs
    <2> QED
      BY <1>9, <2>1, <2>2 DEF BootRecover, Results
  <1>10. CASE BootUpdate
    <2>1. project' \in Projects
      <3>0. project \in Projects
        BY DEF TypeInv, TypeOK
      <3>1. CASE manager.pc = "adopting"
        <4>1. project' = Adopted(project)
          BY <1>10, <3>1 DEF BootUpdate
        <4> QED
          BY <3>0, <4>1, ManagerType
      <3>2. CASE manager.pc = "recovering" /\ RecoveryComplete(project)
        <4>1. project' = Completed(project)
          BY <1>10, <3>2 DEF BootUpdate
        <4> QED
          BY <3>0, <4>1, EndedType
      <3>3. CASE manager.pc = "recovering" /\ ~RecoveryComplete(project)
        <4>1. RoomForSession /\ project' = Recovered(project, Fresh)
          BY <1>10, <3>3 DEF BootUpdate
        <4>2. Fresh \in Sessions
          BY <4>1, FreshLemma
        <4> QED
          BY <3>0, <4>1, <4>2, RecoveredType
      <3> QED
        BY <1>10, <3>1, <3>2, <3>3 DEF BootUpdate
    <2>2. timer' \in BOOLEAN
      BY <1>10, <2>1 DEF BootUpdate, ShouldWatch, HasExec, Projects
    <2> QED
      BY <1>10, <1>a, <2>1, <2>2 DEF BootUpdate, ManagerPcs
  <1>11. CASE Poll
    BY <1>11 DEF Poll
  <1>12. CASE TimerSwallowed
    BY <1>12 DEF TimerSwallowed
  <1> QED
    BY <1>1, <1>2, <1>3, <1>5, <1>6, <1>7, <1>8, <1>9, <1>10, <1>11, <1>12 DEF ManagerStep

\* A command that begins.
LEMMA BeginType ==
  ASSUME TypeInv, NEW c \in Clients, CommandBegin(c)
  PROVE  TypeInv'
  <1> DEFINE Seen == {"none", "synced", "unsynced", "running", "armed", "sync", "blocked", "other"}
  <1>1. PICK command \in Commands, pc \in ClientPcs, seen \in Seen : Begin(c, command, pc, seen)
    <2> USE DEF ClientPcs, Begin
    <2>1. CASE WorkBegin(c)
      <3> DEFINE seen == IF RequiresPlanningSync(project) THEN "unsynced" ELSE "synced"
      <3>1. seen \in Seen /\ Begin(c, "work", "work", seen)
        BY <2>1 DEF WorkBegin
      <3> HIDE DEF seen
      <3> QED
        BY <3>1
    <2>5. CASE ContinueBegin(c)
      BY <2>5 DEF ContinueBegin
    <2>6. CASE PlanBegin(c)
      BY <2>6 DEF PlanBegin
    <2>7. CASE TurnEndBegin(c)
      <3>1. Begin(c, "chat", "planend", "none")
        BY <2>7 DEF TurnEndBegin
      <3> QED
        BY <3>1
    <2>2. CASE NoteBegin(c) \/ PauseBegin(c) \/ CancelBegin(c) \/ DiscardBegin(c)
      BY <2>2 DEF NoteBegin, PauseBegin, CancelBegin, DiscardBegin
    <2>3. CASE StatusBegin(c)
      <3> DEFINE seen == CASE project.status = "planning" /\ project.phase = "planning_sync"
                                /\ ~project.dirty -> "sync"
                           [] project.status = "blocked" -> "blocked"
                           [] OTHER -> "other"
      <3>1. seen \in Seen
        OBVIOUS
      <3>2. Begin(c, "status", "status", seen)
        BY <2>3 DEF StatusBegin
      <3> HIDE DEF seen
      <3> QED
        BY <3>1, <3>2
    <2>4. CASE ArchiveBegin(c) \/ ProposeBegin(c)
      BY <2>4 DEF ArchiveBegin, ProposeBegin
    <2> QED
      BY <2>1, <2>2, <2>3, <2>4, <2>5, <2>6, <2>7 DEF CommandBegin
  <1>2. client' \in [Clients -> ClientStates]
    BY <1>1 DEF Begin, TypeInv, TypeOK, ClientStates
  <1> QED
    BY <1>1, <1>2 DEF Begin, TypeInv, TypeOK

\* The later steps of a command.
LEMMA CommandStepType ==
  ASSUME TypeInv, NEW c \in Clients, CommandStep(c)
  PROVE  TypeInv'
  <1> USE DEF TypeInv, TypeOK
  <1> project \in Projects
    OBVIOUS
  <1>0. Done(c) => client' \in [Clients -> ClientStates]
    BY IdleTypes DEF Done
  <1>a. /\ VisiblePlanning(project) \in Projects
        /\ PlanningReady(project) \in Projects
        /\ Proposed(project) \in Projects
        /\ Noted(project) \in Projects
        /\ PauseRequested(project) \in Projects
        /\ CancelRequested(project) \in Projects
        /\ NothingToDo(project) \in Projects
        /\ \A q \in Projects, e \in BOOLEAN : Counted(q, e) \in Projects
        /\ \A q \in Projects, status \in Statuses, phase \in Phases :
              Reconciled(q, status, phase) \in Projects
    BY CommandType DEF Statuses, Phases
  <1>b. /\ Cancelled(project) \in Projects
        /\ Archived(project) \in Projects
        /\ \A b \in BOOLEAN : \A applyState : /\ Planned(project, applyState, b) \in Projects
                                              /\ PlanningFailed(project, b) \in Projects
    BY EndedType
  <1>1. CASE WorkArm(c)
    <2>1. CASE ApplyState = "all_done"
      BY <1>1, <1>0, <1>a, <2>1 DEF WorkArm
    <2>2. CASE UNCHANGED <<project, result, timer>>
      BY <1>1, <1>0, <2>2 DEF WorkArm
    <2>3. CASE /\ RoomForSession
               /\ result' = "none"
               /\ project' = Counted(Queued(project, Armed("work", Fresh, 0, 0)), FALSE)
               /\ Kick
      <3>1. Armed("work", Fresh, 0, 0) \in Executions
        BY <2>3, FreshLemma, ArmedType, MaxRestartAssumption, ArtifactsAssumption
      <3>2. project' \in Projects
        BY <1>a, <2>3, <3>1, QueuedType
      <3> QED
        BY <1>1, <1>0, <2>3, <3>2 DEF WorkArm, Kick, Results
    <2> QED
      BY <1>1, <2>1, <2>2, <2>3 DEF WorkArm
  <1>2. CASE ContinuePlanning(c)
    BY <1>2, <1>0, <1>a DEF ContinuePlanning, Results
  <1>3. CASE PlanStart(c)
    BY <1>3, <1>0, <1>a DEF PlanStart, Results
  <1>4. CASE TurnEndUpdate(c)
    <2> DEFINE planned == Planned(project, ApplyState, FALSE)
               none == spec.tasks = 0
    <2>a. planned \in Projects /\ none \in BOOLEAN
      BY <1>b
    <2>b. \/ project' = Counted(planned, none)
          \/ \E f \in BOOLEAN : project' = PlanningFailed(project, f)
      BY <1>4 DEF TurnEndUpdate
    <2> HIDE DEF planned, none
    <2>1. project' \in Projects
      <3>1. CASE project' = Counted(planned, none)
        BY <1>a, <2>a, <3>1
      <3>2. CASE \E f \in BOOLEAN : project' = PlanningFailed(project, f)
        BY <1>b, <3>2
      <3> QED
        BY <2>b, <3>1, <3>2
    <2> QED
      BY <1>4, <1>0, <2>1 DEF TurnEndUpdate, Results
  <1>5. CASE NoteUpdate(c)
    BY <1>5, <1>0, <1>a DEF NoteUpdate
  <1>6. CASE Request(c)
    <2>1. project' \in Projects
      BY <1>6, <1>a DEF Request
    <2>2. client' \in [Clients -> ClientStates]
      BY <1>6 DEF Request, ClientStates, ClientPcs
    <2> QED
      BY <1>6, <2>1, <2>2 DEF Request
  <1>7. CASE InterruptAndWake(c)
    <2>1. worker' \in [Sessions -> WorkerStates]
      BY <1>7, InterruptType DEF InterruptAndWake
    <2> QED
      BY <1>7, <1>0, <2>1 DEF InterruptAndWake, Kick
  <1>8. CASE DiscardFiles(c)
    <2>1. client' \in [Clients -> ClientStates]
      BY <1>8 DEF DiscardFiles, ClientStates, ClientPcs
    <2> QED
      BY <1>8, <2>1, SpecTypes DEF DiscardFiles, Results
  <1>9. CASE DiscardUpdate(c)
    BY <1>9, <1>0, <1>b DEF DiscardUpdate
  <1>10. CASE StatusUpdate(c)
    <2> DEFINE counted == Counted(project, spec.tasks = 0)
               synced == [counted EXCEPT !.dirty = FALSE]
    <2>1. counted \in Projects
      BY <1>a
    <2> HIDE DEF counted
    <2>2. synced \in Projects
      BY <2>1, ForgottenType
    <2> HIDE DEF synced
    <2>3. \/ project' = counted
          \/ project' = Reconciled(synced, "ready", "tasks")
          \/ project' = Reconciled(synced, "done", "validating")
          \/ project' = Reconciled(counted, "blocked", "proposal")
          \/ project' = Reconciled(counted, "done", "validating")
      BY <1>10 DEF StatusUpdate, counted, synced
    <2>4. project' \in Projects
      <3>1. Reconciled(synced, "ready", "tasks") \in Projects
        BY <1>a, <2>2 DEF Statuses, Phases
      <3>2. Reconciled(synced, "done", "validating") \in Projects
        BY <1>a, <2>2 DEF Statuses, Phases
      <3>3. Reconciled(counted, "blocked", "proposal") \in Projects
        BY <1>a, <2>1 DEF Statuses, Phases
      <3>4. Reconciled(counted, "done", "validating") \in Projects
        BY <1>a, <2>1 DEF Statuses, Phases
      <3> QED
        BY <2>1, <2>3, <3>1, <3>2, <3>3, <3>4
    <2> QED
      BY <1>10, <1>0, <2>4 DEF StatusUpdate
  <1>11. CASE ArchiveUpdate(c)
    BY <1>11, <1>0, <1>b, SpecTypes DEF ArchiveUpdate, Results
  <1>12. CASE ProposeUpdate(c)
    BY <1>12, <1>0, <1>a, SpecTypes DEF ProposeUpdate, Results
  <1>13. CASE CommandFails(c)
    BY <1>13, <1>0 DEF CommandFails
  <1> QED
    BY <1>1, <1>2, <1>3, <1>4, <1>5, <1>6, <1>7, <1>8, <1>9, <1>10, <1>11, <1>12, <1>13
       DEF CommandStep

\* Every step of the system keeps the types.
LEMMA TypeStep == TypeInv /\ [Next]_vars => TypeInv'
  <1> SUFFICES ASSUME TypeInv, [Next]_vars PROVE TypeInv'
    OBVIOUS
  <1>1. ASSUME NEW s \in Sessions, WorkerStep(s) PROVE TypeInv'
    BY <1>1, WorkerType
  <1>2. ASSUME NEW c \in Clients, CommandBegin(c) \/ CommandStep(c) PROVE TypeInv'
    BY <1>2, BeginType, CommandStepType
  <1>3. CASE WatcherStep
    BY <1>3, WatcherType
  <1>4. CASE ManagerStep \/ StopBegin \/ Crash \/ Poll \/ TimerSwallowed
    BY <1>4, ManagerStepType
  <1>5. CASE PlannerWrites
    BY <1>5, WriteType DEF PlannerWrites, TypeInv, TypeOK
  <1>6. CASE UNCHANGED vars
    BY <1>6 DEF vars, TypeInv, TypeOK
  <1> QED
    BY <1>1, <1>2, <1>3, <1>4, <1>5, <1>6 DEF Next

\* Every variable keeps its type: the record, whatever the interleaving of
\* commands, watcher, stops and crashes, is one that parses back; in
\* particular a restart is never counted beyond the cap.
THEOREM TypeCorrect == Spec => []TypeOK
  <1>1. TypeInv => TypeOK
    BY DEF TypeInv
  <1> QED
    BY <1>1, TypeInit, TypeStep, PTL DEF Spec

-----------------------------------------------------------------------------
(* Workers of this process.                                                *)

\* OwnWorkerAttended with what it rests on: a watcher on the way to starting
\* a worker is not attached to another one.
AttendedInv ==
    /\ OwnWorkerAttended
    /\ watcher.pc \in {"read", "start", "spawn"} => ~watcher.attached

\* What every step but Spawn does to the workers of this process: some end,
\* none begins.
NoneStarts ==
    /\ known' \subseteq known
    /\ \A t \in Sessions : worker'[t] \in Actions => worker[t] \in Actions

\* Interrupting a run and closing a session start no worker.
LEMMA KilledNone ==
  ASSUME TypeOK, NEW s
  PROVE  /\ Interrupt(s) /\ UNCHANGED known => NoneStarts
         /\ CloseSession(s) => NoneStarts
  <1>1. \A t \in Sessions : Killed(s)[t] \in Actions => worker[t] \in Actions
    BY KilledLemma DEF TypeOK
  <1> QED
    BY <1>1 DEF NoneStarts, Interrupt, CloseSession

\* A step that leaves the watcher alone and starts no worker.
LEMMA WatcherStays ==
  ASSUME TypeOK, AttendedInv, NoneStarts, UNCHANGED watcher
  PROVE  AttendedInv'
  BY DEF AttendedInv, OwnWorkerAttended, NoneStarts, Working, TypeOK

\* A step of a watcher that has no worker starts none either.
LEMMA WatcherGoesOn ==
  ASSUME TypeOK, NoneStarts,
         \A s \in known : ~Working(s),
         watcher'.pc \in {"read", "start", "spawn"} => ~watcher'.attached
  PROVE  AttendedInv'
  BY DEF AttendedInv, OwnWorkerAttended, NoneStarts, Working, TypeOK

\* Workers, commands and the manager.
LEMMA AttendedElsewhere ==
  ASSUME TypeOK, AttendedInv,
         \/ \E s \in Sessions : WorkerStep(s)
         \/ \E c \in Clients : CommandBegin(c) \/ CommandStep(c)
         \/ TimerSwallowed \/ Poll \/ PlannerWrites \/ StopBegin
         \/ HaltUpdate \/ HaltClose \/ BootIdle \/ BootAdopt \/ BootRecover \/ BootUpdate
  PROVE  AttendedInv'
  <1>1. UNCHANGED <<worker, known>> => NoneStarts
    BY DEF NoneStarts
  <1>2. ASSUME NEW s \in Sessions, WorkerStep(s) PROVE NoneStarts /\ UNCHANGED watcher
    <2>1. CASE CompleteTask(s) \/ GenerateArtifact(s) \/ Report(s)
      BY <1>1, <2>1 DEF CompleteTask, GenerateArtifact, Report
    <2>2. CASE WorkerExit(s)
      BY <2>2 DEF WorkerExit, NoneStarts, TypeOK
    <2> QED
      BY <1>2, <2>1, <2>2 DEF WorkerStep
  <1>3. ASSUME NEW c \in Clients, CommandBegin(c) PROVE NoneStarts /\ UNCHANGED watcher
    <2>1. UNCHANGED <<worker, known, watcher>>
      BY <1>3 DEF CommandBegin, Begin, WorkBegin, ContinueBegin, PlanBegin, TurnEndBegin,
                  NoteBegin, PauseBegin, CancelBegin, DiscardBegin, StatusBegin,
                  ArchiveBegin, ProposeBegin
    <2> QED
      BY <1>1, <2>1
  <1>4. ASSUME NEW c \in Clients, CommandStep(c) PROVE NoneStarts /\ UNCHANGED watcher
    <2>1. CASE InterruptAndWake(c)
      BY <1>1, <2>1, KilledNone DEF InterruptAndWake
    <2>2. CASE WorkArm(c) \/ ContinuePlanning(c) \/ PlanStart(c) \/ TurnEndUpdate(c)
      BY <1>1, <2>2 DEF WorkArm, ContinuePlanning, PlanStart, TurnEndUpdate
    <2>3. CASE NoteUpdate(c) \/ Request(c) \/ DiscardFiles(c) \/ DiscardUpdate(c)
      BY <1>1, <2>3 DEF NoteUpdate, Request, DiscardFiles, DiscardUpdate
    <2>4. CASE StatusUpdate(c) \/ ArchiveUpdate(c) \/ ProposeUpdate(c) \/ CommandFails(c)
      BY <1>1, <2>4 DEF StatusUpdate, ArchiveUpdate, ProposeUpdate, CommandFails
    <2> QED
      BY <1>4, <2>1, <2>2, <2>3, <2>4 DEF CommandStep
  <1>5. TimerSwallowed \/ Poll \/ PlannerWrites => NoneStarts /\ UNCHANGED watcher
    BY <1>1 DEF TimerSwallowed, Poll, PlannerWrites
  <1>6. StopBegin \/ HaltUpdate \/ HaltClose => NoneStarts /\ UNCHANGED watcher
    BY <1>1, KilledNone DEF StopBegin, HaltUpdate, HaltClose
  <1>7. BootIdle \/ BootAdopt \/ BootRecover \/ BootUpdate => NoneStarts /\ UNCHANGED watcher
    BY <1>1, KilledNone DEF BootIdle, BootAdopt, BootRecover, BootUpdate
  <1> QED
    BY <1>2, <1>3, <1>4, <1>5, <1>6, <1>7, WatcherStays

\* The watcher.
LEMMA AttendedWatcher ==
  ASSUME TypeInv, AttendedInv, WatcherStep
  PROVE  AttendedInv'
  <1> USE DEF TypeInv
  <1>a. UNCHANGED <<worker, known>> => NoneStarts
    BY DEF NoneStarts
  <1>b. watcher.pc # "turn" \/ watcher.attached => \A s \in known : ~Working(s)
    BY DEF AttendedInv, OwnWorkerAttended
  <1>c. watcher \in Watchers
    BY DEF TypeOK
  <1>1. CASE RunStart
    <2>1. ~watcher'.attached
      BY <1>1 DEF RunStart, IdleWatcher
    <2> QED
      BY <1>1, <1>a, <1>b, <2>1, WatcherGoesOn DEF RunStart
  <1>2. CASE Leave \/ RunFails
    <2>1. watcher'.pc \notin {"read", "start", "spawn"}
      <3>1. CASE Leave
        BY <3>1 DEF Leave, IdleWatcher
      <3>2. CASE RunFails
        <4>1. \/ watcher' = IdleWatcher
              \/ \E f \in {"acp", "other"} :
                    watcher' = [watcher EXCEPT !.pc = "close", !.goal = "block",
                                               !.exec = project.exec, !.failure = f]
          BY <3>2 DEF RunFails
        <4>2. CASE watcher' = IdleWatcher
          BY <4>2 DEF IdleWatcher
        <4>3. ASSUME NEW f, watcher' = [watcher EXCEPT !.pc = "close", !.goal = "block",
                                                       !.exec = project.exec, !.failure = f]
              PROVE  watcher'.pc = "close"
          BY <4>3, <1>c DEF Watchers
        <4> QED
          BY <4>1, <4>2, <4>3
      <3> QED
        BY <1>2, <3>1, <3>2
    <2> QED
      BY <1>2, <1>a, <1>b, <2>1, WatcherGoesOn DEF Leave, RunFails
  <1>3. CASE ReadApply
    <2>1. NoneStarts
      BY <1>3, <1>a, KilledNone DEF ReadApply
    <2>2. watcher'.pc \in {"read", "start", "spawn"} => ~watcher'.attached
      <3>1. \/ watcher' = [watcher EXCEPT !.pc = "close", !.goal = "block", !.failure = "other"]
            \/ watcher' = [watcher EXCEPT !.pc = "close", !.goal = "done"]
            \/ watcher' = [watcher EXCEPT !.pc = "turn", !.attached = TRUE]
            \/ watcher' = [watcher EXCEPT !.pc = "start"]
        BY <1>3 DEF ReadApply
      <3>2. ~watcher.attached
        BY <1>3 DEF ReadApply, AttendedInv
      <3>3. CASE watcher' = [watcher EXCEPT !.pc = "start"]
        BY <3>2, <3>3, <1>c DEF Watchers
      <3>4. CASE watcher' = [watcher EXCEPT !.pc = "turn", !.attached = TRUE]
        BY <3>4, <1>c DEF Watchers
      <3>5. CASE watcher' = [watcher EXCEPT !.pc = "close", !.goal = "block", !.failure = "other"]
        BY <3>5, <1>c DEF Watchers
      <3>6. CASE watcher' = [watcher EXCEPT !.pc = "close", !.goal = "done"]
        BY <3>6, <1>c DEF Watchers
      <3> QED
        BY <3>1, <3>3, <3>4, <3>5, <3>6
    <2> QED
      BY <1>3, <1>b, <2>1, <2>2, WatcherGoesOn DEF ReadApply
  <1>4. CASE ReadStatus
    <2>1. watcher'.pc \in {"read", "start", "spawn"} => ~watcher'.attached
      <3>1. CASE watcher' = [watcher EXCEPT !.pc = "synced"]
        BY <3>1, <1>c DEF Watchers
      <3>2. CASE watcher' = [watcher EXCEPT
                               !.pc = IF watcher.exec.state = "running" THEN "turn" ELSE "start",
                               !.attached = watcher.exec.state = "running",
                               !.exec.artifact = SelectedArtifact]
        <4>1. CASE watcher.exec.state = "running"
          BY <3>2, <4>1, <1>c DEF Watchers
        <4>2. CASE watcher.exec.state # "running"
          BY <3>2, <4>2, <1>c DEF Watchers
        <4> QED
          BY <4>1, <4>2
      <3>3. CASE watcher' = [watcher EXCEPT !.pc = "close", !.goal = "block", !.failure = "other"]
        BY <3>3, <1>c DEF Watchers
      <3> QED
        BY <1>4, <3>1, <3>2, <3>3 DEF ReadStatus
    <2> QED
      BY <1>4, <1>a, <1>b, <2>1, WatcherGoesOn DEF ReadStatus
  <1>5. CASE ReadSynced \/ SetRunning
    <2>1. watcher'.pc \in {"read", "start", "spawn"} => ~watcher'.attached
      BY <1>5, <1>c DEF ReadSynced, SetRunning, AttendedInv, Watchers
    <2> QED
      BY <1>5, <1>a, <1>b, <2>1, WatcherGoesOn DEF ReadSynced, SetRunning
  <1>6. CASE Spawn
    <2>1. \A s \in known : ~Working(s)
      BY <1>6, <1>b DEF Spawn
    <2>2. \A s \in known' : Working(s)' => s = watcher.exec.sess
      BY <1>6, <2>1 DEF Spawn, Working, TypeOK
    <2>3. /\ watcher'.pc = "turn" /\ ~watcher'.attached
          /\ watcher'.exec.sess = watcher.exec.sess
      BY <1>6, <1>c DEF Spawn, AttendedInv, Watchers
    <2> QED
      BY <2>2, <2>3 DEF AttendedInv, OwnWorkerAttended
  <1>7. CASE CaptureResult
    BY <1>7, KilledNone, WatcherStays DEF CaptureResult
  <1>8. CASE TurnEnds
    <2>1. \A s \in known : ~Working(s)
      BY <1>8 DEF TurnEnds, TurnOver, AttendedInv, OwnWorkerAttended
    <2>2. NoneStarts
      BY <1>8 DEF TurnEnds, NoneStarts, TypeOK
    <2>3. watcher'.pc \notin {"read", "start", "spawn"}
      BY <1>8, <1>c DEF TurnEnds, AfterTurn, IdleWatcher, Watchers
    <2> QED
      BY <2>1, <2>2, <2>3, WatcherGoesOn
  <1>9. CASE WatchEnds
    <2>1. NoneStarts
      BY <1>9, KilledNone DEF WatchEnds
    <2>2. watcher'.pc \notin {"read", "start", "spawn"}
      <3>1. \A f : AfterTurn(f) => watcher'.pc \in {"resolve", "idle"}
        BY <1>c DEF AfterTurn, IdleWatcher, Watchers
      <3> QED
        BY <1>9, <3>1 DEF WatchEnds
    <2> QED
      BY <1>9, <1>b, <2>1, <2>2, WatcherGoesOn DEF WatchEnds
  <1>10. CASE Resolve
    <2>1. watcher'.pc \notin {"read", "start", "spawn"}
      BY <1>10, <1>c DEF Resolve, Watchers
    <2> QED
      BY <1>10, <1>a, <1>b, <2>1, WatcherGoesOn DEF Resolve
  <1>11. CASE RestartClose
    <2>1. NoneStarts
      BY <1>11, <1>a, KilledNone DEF RestartClose
    <2>2. watcher'.pc \notin {"read", "start", "spawn"}
      BY <1>11, <1>c DEF RestartClose, Watchers
    <2> QED
      BY <1>11, <1>b, <2>1, <2>2, WatcherGoesOn DEF RestartClose
  <1>12. CASE RestartUpdate \/ Rearm \/ Settle
    <2>1. watcher'.pc \notin {"read", "start", "spawn"}
      BY <1>12 DEF RestartUpdate, Rearm, Settle, IdleWatcher
    <2> QED
      BY <1>12, <1>a, <1>b, <2>1, WatcherGoesOn DEF RestartUpdate, Rearm, Settle
  <1>13. CASE Finish
    <2>1. watcher'.pc \notin {"read", "start", "spawn"}
      BY <1>13, <1>c DEF Finish, Watchers
    <2> QED
      BY <1>13, <1>a, <1>b, <2>1, WatcherGoesOn DEF Finish
  <1>14. CASE Close
    <2>1. watcher'.pc \notin {"read", "start", "spawn"}
      BY <1>14, <1>c DEF Close, Watchers
    <2>2. NoneStarts
      BY <1>14, KilledNone DEF Close
    <2> QED
      BY <1>14, <1>b, <2>1, <2>2, WatcherGoesOn DEF Close
  <1> QED
    BY <1>1, <1>2, <1>3, <1>4, <1>5, <1>6, <1>7, <1>8, <1>9, <1>10, <1>11, <1>12, <1>13,
       <1>14 DEF WatcherStep

\* Every step keeps the workers of the process attended.
LEMMA AttendedStep == TypeInv /\ AttendedInv /\ [Next]_vars => AttendedInv'
  <1> SUFFICES ASSUME TypeInv, AttendedInv, [Next]_vars PROVE AttendedInv'
    OBVIOUS
  <1>1. ProcessExit \/ Crash => AttendedInv'
    BY DEF ProcessExit, Crash, Down, IdleWatcher, AttendedInv, OwnWorkerAttended
  <1>2. UNCHANGED vars => AttendedInv'
    BY DEF vars, AttendedInv, OwnWorkerAttended, Working
  <1> QED
    BY <1>1, <1>2, AttendedElsewhere, AttendedWatcher DEF Next, ManagerStep, TypeInv

\* Whatever the number of clients and sessions, however turns, requests,
\* results, restarts, stops and crashes interleave: a worker of the gateway
\* process works only while the watcher waits for it.
THEOREM OwnWorkers == Spec => []OwnWorkerAttended
  <1>1. Init => AttendedInv
    BY DEF Init, IdleWatcher, AttendedInv, OwnWorkerAttended
  <1>2. AttendedInv => OwnWorkerAttended
    BY DEF AttendedInv
  <1> QED
    BY <1>1, <1>2, TypeInit, TypeStep, AttendedStep, PTL DEF Spec

\* The process never has two workers, whatever the client asks and however
\* often the watcher restarts them.
COROLLARY OneOwnWorker ==
  Spec => [](\A s, t \in known : Working(s) /\ Working(t) => s = t)
  <1>1. OwnWorkerAttended => \A s, t \in known : Working(s) /\ Working(t) => s = t
    BY DEF OwnWorkerAttended
  <1> QED
    BY <1>1, OwnWorkers, PTL
=============================================================================
