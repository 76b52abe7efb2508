------------------------------ MODULE Execution ------------------------------
(***************************************************************************)
(* The background execution of one ClawSpec project: the ExecutionWatcher  *)
(* and the WatcherManager of src/watchers/manager.ts, the ACP worker       *)
(* sessions behind src/acp/client.ts, the chat commands of                 *)
(* src/orchestrator/service.ts and the stops, crashes and restarts of the  *)
(* gateway process that hosts them.                                        *)
(*                                                                         *)
(* All of them share the project record (state.json), execution-result     *)
(* .json and the OpenSpec change directory.  JavaScript runs one callback  *)
(* at a time, so a step of this module is what happens from one `await` on *)
(* a lock, a file another party writes, the openspec CLI or the worker to  *)
(* the next; updateProject reads and writes under the file lock and is one *)
(* step.                                                                   *)
(*                                                                         *)
(* Simplifications: one channel with one project; the change directory is  *)
(* `spec` (does it exist, how many planning artifacts are there, how many  *)
(* tasks are open), its artifacts built one after the other;               *)
(* execution-control.json is left out, because no code reads it while a    *)
(* background worker runs (the prompt of the worker does not name it);     *)
(* notifications, progress lines and summaries are left out.               *)
(*                                                                         *)
(* A definition whose comment begins with "Fault" is a wrong variant of    *)
(* the one after it.                                                       *)
(***************************************************************************)
EXTENDS ProjectRecord, FiniteSets

CONSTANTS
    Clients,        \* concurrent chat commands or hooks of the channel
    Commands,       \* the commands the users of this instance issue
    Starts,         \* the projects the instance starts from, see Init
    MaxTasks,       \* bound on the open tasks of the change
    DownKinds,      \* how the gateway may go down: "stop", "crash"
    MaxDowns,       \* bound on the number of times it goes down
    HonestWorker,   \* a worker reports done only when no task is open
    OpenSpecFails,  \* the openspec CLI may fail although the change exists
    ProbeReliable   \* `acpx status` always answers, and truthfully

ASSUME MaxTasksAssumption == MaxTasks \in Nat \ {0}
ASSUME MaxDownsAssumption == MaxDowns \in Nat
ASSUME ClientsAssumption == IsFiniteSet(Clients)
ASSUME SwitchesAssumption ==
    {HonestWorker, OpenSpecFails, ProbeReliable} \subseteq BOOLEAN

VARIABLES
    project,    \* the record in state.json
    spec,       \* the change directory, as openspec sees it
    result,     \* status in execution-result.json, "none" without the file
    worker,     \* per ACP session: what its worker does, or how it ended
    known,      \* sessionDescriptors of this process's AcpWorkerClient
    watcher,    \* the run of the ExecutionWatcher in flight
    timer,      \* the timer kick() sets
    manager,    \* the WatcherManager and the gateway process around it
    client,     \* per client: the command it executes
    downs       \* how often the gateway was stopped, and how often it crashed

vars == <<project, spec, result, worker, known, watcher, timer, manager,
          client, downs>>

Specs == [dir : BOOLEAN, arts : 0..Artifacts, tasks : 0..MaxTasks]

NoChange == [dir |-> FALSE, arts |-> 0, tasks |-> 0]

\* paused and cancelled are never written by a background worker.
Results == {"none", "running", "blocked", "done"}

\* readExecutionResult of a status isTerminalExecutionStatus accepts.
Terminal == {"blocked", "done"}

\* A worker that runs has the action of its prompt, one that ended the way
\* it did: cleanly, by a failure worth a retry, or by another one.
WorkerStates == Actions \cup {"off", "clean", "acp", "other"}

WatcherPcs == {"idle", "leave", "read", "synced", "start", "spawn", "turn",
               "resolve", "restart", "restarted", "finish", "close",
               "settle", "rearm"}

Goals == {"none", "cancel", "pause", "block", "done", "dirty",
          "plan_ready", "plan_done", "plan_blocked"}

\* The local variables of a run: exec is the execution block of the record
\* it read, attached whether it only watches a session it did not start.
Watchers == [pc : WatcherPcs, goal : Goals, action : Actions,
             exec : Executions \cup {NoExec}, dirty : BOOLEAN,
             attached : BOOLEAN, result : Results,
             failure : {"none", "acp", "other"}]

IdleWatcher == [pc |-> "idle", goal |-> "none", action |-> "work",
                exec |-> NoExec, dirty |-> FALSE, attached |-> FALSE,
                result |-> "none", failure |-> "none"]

ManagerPcs == {"up", "halting", "closing", "stopped", "down", "adopting",
               "recovering"}

\* exec and done are what stop() and start() read before their updates.
Managers == [pc : ManagerPcs, exec : Executions \cup {NoExec}, done : BOOLEAN]

IdleManager(pc) == [pc |-> pc, exec |-> NoExec, done |-> FALSE]

ClientPcs == {"idle", "work", "continue", "plan", "planend", "note", "pause",
              "cancel", "interrupt", "discard", "discarded", "status",
              "archive", "propose"}

ClientStates == [pc : ClientPcs,
                 seen : {"none", "synced", "unsynced", "running", "armed",
                         "sync", "blocked", "other"}]

IdleClient == [pc |-> "idle", seen |-> "none"]

TypeOK ==
    /\ project \in Projects
    /\ spec \in Specs
    /\ result \in Results
    /\ worker \in [Sessions -> WorkerStates]
    /\ known \subseteq Sessions
    /\ watcher \in Watchers
    /\ timer \in BOOLEAN
    /\ manager \in Managers
    /\ client \in [Clients -> ClientStates]
    /\ downs \in [stops : 0..MaxDowns, crashes : 0..MaxDowns]

-----------------------------------------------------------------------------
(* openspec, sessions, timers.                                             *)

\* Fault: a change without tasks.md has no open task.
ApplyStateByTasks ==
    CASE spec.tasks = 0 -> "all_done"
      [] spec.tasks # 0 /\ spec.arts < Artifacts -> "blocked"
      [] OTHER -> "ready"

\* `openspec instructions apply`: the state of the change.
ApplyState ==
    CASE spec.arts < Artifacts -> "blocked"
      [] spec.arts = Artifacts /\ spec.tasks = 0 -> "all_done"
      [] OTHER -> "ready"

\* loadTaskCounts(p).remaining = 0: the counts of tasks.md, which the last
\* artifact brings, and without that file the counts on record.
NoTasksLeft(p) ==
    IF spec.arts = Artifacts THEN spec.tasks = 0 ELSE p.empty

\* The openspec CLI fails without the change directory.
OpenSpecError == ~spec.dir \/ OpenSpecFails

Working(s) == worker[s] \in Actions

\* Session keys contain the time they were made: a key in use is not made
\* again.  The set of keys is finite, so a step that needs one waits for one.
SessionsInUse ==
    {s \in Sessions : \/ worker[s] # "off"
                      \/ s \in known
                      \/ s \in {project.exec.sess, watcher.exec.sess, manager.exec.sess}}

RoomForSession == SessionsInUse # Sessions

Fresh == CHOOSE s \in Sessions : s \notin SessionsInUse

\* cancelSession kills the process this client runs for the session.  It
\* reaches no session that an earlier process started.  The process stops at
\* once: the time the watcher waits for it (RUN_TURN_SETTLE_GRACE_MS) is taken
\* to be enough.
Killed(s) ==
    [t \in Sessions |-> IF t = s /\ t \in known /\ Working(t) THEN "acp" ELSE worker[t]]

Interrupt(s) == worker' = Killed(s)

\* Fault: the descriptor is dropped only with a process to kill.
CloseWorkingSession(s) ==
    worker' = Killed(s) /\ known' = IF worker[s] = "off" THEN known ELSE known \ {s}

CloseSession(s) == worker' = Killed(s) /\ known' = known \ {s}

\* kick(), which does nothing once the manager shut the watchers down.
Kick == timer' = (timer \/ manager.pc = "up")

\* The commands run while the service is registered.
Serving == manager.pc \in {"up", "halting", "closing"}

-----------------------------------------------------------------------------
(* The ACP worker: a language model that works on the change directory and *)
(* reports in execution-result.json.                                       *)

\* The task is implemented and ticked off in tasks.md.
CompleteTask(s) ==
    /\ worker[s] = "work"
    /\ spec.dir /\ spec.tasks > 0
    /\ spec' = [spec EXCEPT !.tasks = @ - 1]
    /\ UNCHANGED <<project, result, worker, known, watcher, timer, manager, client, downs>>

\* The next artifact is written, or one that exists is written again; the
\* last one is tasks.md.
WriteArtifact ==
    /\ spec.dir
    /\ \/ /\ spec.arts + 1 < Artifacts
          /\ spec' = [spec EXCEPT !.arts = @ + 1]
       \/ /\ spec.arts + 1 >= Artifacts
          /\ \E n \in 1..MaxTasks :
                spec' = [spec EXCEPT !.arts = Artifacts, !.tasks = n]

GenerateArtifact(s) ==
    /\ worker[s] = "plan"
    /\ WriteArtifact
    /\ UNCHANGED <<project, result, worker, known, watcher, timer, manager, client, downs>>

\* buildAcpPlanningTurnPrompt asks for `running`, or `blocked`.
Report(s) ==
    /\ Working(s) /\ result \notin Terminal
    /\ \E r \in Results \ {"none", result} :
          /\ worker[s] = "plan" => r # "done"
          /\ r = "done" /\ HonestWorker => spec.tasks = 0
          /\ result' = r
    /\ UNCHANGED <<project, spec, worker, known, watcher, timer, manager, client, downs>>

\* The worker ends.  Only the process that started it learns how.
WorkerExit(s) ==
    /\ Working(s)
    /\ \E e \in {"clean", "acp", "other"} :
          worker' = [worker EXCEPT ![s] = IF s \in known THEN e ELSE "off"]
    /\ UNCHANGED <<project, spec, result, known, watcher, timer, manager, client, downs>>

-----------------------------------------------------------------------------
(* The run of an ExecutionWatcher.                                         *)

\* A request finds the run still in the queue.
StopsAtOnce ==
    /\ ShouldWatch(project) /\ project.exec.state # "running"
    /\ project.cancel \/ project.pause

\* run() and processProject(): read the record and choose what to do.
RunStart ==
    /\ manager.pc = "up" /\ timer /\ watcher.pc = "idle"
    /\ timer' = FALSE
    /\ watcher' =
         [IdleWatcher EXCEPT
            !.pc = CASE ~ShouldWatch(project) -> "leave"
                     [] StopsAtOnce -> "close"
                     [] OTHER -> "read",
            !.goal = CASE StopsAtOnce /\ project.cancel -> "cancel"
                       [] StopsAtOnce /\ ~project.cancel -> "pause"
                       [] OTHER -> "none",
            !.action = IF PlanningPending(project) THEN "plan" ELSE "work",
            !.exec = project.exec,
            !.dirty = project.dirty]
    /\ UNCHANGED <<project, spec, result, worker, known, manager, client, downs>>

\* The timer fires during a run: run() returns, and nothing kicks again.
TimerSwallowed ==
    /\ timer /\ watcher.pc # "idle"
    /\ timer' = FALSE
    /\ UNCHANGED <<project, spec, result, worker, known, watcher, manager, client, downs>>

\* Nothing to watch: onIdle() and dispose(), which clears the timer.
Leave ==
    /\ watcher.pc = "leave"
    /\ watcher' = IdleWatcher
    /\ timer' = FALSE
    /\ UNCHANGED <<project, spec, result, worker, known, manager, client, downs>>

\* An openspec command fails: run() blocks the project it reads again.
RunFails ==
    /\ watcher.pc \in {"read", "synced", "finish"} /\ OpenSpecError
    /\ IF manager.pc = "up" /\ project.change /\ project.status # "done"
       THEN \E f \in {"acp", "other"} :
              watcher' = [watcher EXCEPT !.pc = "close", !.goal = "block",
                                         !.exec = project.exec, !.failure = f]
       ELSE watcher' = IdleWatcher
    /\ UNCHANGED <<project, spec, result, worker, known, timer, manager, client, downs>>

\* processImplementation, up to the turn.
ReadApply ==
    /\ watcher.pc = "read" /\ watcher.action = "work" /\ spec.dir
    /\ \/ /\ ApplyState = "blocked"
          /\ watcher' = [watcher EXCEPT !.pc = "close", !.goal = "block", !.failure = "other"]
          /\ UNCHANGED worker
       \/ /\ ApplyState = "all_done"
          /\ IF watcher.exec.state = "running" THEN Interrupt(watcher.exec.sess) ELSE UNCHANGED worker
          /\ watcher' = [watcher EXCEPT !.pc = "close", !.goal = "done"]
       \/ /\ ApplyState = "ready"
          /\ watcher' = IF watcher.exec.state = "running"
                        THEN [watcher EXCEPT !.pc = "turn", !.attached = TRUE]
                        ELSE [watcher EXCEPT !.pc = "start"]
          /\ UNCHANGED worker
    /\ UNCHANGED <<project, spec, result, known, timer, manager, client, downs>>

\* processPlanning, up to the turn.  With a dirty journal every artifact is
\* generated again, in order, whatever exists already.
Forced == watcher.dirty /\ watcher.exec.artifact < Artifacts

Pending == spec.arts < Artifacts

SelectedArtifact ==
    IF watcher.exec.state = "running" /\ watcher.exec.artifact # 0
    THEN watcher.exec.artifact
    ELSE IF Forced THEN watcher.exec.artifact + 1 ELSE spec.arts + 1

ReadStatus ==
    /\ watcher.pc = "read" /\ watcher.action = "plan" /\ spec.dir
    /\ \/ /\ ~Forced /\ ~Pending
          /\ watcher' = [watcher EXCEPT !.pc = "synced"]
       \/ /\ Forced \/ Pending
          /\ watcher' = [watcher EXCEPT
                           !.pc = IF watcher.exec.state = "running" THEN "turn" ELSE "start",
                           !.attached = watcher.exec.state = "running",
                           !.exec.artifact = SelectedArtifact]
       \/ /\ ~Forced /\ Pending   \* no artifact is ready to be built
          /\ watcher' = [watcher EXCEPT !.pc = "close", !.goal = "block", !.failure = "other"]
    /\ UNCHANGED <<project, spec, result, worker, known, timer, manager, client, downs>>

\* processPlanning has nothing to generate: read the change and the record
\* again.  Notes count as new when they are later than execution.startedAt,
\* which only a running execution has.
ReadSynced ==
    /\ watcher.pc = "synced" /\ spec.dir
    /\ watcher' = [watcher EXCEPT
          !.pc = "close",
          !.goal = CASE ApplyState = "ready" -> "plan_ready"
                     [] ApplyState = "all_done" -> "plan_done"
                     [] OTHER -> "plan_blocked",
          !.exec = IF HasExec(project) THEN project.exec ELSE watcher.exec,
          !.dirty = project.dirty /\ project.late /\ project.exec.state = "running"]
    /\ UNCHANGED <<project, spec, result, worker, known, timer, manager, client, downs>>

\* setRunningState: the session is the one of the record that was read.
SetRunning ==
    /\ watcher.pc = "start"
    /\ project' = Started(project, watcher.action, watcher.exec.sess,
                          IF watcher.action = "plan" THEN watcher.exec.artifact ELSE 0)
    /\ watcher' = [watcher EXCEPT !.pc = "spawn", !.exec = project'.exec]
    /\ UNCHANGED <<spec, result, worker, known, timer, manager, client, downs>>

\* runTurn: the session is ensured and the worker started, or that fails.
Spawn ==
    /\ watcher.pc = "spawn"
    /\ result' = "none"
    /\ known' = known \cup {watcher.exec.sess}
    /\ \E how \in {watcher.action, "acp", "other"} :
          worker' = [worker EXCEPT ![watcher.exec.sess] = how]
    /\ watcher' = [watcher EXCEPT !.pc = "turn"]
    /\ UNCHANGED <<project, spec, timer, manager, client, downs>>

\* Faults: the watcher goes on as soon as there is a result, or as soon as it
\* is told to shut down.
TurnOverOnResult == ~Working(watcher.exec.sess) \/ result \in Terminal
TurnOverOnShutdown == ~Working(watcher.exec.sess) \/ manager.pc # "up"

\* The promise of runTurn is settled by the exit of the worker process.
TurnOver == ~Working(watcher.exec.sess)

\* Fault: an error that is not the ACP runtime's ends the run unhandled.
AfterGoodTurn(failure) ==
    watcher' = IF manager.pc = "up" /\ failure # "other"
               THEN [watcher EXCEPT !.pc = "resolve", !.failure = failure]
               ELSE IdleWatcher

\* Once a turn is over a watcher that was shut down gives up.
AfterTurn(failure) ==
    watcher' = IF manager.pc = "up"
               THEN [watcher EXCEPT !.pc = "resolve", !.failure = failure]
               ELSE IdleWatcher

\* watchTerminalResult: a terminal result ends the worker.
CaptureResult ==
    /\ watcher.pc = "turn" /\ ~watcher.attached
    /\ result \in Terminal /\ Working(watcher.exec.sess)
    /\ Interrupt(watcher.exec.sess)
    /\ UNCHANGED <<project, spec, result, known, watcher, timer, manager, client, downs>>

\* runTurn is over: the worker ended or was killed.
TurnEnds ==
    /\ watcher.pc = "turn" /\ ~watcher.attached
    /\ TurnOver
    /\ AfterTurn(IF worker[watcher.exec.sess] \in {"acp", "other"}
                 THEN worker[watcher.exec.sess] ELSE "none")
    /\ worker' = [worker EXCEPT ![watcher.exec.sess] = IF @ \in Actions THEN @ ELSE "off"]
    /\ UNCHANGED <<project, spec, result, known, timer, manager, client, downs>>

\* The recovered branch of runAcpTurnWithTracking has no process to wait
\* for: it polls the result file and, as long as there is none, the status
\* of the session.
WatchEnds ==
    /\ watcher.pc = "turn" /\ watcher.attached
    /\ \/ /\ result \in Terminal
          /\ AfterTurn("none")
       \/ /\ result = "none" /\ (ProbeReliable => ~Working(watcher.exec.sess))
          /\ AfterTurn("acp")
    /\ Interrupt(watcher.exec.sess)
    /\ UNCHANGED <<project, spec, result, known, timer, manager, client, downs>>

\* Fault: a failure is dealt with first.
RequestedAfterSuccess(request) ==
    /\ watcher.failure = "none"
    /\ IF request = "cancel" THEN project.cancel ELSE project.pause /\ ~project.cancel

\* What the user asked for, in the record as it is now.
Requested(request) ==
    IF request = "cancel" THEN project.cancel ELSE project.pause /\ ~project.cancel

\* resolvePostRunState, and the choice between recoverWorkerFailureIfNeeded,
\* dispatchTerminalResult and what follows a turn.  A request comes first, and
\* a result on file wins over the fallback.
Resolve ==
    /\ watcher.pc = "resolve"
    /\ LET failed == watcher.failure # "none" /\ result = "none"
           blocked == result = "blocked" \/ failed
           next(pc, goal) == [watcher EXCEPT !.pc = pc, !.goal = goal, !.result = result]
       IN \/ /\ Requested("cancel")
             /\ watcher' = [next("close", "cancel") EXCEPT !.exec = project.exec]
          \/ /\ Requested("pause")
             /\ watcher' = [next("close", "pause") EXCEPT !.exec = project.exec]
          \/ /\ ~Requested("cancel") /\ ~Requested("pause")
             /\ \/ /\ failed /\ watcher.failure = "acp"
                   /\ watcher' = next("restart", "none")
                \/ /\ failed /\ watcher.failure = "other"
                   /\ watcher' = [next("close", "block") EXCEPT !.exec = project.exec]
                \/ /\ result = "blocked"   \* the text is the worker's
                   /\ \E f \in {"acp", "other"} :
                        watcher' = [next("close", "block") EXCEPT
                                       !.exec = project.exec, !.failure = f]
                \/ /\ ~blocked
                   /\ watcher' = next(IF watcher.action = "plan" THEN "rearm" ELSE "finish", "none")
    /\ UNCHANGED <<project, spec, result, worker, known, timer, manager, client, downs>>

\* Fault: off by one.
CapPassed(exec) == exec.restarts > MaxRestart

CapReached(exec) == exec.restarts + 1 > MaxRestart

\* recoverWorkerFailureIfNeeded: count the restart against the cap, close
\* the session ...
RestartClose ==
    /\ watcher.pc = "restart"
    /\ LET exec == IF HasExec(project) THEN project.exec ELSE watcher.exec
       IN IF CapReached(exec)
          THEN /\ watcher' = [watcher EXCEPT !.pc = "close", !.goal = "block", !.exec = project.exec]
               /\ UNCHANGED <<result, worker, known>>
          ELSE /\ CloseSession(exec.sess)
               /\ result' = "none"
               /\ watcher' = [watcher EXCEPT !.pc = "restarted", !.exec = exec,
                                             !.exec.restarts = exec.restarts + 1]
    /\ UNCHANGED <<project, spec, timer, manager, client, downs>>

\* ... and queue the run again.
RestartUpdate ==
    /\ watcher.pc = "restarted" /\ RoomForSession
    /\ project' = Restarted(project, watcher.exec, watcher.exec.restarts, Fresh)
    /\ watcher' = IdleWatcher
    /\ Kick
    /\ UNCHANGED <<spec, result, worker, known, manager, client, downs>>

\* processImplementation after a turn without a terminal condition.
Finish ==
    /\ watcher.pc = "finish" /\ spec.dir
    /\ \/ /\ spec.tasks = 0 \/ watcher.result = "done"
          /\ watcher' = [watcher EXCEPT !.pc = "close", !.goal = "done", !.exec = project.exec]
       \/ /\ ~(spec.tasks = 0 \/ watcher.result = "done") /\ project.dirty
          /\ watcher' = [watcher EXCEPT !.pc = "close", !.goal = "dirty",
                           !.exec = IF HasExec(project) THEN project.exec ELSE @]
       \/ /\ ~(spec.tasks = 0 \/ watcher.result = "done") /\ ~project.dirty
          /\ watcher' = [watcher EXCEPT !.pc = "rearm"]
    /\ UNCHANGED <<project, spec, result, worker, known, timer, manager, client, downs>>

\* Work is left: the next turn is queued and kicked.
Rearm ==
    /\ watcher.pc = "rearm"
    /\ HasExec(project) \/ RoomForSession
    /\ project' = Rearmed(project, watcher.action,
                          IF watcher.action = "plan" THEN watcher.exec.artifact ELSE 0, Fresh)
    /\ watcher' = IdleWatcher
    /\ Kick
    /\ UNCHANGED <<spec, result, worker, known, manager, client, downs>>

\* The first half of pauseProject, blockProject, finalizeCancellation,
\* finalizeCompletedImplementation and the other ways a run ends: files are
\* removed and the session is closed.
Close ==
    /\ watcher.pc = "close"
    /\ result' = "none"
    /\ spec' = IF watcher.goal = "cancel" THEN NoChange ELSE spec
    /\ CloseSession(watcher.exec.sess)
    /\ watcher' = [watcher EXCEPT !.pc = "settle"]
    /\ UNCHANGED <<project, timer, manager, client, downs>>

\* What ReadSynced read of the change.
PlannedState ==
    CASE watcher.goal = "plan_done" -> "all_done"
      [] watcher.goal = "plan_blocked" -> "blocked"
      [] OTHER -> "ready"

\* The second half: the update of the record.
Settle ==
    /\ watcher.pc = "settle"
    /\ CASE watcher.goal = "cancel" -> project' = Cancelled(project)
         [] watcher.goal = "pause" ->
              \E e \in {project.empty, project.empty \/ watcher.result # "none"} :
                 project' = Counted(Paused(project), e)
         [] watcher.goal = "block" ->
              \E e \in {project.empty, project.empty \/ watcher.result # "none"} :
                 project' = Counted(Blocked(project, watcher.failure = "acp"), e)
         [] watcher.goal = "done" -> project' = Completed(project)
         [] watcher.goal = "dirty" -> project' = NeedsPlan(project)
         [] OTHER -> project' = Planned(project, PlannedState, watcher.dirty)
    /\ watcher' = IdleWatcher
    /\ UNCHANGED <<spec, result, worker, known, timer, manager, client, downs>>

-----------------------------------------------------------------------------
(* The WatcherManager: polling, stopping, crashing and starting again.     *)

\* Fault: only running projects are polled.
PollRunning == project.exec.state = "running"

PollDue == ShouldWatch(project)

\* recoverActiveWatchers, at every pollIntervalMs.
Poll ==
    /\ manager.pc = "up" /\ PollDue /\ ~timer
    /\ timer' = TRUE
    /\ UNCHANGED <<project, spec, result, worker, known, watcher, manager, client, downs>>

\* stop(): watchers are told to shut down, a run in flight is not awaited;
\* haltProjectsForGatewayStop reads the record ...
StopBegin ==
    /\ "stop" \in DownKinds /\ downs.stops + downs.crashes < MaxDowns
    /\ manager.pc = "up"
    /\ downs' = [downs EXCEPT !.stops = @ + 1]
    /\ timer' = FALSE
    /\ manager' = IF project.change
                  THEN [pc |-> "halting", exec |-> project.exec, done |-> NoTasksLeft(project)]
                  ELSE IdleManager("halting")
    /\ UNCHANGED <<project, spec, result, worker, known, watcher, client>>

\* ... updates it ...
HaltUpdate ==
    /\ manager.pc = "halting"
    /\ project' = CASE manager.done -> HaltedDone(project)
                    [] ~manager.done /\ manager.exec # NoExec ->
                          HaltedArmed(project, manager.exec.action)
                    [] OTHER -> project
    /\ manager' = [manager EXCEPT !.pc = "closing"]
    /\ UNCHANGED <<spec, result, worker, known, watcher, timer, client, downs>>

\* ... and closes the session.
HaltClose ==
    /\ manager.pc = "closing"
    /\ CloseSession(manager.exec.sess)
    /\ manager' = IdleManager("stopped")
    /\ UNCHANGED <<project, spec, result, watcher, timer, client, downs>>

\* The process ends.  The watchdog kills its workers, but an ACP session is
\* kept by acpx and may outlive the command that was started for it.
Down ==
    /\ watcher' = IdleWatcher
    /\ timer' = FALSE
    /\ known' = {}
    /\ client' = [c \in Clients |-> IdleClient]
    /\ manager' = IdleManager("down")
    /\ \E left \in SUBSET {s \in Sessions : Working(s)} :
          worker' = [s \in Sessions |-> IF s \in left THEN worker[s] ELSE "off"]
    /\ UNCHANGED <<project, spec, result>>

ProcessExit ==
    /\ manager.pc = "stopped"
    /\ Down
    /\ UNCHANGED downs

Crash ==
    /\ "crash" \in DownKinds /\ downs.stops + downs.crashes < MaxDowns
    /\ manager.pc # "down"
    /\ Down
    /\ downs' = [downs EXCEPT !.crashes = @ + 1]

\* start(): recoverStaleProjects finds nothing to recover ...
BootIdle ==
    /\ manager.pc = "down" /\ ~NeedsStartupRecovery(project)
    /\ manager' = IdleManager("up")
    /\ timer' = ShouldWatch(project)
    /\ UNCHANGED <<project, spec, result, worker, known, watcher, client, downs>>

\* ... or tryAdoptRunningSession finds the session of the project alive ...
BootAdopt ==
    /\ manager.pc = "down" /\ NeedsStartupRecovery(project)
    /\ project.exec.state = "running" /\ result \notin Terminal
    /\ ProbeReliable => Working(project.exec.sess)
    /\ manager' = [IdleManager("adopting") EXCEPT !.exec = project.exec]
    /\ UNCHANGED <<project, spec, result, worker, known, watcher, timer, client, downs>>

\* ... or not, and the result is removed; closeSession knows no session.
BootRecover ==
    /\ manager.pc = "down" /\ NeedsStartupRecovery(project)
    /\ ~ /\ ProbeReliable
         /\ project.exec.state = "running" /\ result \notin Terminal
         /\ Working(project.exec.sess)
    /\ result' = "none"
    /\ CloseSession(project.exec.sess)
    /\ manager' = [IdleManager("recovering") EXCEPT !.exec = project.exec, !.done = NoTasksLeft(project)]
    /\ UNCHANGED <<project, spec, watcher, timer, client, downs>>

\* Fault: the tasks that are left do not count.
RecoveryPlanned(p) == ~HasPendingPlanningSync(p)

RecoveryComplete(p) == manager.done /\ ~HasPendingPlanningSync(p)

\* The record is updated and recoverActiveWatchers kicks its watcher.
BootUpdate ==
    /\ manager.pc \in {"adopting", "recovering"}
    /\ \/ /\ manager.pc = "adopting"
          /\ project' = Adopted(project)
       \/ /\ manager.pc = "recovering" /\ RecoveryComplete(project)
          /\ project' = Completed(project)
       \/ /\ manager.pc = "recovering" /\ ~RecoveryComplete(project)
          /\ RoomForSession
          /\ project' = Recovered(project, Fresh)
    /\ manager' = IdleManager("up")
    /\ timer' = ShouldWatch(project')
    /\ UNCHANGED <<spec, result, worker, known, watcher, client, downs>>

-----------------------------------------------------------------------------
(* The chat commands.  Each reads the record and decides on it, and after  *)
(* that acts on the record as it is then.                                  *)

Begin(c, command, pc, seen) ==
    /\ command \in Commands /\ Serving
    /\ client[c].pc = "idle"
    /\ client' = [client EXCEPT ![c] = [pc |-> pc, seen |-> seen]]
    /\ UNCHANGED <<project, spec, result, worker, known, watcher, timer, manager, downs>>

At(c, pc) == client[c].pc = pc /\ manager.pc \in {"up", "halting", "closing", "stopped"}

Done(c) == client' = [client EXCEPT ![c] = IdleClient]

\* Fault: only planning is in the way.
CanQueueBesideWork == project.change /\ ~PlanningPending(project)

\* The guard of queueWorkProject and of preparePlanningSync.
CanQueue == project.change /\ ~PlanningPending(project) /\ ~HasBlockingExecution(project)

\* queueWorkProject (cs-work, and continue once planning is settled).
WorkBegin(c) ==
    /\ CanQueue
    /\ Begin(c, "work", "work", IF RequiresPlanningSync(project) THEN "unsynced" ELSE "synced")

WorkArm(c) ==
    /\ At(c, "work") /\ spec.dir
    /\ \/ /\ ApplyState = "all_done"
          /\ project' = Counted(NothingToDo(project), TRUE)
          /\ UNCHANGED <<result, timer>>
       \/ /\ ApplyState # "all_done"
          /\ ApplyState = "blocked" \/ client[c].seen = "unsynced"
          /\ UNCHANGED <<project, result, timer>>
       \/ /\ ApplyState = "ready" /\ client[c].seen = "synced"
          /\ RoomForSession
          /\ result' = "none"
          /\ project' = Counted(Queued(project, Armed("work", Fresh, 0, 0)), FALSE)
          /\ Kick
    /\ Done(c)
    /\ UNCHANGED <<spec, worker, known, watcher, manager, downs>>

\* queuePlanningProject: continue while planning is not settled.
ContinueBegin(c) ==
    /\ CanQueue
    /\ project.phase \in {"planning_sync", "proposal"} \/ RequiresPlanningSync(project)
    /\ Begin(c, "continue", "continue", "none")

ContinuePlanning(c) ==
    /\ At(c, "continue") /\ spec.dir
    /\ result' = "none"
    /\ project' = PlanningReady(project)
    /\ Done(c)
    /\ UNCHANGED <<spec, worker, known, watcher, timer, manager, downs>>

\* startVisiblePlanningSync: cs-plan.
PlanBegin(c) == CanQueue /\ Begin(c, "plan", "plan", "none")

PlanStart(c) ==
    /\ At(c, "plan") /\ spec.dir
    /\ result' = "none"
    /\ project' = VisiblePlanning(project)
    /\ Done(c)
    /\ UNCHANGED <<spec, worker, known, watcher, timer, manager, downs>>

\* The chat agent writes planning artifacts during the visible turn.
PlannerWrites ==
    /\ "plan" \in Commands /\ Serving
    /\ project.status = "planning" /\ ~HasExec(project)
    /\ WriteArtifact
    /\ UNCHANGED <<project, result, worker, known, watcher, timer, manager, client, downs>>

\* handleAgentEnd: a chat turn of the channel ends while the project is in
\* status planning; finalizePlanningTurn takes it for the planning turn.
TurnEndBegin(c) ==
    /\ project.change /\ project.status = "planning" /\ project.phase = "planning_sync"
    /\ Begin(c, "chat", "planend", "none")

TurnEndUpdate(c) ==
    /\ At(c, "planend")
    /\ result' = "none"
    /\ \/ /\ spec.dir
          /\ project' = Counted(Planned(project, ApplyState, FALSE), spec.tasks = 0)
       \/ \E f \in BOOLEAN : project' = PlanningFailed(project, f)
    /\ Done(c)
    /\ UNCHANGED <<spec, worker, known, watcher, timer, manager, downs>>

\* captureIncomingMessage: a requirement written in the chat.
NoteBegin(c) ==
    /\ ShouldCapturePlanningMessage(project)
    /\ Begin(c, "note", "note", "none")

NoteUpdate(c) ==
    /\ At(c, "note")
    /\ project' = Noted(project)
    /\ Done(c)
    /\ UNCHANGED <<spec, result, worker, known, watcher, timer, manager, downs>>

\* pauseProject and cancelProject of the service: with a run in the
\* background they leave a request, interrupt the worker and wake the
\* watcher.
PauseBegin(c) ==
    /\ project.change /\ HasBlockingExecution(project)
    /\ Begin(c, "pause", "pause", "none")

CancelBegin(c) ==
    /\ project.change /\ HasBlockingExecution(project)
    /\ Begin(c, "cancel", "cancel", "none")

Request(c) ==
    /\ \/ At(c, "pause") /\ project' = PauseRequested(project)
       \/ At(c, "cancel") /\ project' = CancelRequested(project)
    /\ client' = [client EXCEPT ![c] = [pc |-> "interrupt",
                     seen |-> IF project.exec.state = "running" THEN "running" ELSE "armed"]]
    /\ UNCHANGED <<spec, result, worker, known, watcher, timer, manager, downs>>

InterruptAndWake(c) ==
    /\ At(c, "interrupt")
    /\ IF client[c].seen = "running" /\ manager.pc = "up"
       THEN Interrupt(project.exec.sess) ELSE UNCHANGED worker
    /\ Kick
    /\ Done(c)
    /\ UNCHANGED <<project, spec, result, known, watcher, manager, downs>>

\* cancelProject without a run in the background cleans up by itself.
DiscardBegin(c) ==
    /\ project.change /\ ~HasBlockingExecution(project)
    /\ Begin(c, "cancel", "discard", "none")

DiscardFiles(c) ==
    /\ At(c, "discard")
    /\ spec' = NoChange
    /\ result' = "none"
    /\ client' = [client EXCEPT ![c].pc = "discarded"]
    /\ UNCHANGED <<project, worker, known, watcher, timer, manager, downs>>

DiscardUpdate(c) ==
    /\ At(c, "discarded")
    /\ project' = Cancelled(project)
    /\ Done(c)
    /\ UNCHANGED <<spec, result, worker, known, watcher, timer, manager, downs>>

\* projectStatus, which reconciles the record with openspec.
StatusBegin(c) ==
    /\ project.change
    /\ Begin(c, "status", "status",
         CASE project.status = "planning" /\ project.phase = "planning_sync" /\ ~project.dirty -> "sync"
           [] project.status = "blocked" -> "blocked"
           [] OTHER -> "other")

StatusUpdate(c) ==
    /\ At(c, "status") /\ spec.dir
    /\ LET seen == client[c].seen
           counted == Counted(project, spec.tasks = 0)
           synced == [counted EXCEPT !.dirty = FALSE]
       IN project' = CASE seen = "sync" /\ ApplyState = "ready" -> Reconciled(synced, "ready", "tasks")
                       [] seen = "sync" /\ ApplyState = "all_done" -> Reconciled(synced, "done", "validating")
                       [] seen = "sync" /\ ApplyState = "blocked" -> Reconciled(counted, "blocked", "proposal")
                       [] seen = "blocked" /\ ApplyState = "all_done" -> Reconciled(counted, "done", "validating")
                       [] OTHER -> counted
    /\ Done(c)
    /\ UNCHANGED <<spec, result, worker, known, watcher, timer, manager, downs>>

\* archiveProject.
ArchiveBegin(c) ==
    /\ project.change /\ ~HasBlockingExecution(project) /\ NoTasksLeft(project)
    /\ Begin(c, "archive", "archive", "none")

ArchiveUpdate(c) ==
    /\ At(c, "archive") /\ spec.dir
    /\ spec' = NoChange
    /\ result' = "none"
    /\ project' = Archived(project)
    /\ Done(c)
    /\ UNCHANGED <<worker, known, watcher, timer, manager, downs>>

\* proposalProject.
ProposeBegin(c) ==
    /\ ~HasBlockingExecution(project)
    /\ project.change => project.status = "done"
    /\ Begin(c, "propose", "propose", "none")

ProposeUpdate(c) ==
    /\ At(c, "propose")
    /\ spec' = [dir |-> TRUE, arts |-> 0, tasks |-> 0]
    /\ result' = "none"
    /\ project' = Proposed(project)
    /\ Done(c)
    /\ UNCHANGED <<worker, known, watcher, timer, manager, downs>>

\* An openspec command of the service fails: the command reports the error.
CommandFails(c) ==
    /\ \E pc \in {"work", "continue", "plan", "status", "archive"} : At(c, pc)
    /\ OpenSpecError
    /\ Done(c)
    /\ UNCHANGED <<project, spec, result, worker, known, watcher, timer, manager, downs>>

-----------------------------------------------------------------------------
(* The specification.                                                      *)

\* The records an instance starts from: a change just proposed, a change
\* ready for cs-work, and a change whose visible planning turn failed with
\* an error that names a timeout, found by the manager when it starts.
Blank == [change |-> TRUE, status |-> "ready", phase |-> "proposal",
          pause |-> FALSE, cancel |-> FALSE, dirty |-> FALSE, late |-> FALSE,
          empty |-> FALSE, acpFailure |-> FALSE, exec |-> NoExec]

Init ==
    /\ \/ /\ "proposed" \in Starts
          /\ project = Blank
          /\ spec = [dir |-> TRUE, arts |-> 0, tasks |-> 0]
          /\ manager = IdleManager("up")
       \/ /\ "planned" \in Starts
          /\ project = [Blank EXCEPT !.phase = "tasks"]
          /\ spec = [dir |-> TRUE, arts |-> Artifacts, tasks |-> MaxTasks]
          /\ manager = IdleManager("up")
       \/ /\ "interrupted" \in Starts
          /\ project = PlanningFailed(Blank, TRUE)
          /\ spec = [dir |-> TRUE, arts |-> 0, tasks |-> 0]
          /\ manager = IdleManager("down")
    /\ result = "none"
    /\ worker = [s \in Sessions |-> "off"]
    /\ known = {}
    /\ watcher = IdleWatcher
    /\ timer = FALSE
    /\ client = [c \in Clients |-> IdleClient]
    /\ downs = [stops |-> 0, crashes |-> 0]

WorkerStep(s) ==
    CompleteTask(s) \/ GenerateArtifact(s) \/ Report(s) \/ WorkerExit(s)

WatcherStep ==
    \/ RunStart \/ Leave \/ RunFails \/ ReadApply \/ ReadStatus \/ ReadSynced
    \/ SetRunning \/ Spawn \/ CaptureResult \/ TurnEnds \/ WatchEnds \/ Resolve
    \/ RestartClose \/ RestartUpdate \/ Finish \/ Rearm \/ Close \/ Settle

ManagerStep ==
    \/ HaltUpdate \/ HaltClose \/ ProcessExit
    \/ BootIdle \/ BootAdopt \/ BootRecover \/ BootUpdate

CommandBegin(c) ==
    \/ WorkBegin(c) \/ ContinueBegin(c) \/ PlanBegin(c) \/ TurnEndBegin(c)
    \/ NoteBegin(c) \/ PauseBegin(c) \/ CancelBegin(c) \/ DiscardBegin(c)
    \/ StatusBegin(c) \/ ArchiveBegin(c) \/ ProposeBegin(c)

CommandStep(c) ==
    \/ WorkArm(c) \/ ContinuePlanning(c) \/ PlanStart(c) \/ TurnEndUpdate(c)
    \/ NoteUpdate(c) \/ Request(c) \/ InterruptAndWake(c) \/ DiscardFiles(c)
    \/ DiscardUpdate(c) \/ StatusUpdate(c) \/ ArchiveUpdate(c) \/ ProposeUpdate(c)
    \/ CommandFails(c)

Next ==
    \/ \E s \in Sessions : WorkerStep(s)
    \/ \E c \in Clients : CommandBegin(c) \/ CommandStep(c)
    \/ WatcherStep \/ TimerSwallowed \/ Poll \/ PlannerWrites
    \/ ManagerStep \/ StopBegin \/ Crash

Spec == Init /\ [][Next]_vars

\* Timers, promises and locks of a running process are served; a worker that
\* was started ends at some time.  Nobody has to issue a command, and a
\* worker need not make progress or report.
Fairness ==
    /\ WF_vars(WatcherStep)
    /\ WF_vars(TimerSwallowed)
    /\ WF_vars(Poll)
    /\ WF_vars(ManagerStep)
    /\ \A s \in Sessions : WF_vars(WorkerExit(s))
    /\ \A c \in Clients : WF_vars(CommandStep(c))

FairSpec == Spec /\ Fairness
=============================================================================
