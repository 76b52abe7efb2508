------------------------- MODULE ExecutionProperties -------------------------
(***************************************************************************)
(* What the background execution of a project promises.  Which of these    *)
(* hold depends on the instance: one command at a time or several, with or *)
(* without stops and crashes of the gateway.  The README lists the runs.   *)
(***************************************************************************)
EXTENDS Execution

\* stop() does not wait for the watcher, which writes its record beside the
\* manager and the chat until the process ends.  What they leave behind is put
\* right by the next start.
InOrder == downs.stops = 0 \/ manager.pc = "up"

-----------------------------------------------------------------------------
(* Workers and the watcher.                                                *)

\* A worker that this process started and that still works has the watcher
\* waiting for it in runAcpTurnWithTracking: no failure, interrupt, restart
\* or shutdown lets the watcher go on while its worker writes in the
\* repository, so the process never has two workers.
OwnWorkerAttended ==
    \A s \in known : Working(s) =>
        watcher.pc = "turn" /\ ~watcher.attached /\ watcher.exec.sess = s

\* A worker works only for the run on record: the record names its session
\* and is running.  Commands that test the record for a background run
\* (cs-work, cs-cancel, cs-archive, ...) then never act beside a worker.
WorkerOnRecord ==
    \A s \in Sessions : Working(s) =>
        project.change /\ project.exec.state = "running" /\ project.exec.sess = s

\* A change that runs has a watcher run on it, or a timer that will start one:
\* a project does not stay running with nobody looking, whatever the stops and
\* crashes before left on record.
RunningIsAttended ==
    manager.pc = "up" /\ project.change /\ project.exec.state = "running" =>
        timer \/ watcher.pc # "idle"

\* With no run on record and none in flight, every ACP session the process
\* opened was closed again, through restarts, re-arms and cancellations.
SessionsReleased ==
    watcher.pc = "idle" /\ ~HasExec(project) => known = {}

\* An execution block belongs to a project that shows it: armed, running or
\* planning, with the phase of its action.  Only stop() may write the status
\* of the record it read beside the block of the record it finds, and the next
\* start sees to that.
ExecMatchesStatus ==
    ShouldWatch(project) /\ InOrder =>
        IF project.exec.action = "plan"
        THEN project.status = "planning" /\ project.phase = "planning_sync"
        ELSE project.status \in {"armed", "running"} /\ project.phase = "implementing"

-----------------------------------------------------------------------------
(* Runs.                                                                   *)

\* cs-work, and at a restart the recovery of a project blocked by an ACP
\* failure, are the only ways a background run begins: a project that was
\* paused, blocked, finished or cancelled stays that way, however the
\* watcher, its timers, late results and crashes interleave.  (A start after a
\* stop may queue what stop() marked as queued.)
StartsOnCommand ==
    [][~HasExec(project) /\ HasExec(project)' /\ InOrder =>
          \/ \E c \in Clients : client[c].pc = "work" /\ client'[c].pc = "idle"
          \/ manager.pc = "recovering" /\ IsRecoverableBlocked(project)]_vars

\* A run ends by its watcher, or by the manager when no task is left; the
\* commands only leave requests.
EndsByWatcher ==
    [][HasExec(project) /\ ~HasExec(project)' /\ InOrder =>
          \/ watcher.pc = "settle"
          \/ manager.pc \in {"halting", "recovering"} /\ manager.done]_vars

\* The change directory is deleted or moved away only when no worker works
\* in it.
CleanupWaits ==
    [][spec.dir /\ ~spec'.dir => \A s \in Sessions : ~Working(s)]_vars

\* A project is done when every artifact is there and every task ticked off.
DoneMeansComplete ==
    project.status = "done" /\ spec.dir => spec.arts = Artifacts /\ spec.tasks = 0

\* A note that arrives after planning is not forgotten: the journal stays
\* dirty until the project is planned again or gives way to another one,
\* however many turns, restarts and pauses of the implementation come in
\* between.
NotesKept ==
    [][project.change /\ project.dirty /\ project'.change /\ ~project'.dirty =>
          \/ watcher.pc = "settle" /\ watcher.action = "plan"
          \/ \E c \in Clients : client[c].pc \in {"planend", "propose"}]_vars

\* A cancellation that is carried out ends the execution: no run is on record
\* for a change that is gone.  Two commands at a time break this: README,
\* section 6.
CancelStopsExecution == ~project.change => ~HasExec(project)

-----------------------------------------------------------------------------
(* The change as the chat sees it.                                         *)

ChangeSeen ==
    [at |-> CASE ~project.change -> "none"
              [] project.change /\ HasExec(project) -> project.exec.state
              [] project.change /\ ~HasExec(project) ->
                    IF project.status = "done" THEN "done" ELSE "open",
     job |-> IF project.change /\ HasExec(project) THEN project.exec.action ELSE "none"]

Chat == INSTANCE Lifecycle WITH change <- ChangeSeen

\* The commands, the watcher, its restarts and late results make of a change
\* only what Lifecycle allows: nothing runs that was not queued, a run never
\* turns into one of the other kind, a change is not taken away under its run
\* but by the end of it, and a running task ends.
ImplementsLifecycle == Chat!Spec

-----------------------------------------------------------------------------
(* Liveness.                                                               *)

\* A run that was queued or was running when the gateway went down is taken
\* up by a watcher, although kicks are swallowed and timers cleared.
RunsAttended ==
    HasExec(project) ~> (~HasExec(project) \/ watcher.pc # "idle")

\* A running turn comes to an end.
TurnsEnd == project.exec.state = "running" ~> project.exec.state # "running"

\* A cancellation requested while a turn is attended is carried out, unless
\* the user asks for a pause instead.
CancelDuringTurn ==
    (project.cancel /\ watcher.pc = "turn") ~> (~project.change \/ project.pause)

-----------------------------------------------------------------------------
(* What the documents and messages of the repository say and the code does *)
(* not do: each of these has a run that shows how it fails.                *)

\* cs-cancel answers "Background execution will stop at the next safe
\* boundary, then cleanup will run." (service.ts), unless a pause overrides
\* the request.
CancelHappens == project.cancel ~> (~project.change \/ project.pause)

\* A planning worker is told to report `running`, "so the watcher can
\* continue with the next artifact" (prompts.ts): its turn ends, also for a
\* watcher that adopted it.
PlanningTurnsEnd ==
    (project.exec.state = "running" /\ project.exec.action = "plan")
        ~> project.exec.state # "running"
=============================================================================
