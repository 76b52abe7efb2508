------------------------------ MODULE RunProofs ------------------------------
(***************************************************************************)
(* Theorems about the runs of Execution, for every value of its constants  *)
(* but for these: the commands of a channel are executed one after         *)
(* another; after a restart of the gateway no end of a chat turn is taken  *)
(* for that of the planning turn, while the manager plans again in the     *)
(* background; and what is said of the time after a stop is said without   *)
(* cs-status.  README, section 4, says why these are needed.               *)
(***************************************************************************)
EXTENDS ExecutionProofs

\* One command at a time.
OneCommand == \A c, d \in Clients : c = d

\* The gateway is up from the beginning and stays up.
NeverDown == DownKinds = {} /\ "interrupted" \notin Starts

RunAssumption == OneCommand /\ (NeverDown \/ "chat" \notin Commands)

-----------------------------------------------------------------------------
(* What the updates make of a record.                                      *)

\* An update that leaves the run on record alone.
SameRun(p, q) ==
    q.exec = p.exec /\ q.change = p.change /\ q.status = p.status /\ q.phase = p.phase

\* A record without a run, which a restart of the gateway leaves as it is
\* unless it is blocked.
Rests(p) ==
    ~HasExec(p) /\ (p.change /\ p.phase = "implementing" =>
                        p.status \notin {"armed", "running", "planning"})

\* A record whose status and phase tell what its run does.
Shown(p) ==
    /\ HasExec(p) /\ p.change
    /\ IF p.exec.action = "plan"
       THEN p.status = "planning" /\ p.phase = "planning_sync"
       ELSE p.status \in {"armed", "running"} /\ p.phase = "implementing"

\* Dropping requests and execution.
LEMMA SettledFields ==
  ASSUME NEW p \in Projects, NEW status, NEW phase
  PROVE  LET q == Settled(p, status, phase)
         IN  /\ q.exec = NoExec /\ q.status = status /\ q.phase = phase
             /\ q.change = p.change /\ q.dirty = p.dirty
  BY DEF Settled, Projects

\* The updates with which a run, or a planning turn, ends.
LEMMA EndedFields ==
  ASSUME NEW p \in Projects, NEW b \in BOOLEAN, NEW applyState
  PROVE  /\ Rests(Paused(p)) /\ Paused(p).change = p.change /\ Paused(p).dirty = p.dirty
         /\ Paused(p).status = "paused"
         /\ Rests(Blocked(p, b)) /\ Blocked(p, b).change = p.change
         /\ Blocked(p, b).dirty = p.dirty /\ Blocked(p, b).status = "blocked"
         /\ Blocked(p, b).phase = StoppedPhase(p)
         /\ Rests(Completed(p)) /\ Completed(p).change = p.change
         /\ Completed(p).dirty = p.dirty /\ Completed(p).status = "done"
         /\ Rests(NeedsPlan(p)) /\ NeedsPlan(p).change = p.change
         /\ NeedsPlan(p).dirty = p.dirty /\ NeedsPlan(p).status = "ready"
         /\ Rests(Planned(p, applyState, b)) /\ Planned(p, applyState, b).change = p.change
         /\ Planned(p, applyState, b).status = "done" => applyState = "all_done"
         /\ Planned(p, applyState, b).phase # "planning_sync"
         /\ Rests(PlanningFailed(p, b)) /\ PlanningFailed(p, b).change = p.change
         /\ PlanningFailed(p, b).status = "blocked"
  <1> USE SettledFields DEF Rests, HasExec
  <1>1. /\ Rests(Paused(p)) /\ Paused(p).change = p.change /\ Paused(p).dirty = p.dirty
        /\ Paused(p).status = "paused"
    BY DEF Paused
  <1>2. /\ Rests(Blocked(p, b)) /\ Blocked(p, b).change = p.change
        /\ Blocked(p, b).dirty = p.dirty /\ Blocked(p, b).status = "blocked"
        /\ Blocked(p, b).phase = StoppedPhase(p)
    BY DEF Blocked, Settled, Projects
  <1>3. /\ Rests(Completed(p)) /\ Completed(p).change = p.change
        /\ Completed(p).dirty = p.dirty /\ Completed(p).status = "done"
    BY DEF Completed
  <1>4. /\ Rests(NeedsPlan(p)) /\ NeedsPlan(p).change = p.change
        /\ NeedsPlan(p).dirty = p.dirty /\ NeedsPlan(p).status = "ready"
    BY DEF NeedsPlan
  <1>5. /\ Rests(Planned(p, applyState, b)) /\ Planned(p, applyState, b).change = p.change
        /\ Planned(p, applyState, b).status = "done" => applyState = "all_done"
        /\ Planned(p, applyState, b).phase # "planning_sync"
    <2> DEFINE q(status, phase) ==
                 [Settled(p, status, phase) EXCEPT !.dirty = b \/ applyState = "blocked"]
    <2>1. \A status, phase : /\ q(status, phase).exec = NoExec /\ q(status, phase).phase = phase
                             /\ q(status, phase).status = status
                             /\ q(status, phase).change = p.change
      BY DEF Settled, Projects
    <2>2. PICK status, phase :
             /\ Planned(p, applyState, b) = q(status, phase)
             /\ phase \notin {"implementing", "planning_sync"}
             /\ status = "done" => applyState = "all_done"
      BY DEF Planned
    <2> QED
      BY <2>1, <2>2
  <1>6. /\ Rests(PlanningFailed(p, b)) /\ PlanningFailed(p, b).change = p.change
        /\ PlanningFailed(p, b).status = "blocked"
    BY DEF PlanningFailed, Settled, Projects
  <1> QED
    BY <1>1, <1>2, <1>3, <1>4, <1>5, <1>6

\* The updates of the commands that find no run on record, or end it.
LEMMA RestingFields ==
  ASSUME NEW p \in Projects
  PROVE  /\ Rests(Cancelled(p)) /\ ~Cancelled(p).change /\ Cancelled(p).status = "idle"
         /\ Rests(Archived(p)) /\ ~Archived(p).change /\ Archived(p).status = "archived"
         /\ Rests(Proposed(p)) /\ Proposed(p).change /\ Proposed(p).status = "ready"
         /\ Rests(VisiblePlanning(p)) /\ VisiblePlanning(p).change = p.change
         /\ VisiblePlanning(p).dirty = p.dirty /\ VisiblePlanning(p).status = "planning"
         /\ Rests(PlanningReady(p)) /\ PlanningReady(p).change = p.change
         /\ PlanningReady(p).dirty = p.dirty /\ PlanningReady(p).status = "ready"
         /\ Rests(NothingToDo(p)) /\ NothingToDo(p).change = p.change
         /\ NothingToDo(p).dirty = p.dirty /\ NothingToDo(p).status = "done"
  <1> USE SettledFields DEF Rests, HasExec
  <1>1. /\ Rests(Cancelled(p)) /\ ~Cancelled(p).change /\ Cancelled(p).status = "idle"
        /\ Rests(Archived(p)) /\ ~Archived(p).change /\ Archived(p).status = "archived"
    BY DEF Cancelled, Archived, Settled, Projects
  <1>2. Rests(Proposed(p)) /\ Proposed(p).change /\ Proposed(p).status = "ready"
    BY DEF Proposed, Settled, Projects
  <1>3. /\ Rests(VisiblePlanning(p)) /\ VisiblePlanning(p).change = p.change
        /\ VisiblePlanning(p).dirty = p.dirty /\ VisiblePlanning(p).status = "planning"
    BY DEF VisiblePlanning
  <1>4. /\ Rests(PlanningReady(p)) /\ PlanningReady(p).change = p.change
        /\ PlanningReady(p).dirty = p.dirty /\ PlanningReady(p).status = "ready"
    BY DEF PlanningReady
  <1>5. /\ Rests(NothingToDo(p)) /\ NothingToDo(p).change = p.change
        /\ NothingToDo(p).dirty = p.dirty /\ NothingToDo(p).status = "done"
    BY DEF NothingToDo, Projects
  <1> QED
    BY <1>1, <1>2, <1>3, <1>4, <1>5

\* The updates that leave the run alone.
LEMMA SameRunFields ==
  ASSUME NEW p \in Projects, NEW e
  PROVE  /\ SameRun(p, Counted(p, e)) /\ Counted(p, e).dirty = p.dirty
         /\ SameRun(p, Noted(p)) /\ Noted(p).dirty
         /\ SameRun(p, PauseRequested(p)) /\ PauseRequested(p).dirty = p.dirty
         /\ SameRun(p, CancelRequested(p)) /\ CancelRequested(p).dirty = p.dirty
         /\ SameRun(p, [p EXCEPT !.dirty = e])
  BY DEF SameRun, Counted, Noted, PauseRequested, CancelRequested, Projects

\* What cs-status settles keeps requests and execution.
LEMMA ReconciledFields ==
  ASSUME NEW p \in Projects, NEW status, NEW phase
  PROVE  LET q == Reconciled(p, status, phase)
         IN  /\ q.exec = p.exec /\ q.change = p.change /\ q.dirty = p.dirty
             /\ q.status = status /\ q.phase = phase
  BY DEF Reconciled, Projects

\* Counting the tasks leaves a record without a run as it is.
LEMMA CountedRests ==
  ASSUME NEW p \in Projects, NEW e \in BOOLEAN, Rests(p)
  PROVE  Rests(Counted(p, e))
  BY SameRunFields DEF SameRun, Rests, HasExec

\* The updates that queue a run.
LEMMA QueuedFields ==
  ASSUME NEW p \in Projects, NEW action \in Actions, NEW s \in Sessions,
         NEW n \in 0..MaxRestart, NEW a \in 0..Artifacts
  PROVE  LET q == Queued(p, Armed(action, s, n, a))
         IN  /\ HasExec(q) /\ q.change = p.change /\ q.dirty = p.dirty
             /\ p.change => Shown(q)
             /\ q.exec.action = action /\ q.exec.state = "armed" /\ q.exec.sess = s
             /\ q.status # "done"
  <1> DEFINE e == Armed(action, s, n, a)
             q == Queued(p, e)
  <1>1. e \in Executions /\ e.action = action /\ e.state = "armed" /\ e.sess = s
    BY ArmedType DEF Armed
  <1> HIDE DEF e
  <1>2. /\ q.exec = e /\ q.change = p.change /\ q.dirty = p.dirty
        /\ q.status = IF e.action = "plan" THEN "planning" ELSE "armed"
        /\ q.phase = IF e.action = "plan" THEN "planning_sync" ELSE "implementing"
    BY DEF Queued, Projects
  <1> HIDE DEF q
  <1>3. HasExec(q)
    BY <1>1, <1>2, NoExecLemma DEF HasExec
  <1>4. p.change => Shown(q)
    BY <1>1, <1>2, <1>3 DEF Shown
  <1> QED
    BY <1>1, <1>2, <1>3, <1>4 DEF q, e

-----------------------------------------------------------------------------
(* The inductive invariant of runs and commands.                           *)

InRun == watcher.pc \notin {"idle", "leave"}

\* While the manager is not up it is alone.
ManagerAlone ==
    /\ NeverDown => manager.pc = "up"
    /\ manager.pc \in {"up", "down", "adopting", "recovering"}
    /\ manager.pc # "up" =>
         watcher.pc = "idle" /\ known = {} /\ \A c \in Clients : client[c].pc = "idle"
    /\ manager.pc = "adopting" => HasExec(project)
    /\ manager.pc = "recovering" => NeedsStartupRecovery(project)

\* The record shows the run it has, and leaves nothing to do without one.
ExecShown == IF HasExec(project) THEN Shown(project) ELSE Rests(project)

\* Planning in the background comes from a restart of the gateway.
WorkOnly == NeverDown /\ HasExec(project) => project.exec.action = "work"

\* The goals that a run of either action may end with.
RunGoals == {"cancel", "pause", "block", "done", "dirty"}

\* What watcher w holds is what the record says.
OnRecord(w) ==
    /\ w.action = project.exec.action
    /\ w.pc = "restarted" => w.exec.action = project.exec.action
    /\ w.pc = "synced" => w.action = "plan"
    /\ w.pc \in {"close", "settle"} => w.goal \in RunGoals \/ w.action = "plan"
    /\ w.pc \in {"read", "synced", "start", "spawn", "turn", "close"} =>
         w.exec.sess = project.exec.sess
    /\ w.pc = "read" => w.exec.state = project.exec.state
    /\ w.pc = "start" => project.exec.state = "armed"
    /\ w.pc \in {"spawn", "turn", "resolve", "restart", "restarted", "finish", "rearm"} =>
         project.exec.state = "running"

\* A run in flight is the run on record.
RunOnRecord == InRun => HasExec(project) /\ OnRecord(watcher)

\* Commands that decided on a project without a run.
Deciding == {"work", "continue", "plan", "planend", "discard", "discarded", "archive", "propose"}

\* What a command read of the record still holds.
StillHolds(c) ==
    /\ client[c].pc \in Deciding => ~HasExec(project)
    /\ client[c].pc \in Deciding \ {"propose"} => project.change
    /\ client[c].pc = "propose" /\ project.change => project.status = "done"
    /\ client[c].pc = "planend" => "chat" \in Commands
    /\ client[c].pc = "status" =>
         /\ client[c].seen \in {"sync", "blocked"} => ~HasExec(project)
         /\ client[c].seen = "sync" => ~project.dirty

CommandsWait == \A c \in Clients : StillHolds(c)

\* The sessions that are open belong to the run on record.
SessionsOnRecord ==
    /\ \A s \in known : HasExec(project) /\ s = project.exec.sess
    /\ watcher.pc \in {"restarted", "settle"} => known = {}

RunAttended ==
    manager.pc = "up" /\ project.exec.state = "running" => InRun \/ (timer /\ watcher.pc = "idle")

RunInv ==
    /\ ManagerAlone /\ ExecShown /\ WorkOnly /\ RunOnRecord
    /\ CommandsWait /\ SessionsOnRecord /\ RunAttended

\* A planning run that a restart of the gateway began, or will begin, is for a
\* journal that is still dirty: cs-status does not take it for one that is synced.
PlanUnsynced ==
    ~NeverDown /\ project.change =>
        \/ project.dirty
        \/ /\ HasExec(project) => project.exec.action # "plan"
           /\ project.status = "blocked" => project.phase # "planning_sync"

\* stop() does not wait for the watcher: after it nothing of this need hold.
RunInvUnlessStopped == downs.stops = 0 => RunInv /\ PlanUnsynced

\* An instance begins with all at rest.
LEMMA InitRests == Init => Rests(project) /\ project.status # "done"
  <1> SUFFICES ASSUME Init PROVE Rests(project) /\ project.status # "done"
    OBVIOUS
  <1>1. Blank \in Projects
    BY DEF Blank, Projects, Statuses, Phases
  <1>2. /\ Rests(Blank) /\ Rests([Blank EXCEPT !.phase = "tasks"])
        /\ Blank.status # "done" /\ [Blank EXCEPT !.phase = "tasks"].status # "done"
    BY DEF Rests, HasExec, Blank
  <1>3. /\ Rests(PlanningFailed(Blank, TRUE))
        /\ PlanningFailed(Blank, TRUE).status # "done"
    BY <1>1, EndedFields
  <1> QED
    BY <1>2, <1>3 DEF Init

\* Nothing runs in the beginning, and no command has decided anything.
LEMMA RunInit == Init => RunInv
  <1> SUFFICES ASSUME Init PROVE RunInv
    OBVIOUS
  <1>2. Rests(project)
    BY InitRests
  <1>3. ~HasExec(project) /\ project.exec = NoExec /\ NoExec.state # "running"
    BY <1>2 DEF Rests, HasExec, NoExec
  <1>4. /\ NeverDown => manager.pc = "up"
        /\ manager.pc \in {"up", "down"}
    <2>1. IdleManager("up").pc = "up" /\ IdleManager("down").pc = "down"
      BY DEF IdleManager
    <2>2. \/ manager = IdleManager("up")
          \/ "interrupted" \in Starts /\ manager = IdleManager("down")
      BY DEF Init
    <2> QED
      BY <2>1, <2>2 DEF NeverDown
  <1>5. watcher.pc = "idle" /\ known = {} /\ \A c \in Clients : client[c].pc = "idle"
    BY DEF Init, IdleWatcher, IdleClient
  <1>6. ManagerAlone
    BY <1>4, <1>5 DEF ManagerAlone
  <1>7. CommandsWait
    BY <1>5 DEF CommandsWait, StillHolds, Deciding
  <1> QED
    BY <1>2, <1>3, <1>5, <1>6, <1>7
       DEF RunInv, ExecShown, WorkOnly, RunOnRecord, InRun, SessionsOnRecord, RunAttended

\* A step that changes none of the variables of the invariant.
LEMMA RunFrame ==
  ASSUME RunInv, UNCHANGED <<project, known, watcher, manager, client>>, timer => timer'
  PROVE  RunInv'
  BY DEF RunInv, ManagerAlone, ExecShown, WorkOnly, RunOnRecord, OnRecord, InRun,
         CommandsWait, StillHolds, SessionsOnRecord, RunAttended

-----------------------------------------------------------------------------
(* Commands keep it.                                                       *)

\* A command that begins, or goes on, with a record it may act on.
LEMMA CommandGoesOn ==
  ASSUME TypeInv, RunInv, OneCommand, NEW c \in Clients, NEW x,
         manager.pc = "up",
         client' = [client EXCEPT ![c] = x],
         StillHolds(c)',
         SameRun(project, project'),
         UNCHANGED <<watcher, known, manager>>, timer => timer'
  PROVE  RunInv'
  <1>1. HasExec(project) <=> HasExec(project')
    BY DEF SameRun, HasExec
  <1>2. \A d \in Clients : d = c
    BY DEF OneCommand
  <1>3. CommandsWait'
    BY <1>2 DEF CommandsWait
  <1>4. ManagerAlone'
    BY DEF RunInv, ManagerAlone
  <1>5. ExecShown' /\ WorkOnly'
    BY <1>1 DEF RunInv, ExecShown, WorkOnly, Shown, Rests, SameRun, HasExec
  <1>6. RunOnRecord'
    BY <1>1 DEF RunInv, RunOnRecord, OnRecord, InRun, SameRun
  <1>7. SessionsOnRecord' /\ RunAttended'
    BY <1>1 DEF RunInv, SessionsOnRecord, RunAttended, InRun, SameRun
  <1> QED
    BY <1>3, <1>4, <1>5, <1>6, <1>7 DEF RunInv

\* A command that ends without having touched the run.
LEMMA CommandEnds ==
  ASSUME TypeInv, RunInv, OneCommand, NEW c \in Clients, NEW x,
         manager.pc = "up",
         client' = [client EXCEPT ![c] = x],
         x.pc \in {"idle", "interrupt"},
         SameRun(project, project'),
         UNCHANGED <<watcher, known, manager>>, timer => timer'
  PROVE  RunInv'
  <1>1. client'[c].pc \in {"idle", "interrupt"}
    BY DEF TypeInv, TypeOK
  <1>2. StillHolds(c)'
    BY <1>1 DEF StillHolds, Deciding
  <1> QED
    BY <1>2, CommandGoesOn

\* A command that ends with a record without a run, as it found it.
LEMMA CommandSettles ==
  ASSUME TypeInv, RunInv, OneCommand, NEW c \in Clients, NEW x,
         manager.pc = "up",
         ~HasExec(project), Rests(project'),
         client' = [client EXCEPT ![c] = x],
         x.pc \in {"idle", "interrupt"},
         UNCHANGED <<watcher, known, manager>>
  PROVE  RunInv'
  <1>1. client'[c].pc \in {"idle", "interrupt"} /\ \A d \in Clients : d = c
    BY DEF TypeInv, TypeOK, OneCommand
  <1>2. CommandsWait'
    BY <1>1 DEF CommandsWait, StillHolds, Deciding
  <1>3. ~HasExec(project') /\ project'.exec.state # "running"
    BY DEF Rests, HasExec, NoExec
  <1>4. ~InRun /\ known = {}
    BY DEF RunInv, RunOnRecord, SessionsOnRecord
  <1>5. ManagerAlone'
    BY DEF RunInv, ManagerAlone
  <1> QED
    BY <1>2, <1>3, <1>4, <1>5
       DEF RunInv, ExecShown, WorkOnly, RunOnRecord, InRun, SessionsOnRecord, RunAttended

\* A command begins with what it read.
LEMMA BeginRun ==
  ASSUME TypeInv, RunInv, "status" \in Commands => PlanUnsynced, RunAssumption,
         NEW c \in Clients, CommandBegin(c)
  PROVE  RunInv'
  <1>0. TypeOK /\ OneCommand
    BY DEF TypeInv, RunAssumption
  <1>1. ASSUME NEW command, NEW pc, NEW seen, Begin(c, command, pc, seen),
               /\ pc \in Deciding => ~HasExec(project)
               /\ pc \in Deciding \ {"propose"} => project.change
               /\ pc = "propose" /\ project.change => project.status = "done"
               /\ pc = "planend" => command = "chat"
               /\ pc = "status" =>
                    /\ seen \in {"sync", "blocked"} => ~HasExec(project)
                    /\ seen = "sync" => ~project.dirty
        PROVE  RunInv'
    <2>1. manager.pc = "up"
      BY <1>1 DEF Begin, Serving, RunInv, ManagerAlone
    <2>2. /\ client' = [client EXCEPT ![c] = [pc |-> pc, seen |-> seen]]
          /\ UNCHANGED <<project, watcher, known, timer, manager>>
          /\ command \in Commands
      BY <1>1 DEF Begin
    <2>3. client'[c].pc = pc /\ client'[c].seen = seen
      BY <1>0, <2>2 DEF TypeOK
    <2>4. StillHolds(c)'
      BY <1>1, <2>2, <2>3 DEF StillHolds
    <2>5. SameRun(project, project')
      BY <2>2 DEF SameRun
    <2> QED
      BY <1>0, <2>1, <2>2, <2>4, <2>5, CommandGoesOn
  <1>2. CASE WorkBegin(c) \/ ContinueBegin(c) \/ PlanBegin(c)
    <2>1. CanQueue => ~HasExec(project) /\ project.change
      BY DEF CanQueue, HasBlockingExecution
    <2>2. \E command, pc, seen : Begin(c, command, pc, seen) /\ pc \in {"work", "continue", "plan"}
      BY <1>2 DEF WorkBegin, ContinueBegin, PlanBegin
    <2> QED
      BY <1>1, <1>2, <2>1, <2>2 DEF WorkBegin, ContinueBegin, PlanBegin, Deciding
  <1>3. CASE TurnEndBegin(c)
    <2>1. "chat" \in Commands
      BY <1>3 DEF TurnEndBegin, Begin
    <2>2. ~HasExec(project)
      BY <1>3, <2>1 DEF TurnEndBegin, RunAssumption, RunInv, ExecShown, WorkOnly, Shown
    <2> QED
      BY <1>1, <1>3, <2>2 DEF TurnEndBegin, Deciding
  <1>4. CASE NoteBegin(c) \/ PauseBegin(c) \/ CancelBegin(c)
    <2>1. \E command, pc, seen : Begin(c, command, pc, seen) /\ pc \in {"note", "pause", "cancel"}
      BY <1>4 DEF NoteBegin, PauseBegin, CancelBegin
    <2> QED
      BY <1>1, <2>1 DEF Deciding
  <1>5. CASE DiscardBegin(c) \/ ArchiveBegin(c)
    <2>1. ~HasExec(project) /\ project.change
      BY <1>5 DEF DiscardBegin, ArchiveBegin, HasBlockingExecution
    <2>2. \E command, pc, seen : Begin(c, command, pc, seen) /\ pc \in {"discard", "archive"}
      BY <1>5 DEF DiscardBegin, ArchiveBegin
    <2> QED
      BY <1>1, <2>1, <2>2 DEF Deciding
  <1>6. CASE StatusBegin(c)
    <2> DEFINE seen == CASE project.status = "planning" /\ project.phase = "planning_sync"
                              /\ ~project.dirty -> "sync"
                         [] project.status = "blocked" -> "blocked"
                         [] OTHER -> "other"
    <2>1. Begin(c, "status", "status", seen)
      BY <1>6 DEF StatusBegin
    <2>2. project.status = "planning" /\ HasExec(project) => project.dirty
      BY <2>1 DEF Begin, PlanUnsynced, RunInv, ExecShown, WorkOnly, Shown
    <2>3. /\ seen = "sync" => project.status = "planning" /\ ~project.dirty
          /\ seen = "blocked" => project.status = "blocked"
      OBVIOUS
    <2>4. project.status = "blocked" => ~HasExec(project)
      BY DEF RunInv, ExecShown, Shown
    <2> HIDE DEF seen
    <2> QED
      BY <1>1, <2>1, <2>2, <2>3, <2>4 DEF Deciding
  <1>7. CASE ProposeBegin(c)
    <2>1. ~HasExec(project) /\ (project.change => project.status = "done")
      BY <1>7 DEF ProposeBegin, HasBlockingExecution
    <2> QED
      BY <1>1, <1>7, <2>1 DEF ProposeBegin, Deciding
  <1> QED
    BY <1>2, <1>3, <1>4, <1>5, <1>6, <1>7 DEF CommandBegin

\* While a command that decided goes on no run is on record.
LEMMA DecidedFacts ==
  ASSUME RunInv, NEW c \in Clients
  PROVE  /\ client[c].pc \in Deciding => ~HasExec(project)
         /\ client[c].pc \in Deciding \ {"propose"} => project.change
         /\ \A pc : At(c, pc) /\ pc # "idle" => manager.pc = "up" /\ client[c].pc = pc
  <1>1. StillHolds(c)
    BY DEF RunInv, CommandsWait
  <1> QED
    BY <1>1 DEF StillHolds, RunInv, ManagerAlone, At

\* cs-work queues a run, on a record without one.
QueuesWork(p, q) ==
    /\ ~HasExec(p) /\ p.change
    /\ Shown(q) /\ q.exec.action = "work" /\ q.exec.state = "armed"

\* The command that queues a run finds nothing in flight.
LEMMA QueueRun ==
  ASSUME TypeInv, RunInv, OneCommand, NEW c \in Clients, NEW x,
         manager.pc = "up",
         QueuesWork(project, project'),
         client' = [client EXCEPT ![c] = x],
         x.pc \in {"idle", "interrupt"},
         UNCHANGED <<watcher, known, manager>>
  PROVE  RunInv'
  <1>1. client'[c].pc \in {"idle", "interrupt"} /\ \A d \in Clients : d = c
    BY DEF TypeInv, TypeOK, OneCommand
  <1>2. CommandsWait'
    BY <1>1 DEF CommandsWait, StillHolds, Deciding
  <1>3. ~InRun /\ known = {}
    BY DEF QueuesWork, RunInv, RunOnRecord, SessionsOnRecord
  <1>4. ManagerAlone'
    BY DEF RunInv, ManagerAlone
  <1>5. RunOnRecord' /\ SessionsOnRecord' /\ RunAttended' /\ WorkOnly' /\ ExecShown'
    BY <1>3 DEF QueuesWork, Shown, RunInv, RunOnRecord, InRun, SessionsOnRecord, RunAttended,
                WorkOnly, ExecShown
  <1> QED
    BY <1>2, <1>4, <1>5 DEF RunInv

\* cs-status either leaves the run and the dirty flag alone, or settles a
\* project without a run whose journal was not dirty.
LEMMA StatusFields ==
  ASSUME TypeInv, RunInv, NEW c \in Clients, StatusUpdate(c)
  PROVE  /\ \/ SameRun(project, project') /\ project'.dirty = project.dirty
            \/ ~HasExec(project) /\ Rests(project') /\ project'.change = project.change
         /\ project'.dirty = project.dirty \/ ~project.dirty
         /\ project'.status = "done" => project.status = "done" \/ ApplyState = "all_done"
         /\ SameRun(project, project') \/ project'.phase # "planning_sync"
  <1> DEFINE seen == client[c].seen
             counted == Counted(project, spec.tasks = 0)
             synced == [counted EXCEPT !.dirty = FALSE]
  <1>0. project \in Projects /\ client[c].pc = "status"
    BY DEF TypeInv, TypeOK, StatusUpdate, At
  <1>1. SameRun(project, counted) /\ counted.dirty = project.dirty /\ counted \in Projects
    BY <1>0, SameRunFields, CommandType DEF Statuses, Phases
  <1>2. SameRun(counted, synced) /\ synced \in Projects
    BY <1>1, SameRunFields, ForgottenType
  <1> HIDE DEF counted, synced
  <1>3. /\ seen \in {"sync", "blocked"} => ~HasExec(project)
        /\ seen = "sync" => ~project.dirty
    BY <1>0 DEF RunInv, CommandsWait, StillHolds
  <1>4. CASE project' = counted
    BY <1>1, <1>4 DEF SameRun
  <1>5. ASSUME NEW p \in {counted, synced}, NEW status, NEW phase,
               project' = Reconciled(p, status, phase),
               status \in {"ready", "done", "blocked"},
               phase \notin {"implementing", "planning_sync"},
               status = "done" => ApplyState = "all_done",
               seen \in {"sync", "blocked"}, p = counted \/ seen = "sync"
        PROVE  /\ ~HasExec(project) /\ Rests(project') /\ project'.change = project.change
               /\ project'.dirty = project.dirty \/ ~project.dirty
               /\ project'.status = "done" => ApplyState = "all_done"
               /\ project'.phase # "planning_sync"
    <2>1. /\ project'.exec = p.exec /\ project'.change = p.change /\ project'.status = status
          /\ project'.phase = phase /\ project'.dirty = p.dirty
      BY <1>1, <1>2, <1>5, ReconciledFields
    <2>2. p.exec = project.exec /\ p.change = project.change
      BY <1>1, <1>2 DEF SameRun
    <2> QED
      BY <1>1, <1>3, <1>5, <2>1, <2>2 DEF Rests, HasExec
  <1>6. project' =
          CASE seen = "sync" /\ ApplyState = "ready" -> Reconciled(synced, "ready", "tasks")
            [] seen = "sync" /\ ApplyState = "all_done" -> Reconciled(synced, "done", "validating")
            [] seen = "sync" /\ ApplyState = "blocked" -> Reconciled(counted, "blocked", "proposal")
            [] seen = "blocked" /\ ApplyState = "all_done" -> Reconciled(counted, "done", "validating")
            [] OTHER -> counted
    BY DEF StatusUpdate, counted, synced
  <1>7. \/ seen = "sync" /\ ApplyState = "ready" /\ project' = Reconciled(synced, "ready", "tasks")
        \/ seen = "sync" /\ ApplyState = "all_done" /\ project' = Reconciled(synced, "done", "validating")
        \/ seen = "sync" /\ ApplyState = "blocked" /\ project' = Reconciled(counted, "blocked", "proposal")
        \/ seen = "blocked" /\ ApplyState = "all_done" /\ project' = Reconciled(counted, "done", "validating")
        \/ project' = counted
    BY <1>6
  <1> HIDE DEF seen
  <1>8. CASE seen = "sync" /\ ApplyState = "ready" /\ project' = Reconciled(synced, "ready", "tasks")
    BY <1>5, <1>8
  <1>9. CASE /\ seen = "sync" /\ ApplyState = "all_done"
             /\ project' = Reconciled(synced, "done", "validating")
    BY <1>5, <1>9
  <1>10. CASE /\ seen = "sync" /\ ApplyState = "blocked"
              /\ project' = Reconciled(counted, "blocked", "proposal")
    BY <1>5, <1>10
  <1>11. CASE /\ seen = "blocked" /\ ApplyState = "all_done"
              /\ project' = Reconciled(counted, "done", "validating")
    BY <1>5, <1>11
  <1> QED
    BY <1>4, <1>7, <1>8, <1>9, <1>10, <1>11

\* What a command does to the record: it leaves the run on it alone, it finds
\* no run and leaves none, or it queues one.
LeavesOrSettles(c) ==
    \/ SameRun(project, project')
    \/ /\ ~HasExec(project) /\ Rests(project')
       /\ project'.change => project.change \/ client[c].pc = "propose"

\* Only planning in the chat, or another change, forgets notes; done is
\* written with every task ticked off only.
KeepsNotes(c) ==
    project.dirty /\ project'.change =>
        \/ project'.dirty
        \/ client[c].pc = "planend"
        \/ client[c].pc = "propose" /\ Rests(project') /\ project'.status = "ready"

\* Only the end of a turn in the chat blocks a project in the midst of planning.
BlocksNoPlanning(c) ==
    \/ SameRun(project, project')
    \/ client[c].pc = "planend"
    \/ project'.status = "blocked" => project'.phase # "planning_sync"

DoneWhenComplete == project'.status = "done" => project.status = "done" \/ ApplyState = "all_done"

\* Each command does one of these, keeps notes, writes done of a complete change
\* only, and blocks no planning.
LEMMA CommandKinds ==
  ASSUME TypeInv, RunInv, NEW c \in Clients, CommandStep(c)
  PROVE  /\ \/ LeavesOrSettles(c)
            \/ WorkArm(c) /\ ApplyState = "ready" /\ QueuesWork(project, project')
         /\ KeepsNotes(c) /\ DoneWhenComplete /\ BlocksNoPlanning(c)
  <1>0. project \in Projects
    BY DEF TypeInv, TypeOK
  <1> USE DEF LeavesOrSettles, KeepsNotes, DoneWhenComplete, BlocksNoPlanning
  <1>1. ASSUME NEW p \in Projects, NEW e, SameRun(project, p), p.dirty = project.dirty,
               project' = p \/ project' = Counted(p, e)
        PROVE  SameRun(project, project') /\ project'.dirty = project.dirty
    BY <1>0, <1>1, SameRunFields DEF SameRun
  <1>2. CASE WorkArm(c)
    <2>1. ~HasExec(project) /\ project.change
      BY <1>2, DecidedFacts DEF WorkArm, Deciding
    <2>2. CASE ApplyState = "all_done" /\ project' = Counted(NothingToDo(project), TRUE)
      <3>1. /\ Rests(NothingToDo(project)) /\ NothingToDo(project) \in Projects
            /\ NothingToDo(project).change = project.change
            /\ NothingToDo(project).dirty = project.dirty
            /\ NothingToDo(project).status = "done"
        BY <1>0, RestingFields, CommandType DEF Statuses, Phases
      <3>2. /\ Rests(project') /\ project'.change = project.change
            /\ project'.dirty = project.dirty /\ project'.status = "done"
        BY <2>2, <3>1, CountedRests, SameRunFields DEF SameRun
      <3> QED
        BY <2>1, <2>2, <3>2
    <2>3. CASE UNCHANGED project
      BY <2>3 DEF SameRun
    <2>4. CASE /\ ApplyState = "ready" /\ RoomForSession
               /\ project' = Counted(Queued(project, Armed("work", Fresh, 0, 0)), FALSE)
      <3> DEFINE q == Queued(project, Armed("work", Fresh, 0, 0))
      <3>1. "work" \in Actions /\ Fresh \in Sessions /\ 0 \in 0..MaxRestart /\ 0 \in 0..Artifacts
        BY <2>4, FreshLemma, MaxRestartAssumption, ArtifactsAssumption DEF Actions
      <3>2. /\ HasExec(q) /\ Shown(q) /\ q.exec.action = "work" /\ q.exec.state = "armed"
            /\ q \in Projects /\ q.dirty = project.dirty
        <4>1. Armed("work", Fresh, 0, 0) \in Executions
          BY <3>1, ArmedType
        <4> QED
          BY <1>0, <2>1, <3>1, <4>1, QueuedFields, QueuedType
      <3> HIDE DEF q
      <3>3. SameRun(q, project') /\ project'.dirty = project.dirty
        BY <2>4, <3>2, SameRunFields DEF q
      <3>4. QueuesWork(project, project') /\ project'.status \notin {"done", "blocked"}
        BY <2>1, <3>2, <3>3 DEF SameRun, Shown, HasExec, QueuesWork
      <3> QED
        BY <1>2, <2>4, <3>3, <3>4
    <2> QED
      BY <1>2, <2>2, <2>3, <2>4 DEF WorkArm
  <1>3. CASE ContinuePlanning(c) \/ PlanStart(c)
    <2>1. ~HasExec(project) /\ project.change
      BY <1>3, DecidedFacts DEF ContinuePlanning, PlanStart, Deciding
    <2>2. /\ Rests(project') /\ project'.dirty = project.dirty
          /\ project'.status \notin {"done", "blocked"}
      BY <1>0, <1>3, RestingFields DEF ContinuePlanning, PlanStart
    <2> QED
      BY <2>1, <2>2
  <1>4. CASE TurnEndUpdate(c)
    <2>1. ~HasExec(project) /\ project.change /\ client[c].pc = "planend"
      BY <1>4, DecidedFacts DEF TurnEndUpdate, Deciding
    <2>2. Rests(project') /\ (project'.status = "done" => ApplyState = "all_done")
      <3>1. CASE project' = Counted(Planned(project, ApplyState, FALSE), spec.tasks = 0)
        <4>1. /\ Rests(Planned(project, ApplyState, FALSE))
              /\ Planned(project, ApplyState, FALSE) \in Projects
              /\ Planned(project, ApplyState, FALSE).status = "done" => ApplyState = "all_done"
          <5> DEFINE b == FALSE
          <5>1. b \in BOOLEAN
            OBVIOUS
          <5> HIDE DEF b
          <5>2. /\ Rests(Planned(project, ApplyState, b))
                /\ Planned(project, ApplyState, b).status = "done" => ApplyState = "all_done"
            BY <1>0, <5>1, EndedFields
          <5>3. Planned(project, ApplyState, b) \in Projects
            BY <1>0, <5>1, EndedType
          <5> QED
            BY <5>2, <5>3 DEF b
        <4>2. (spec.tasks = 0) \in BOOLEAN
          OBVIOUS
        <4> QED
          BY <3>1, <4>1, <4>2, CountedRests, SameRunFields DEF SameRun
      <3>2. CASE \E f \in BOOLEAN : project' = PlanningFailed(project, f)
        BY <1>0, <3>2, EndedFields
      <3> QED
        BY <1>4, <3>1, <3>2 DEF TurnEndUpdate
    <2> QED
      BY <2>1, <2>2
  <1>5. CASE NoteUpdate(c)
    BY <1>0, <1>5, SameRunFields DEF NoteUpdate, SameRun
  <1>6. CASE Request(c)
    BY <1>0, <1>6, SameRunFields DEF Request, SameRun
  <1>7. CASE UNCHANGED project
    BY <1>7 DEF SameRun
  <1>8. CASE DiscardUpdate(c) \/ ArchiveUpdate(c)
    <2>1. ~HasExec(project)
      BY <1>8, DecidedFacts DEF DiscardUpdate, ArchiveUpdate, Deciding
    <2>2. Rests(project') /\ ~project'.change /\ project'.status \notin {"done", "blocked"}
      BY <1>0, <1>8, RestingFields DEF DiscardUpdate, ArchiveUpdate
    <2> QED
      BY <2>1, <2>2
  <1>9. CASE ProposeUpdate(c)
    <2>1. ~HasExec(project) /\ client[c].pc = "propose"
      BY <1>9, DecidedFacts DEF ProposeUpdate, Deciding
    <2>2. Rests(project') /\ project'.status = "ready"
      BY <1>0, <1>9, RestingFields DEF ProposeUpdate
    <2> QED
      BY <2>1, <2>2
  <1>10. CASE StatusUpdate(c)
    BY <1>10, StatusFields DEF SameRun
  <1> QED
    BY <1>2, <1>3, <1>4, <1>5, <1>6, <1>7, <1>8, <1>9, <1>10
       DEF CommandStep, InterruptAndWake, DiscardFiles, CommandFails

\* A command goes on or ends.
LEMMA CommandRun ==
  ASSUME TypeInv, RunInv, OneCommand, NEW c \in Clients, CommandStep(c)
  PROVE  RunInv'
  <1>1. manager.pc = "up"
    <2>1. \E pc \in {"work", "continue", "plan", "planend", "note", "pause", "cancel", "interrupt",
                    "discard", "discarded", "status", "archive", "propose"} : At(c, pc)
      BY DEF CommandStep, WorkArm, ContinuePlanning, PlanStart, TurnEndUpdate, NoteUpdate, Request,
             InterruptAndWake, DiscardFiles, DiscardUpdate, StatusUpdate, ArchiveUpdate,
             ProposeUpdate, CommandFails
    <2> QED
      BY <2>1, DecidedFacts
  <1>2. CASE DiscardFiles(c)
    <2>1. ~HasExec(project) /\ project.change
      BY <1>2, DecidedFacts DEF DiscardFiles, Deciding
    <2>2. client'[c].pc = "discarded"
      BY <1>2 DEF DiscardFiles, TypeInv, TypeOK, ClientStates
    <2>3. StillHolds(c)'
      BY <1>2, <2>1, <2>2 DEF DiscardFiles, StillHolds, Deciding
    <2>4. SameRun(project, project')
      BY <1>2 DEF DiscardFiles, SameRun
    <2> QED
      BY <1>1, <1>2, <2>3, <2>4, CommandGoesOn DEF DiscardFiles
  <1>3. CASE ~DiscardFiles(c)
    <2> DEFINE Ends == \E x : client' = [client EXCEPT ![c] = x] /\ x.pc \in {"idle", "interrupt"}
    <2>1. Ends /\ UNCHANGED <<watcher, known, manager>> /\ (timer => timer')
      <3>1. CASE Request(c)
        <4>1. \E seen : client' = [client EXCEPT ![c] = [pc |-> "interrupt", seen |-> seen]]
          BY <3>1 DEF Request
        <4>2. PICK seen : client' = [client EXCEPT ![c] = [pc |-> "interrupt", seen |-> seen]]
          BY <4>1
        <4>3. [pc |-> "interrupt", seen |-> seen].pc \in {"idle", "interrupt"}
          OBVIOUS
        <4> QED
          BY <3>1, <4>2, <4>3 DEF Request, Ends
      <3>2. Done(c) => Ends
        <4>1. IdleClient.pc = "idle"
          BY DEF IdleClient
        <4> QED
          BY <4>1, Zenon DEF Done
      <3> HIDE DEF Ends
      <3>3. CASE WorkArm(c)
        <4>1. Done(c) /\ UNCHANGED <<watcher, known, manager>>
          BY <3>3 DEF WorkArm
        <4>2. timer => timer'
          BY <3>3 DEF WorkArm, Kick
        <4> QED
          BY <3>2, <4>1, <4>2
      <3>4. CASE ContinuePlanning(c) \/ PlanStart(c) \/ TurnEndUpdate(c) \/ NoteUpdate(c)
        <4>1. Done(c) /\ UNCHANGED <<watcher, known, manager>>
          BY <3>4 DEF ContinuePlanning, PlanStart, TurnEndUpdate, NoteUpdate
        <4>2. timer => timer'
          BY <3>4 DEF ContinuePlanning, PlanStart, TurnEndUpdate, NoteUpdate
        <4> QED
          BY <3>2, <4>1, <4>2
      <3>5. CASE InterruptAndWake(c) \/ CommandFails(c)
        <4>1. Done(c) /\ UNCHANGED <<watcher, known, manager>>
          BY <3>5 DEF InterruptAndWake, CommandFails
        <4>2. timer => timer'
          BY <3>5 DEF InterruptAndWake, CommandFails, Kick
        <4> QED
          BY <3>2, <4>1, <4>2
      <3>6. CASE DiscardUpdate(c) \/ StatusUpdate(c) \/ ArchiveUpdate(c) \/ ProposeUpdate(c)
        <4>1. Done(c) /\ UNCHANGED <<watcher, known, manager>>
          BY <3>6 DEF DiscardUpdate, StatusUpdate, ArchiveUpdate, ProposeUpdate
        <4>2. timer => timer'
          BY <3>6 DEF DiscardUpdate, StatusUpdate, ArchiveUpdate, ProposeUpdate
        <4> QED
          BY <3>2, <4>1, <4>2
      <3> QED
        BY <1>3, <3>1, <3>3, <3>4, <3>5, <3>6 DEF CommandStep
    <2>2. PICK x : client' = [client EXCEPT ![c] = x] /\ x.pc \in {"idle", "interrupt"}
      BY <2>1
    <2>3. \/ SameRun(project, project')
          \/ ~HasExec(project) /\ Rests(project')
          \/ QueuesWork(project, project')
      BY CommandKinds DEF LeavesOrSettles
    <2> QED
      BY <1>1, <2>1, <2>2, <2>3, CommandEnds, CommandSettles, QueueRun
  <1> QED
    BY <1>2, <1>3

-----------------------------------------------------------------------------
(* The watcher keeps it.                                                   *)

\* A run that goes on without touching the record.
LEMMA RunMoves ==
  ASSUME TypeInv, RunInv, InRun, watcher'.pc \notin {"idle", "leave"},
         UNCHANGED <<project, manager, client>>, known' \subseteq known,
         OnRecord(watcher'),
         watcher'.pc \in {"restarted", "settle"} => known' = {}
  PROVE  RunInv'
  <1>1. manager.pc = "up" /\ HasExec(project)
    BY DEF RunInv, ManagerAlone, RunOnRecord, InRun
  <1>2. InRun' /\ OnRecord(watcher)'
    BY DEF InRun, OnRecord
  <1>3. ManagerAlone' /\ CommandsWait'
    BY <1>1 DEF RunInv, ManagerAlone, CommandsWait, StillHolds
  <1>4. ExecShown' /\ WorkOnly' /\ RunOnRecord' /\ SessionsOnRecord' /\ RunAttended'
    BY <1>1, <1>2 DEF RunInv, ExecShown, WorkOnly, RunOnRecord, SessionsOnRecord, RunAttended
  <1> QED
    BY <1>3, <1>4 DEF RunInv

\* A run that is over, with the record as it is, while nobody waits for it.
LEMMA RunGivesUp ==
  ASSUME TypeInv, RunInv, watcher' = IdleWatcher,
         project.exec.state = "running" => manager.pc # "up",
         UNCHANGED <<project, manager, client>>, known' \subseteq known
  PROVE  RunInv'
  <1>1. watcher'.pc = "idle"
    BY DEF IdleWatcher
  <1>2. ManagerAlone' /\ CommandsWait'
    BY <1>1 DEF RunInv, ManagerAlone, CommandsWait, StillHolds
  <1>3. ExecShown' /\ WorkOnly' /\ RunOnRecord' /\ SessionsOnRecord' /\ RunAttended'
    BY <1>1 DEF RunInv, ExecShown, WorkOnly, RunOnRecord, InRun, SessionsOnRecord, RunAttended
  <1> QED
    BY <1>2, <1>3 DEF RunInv

\* What a command read holds after a step that ends or queues a run.
LEMMA CommandsStay ==
  ASSUME RunInv, HasExec(project), UNCHANGED client
  PROVE  CommandsWait'
  <1>1. ASSUME NEW c \in Clients PROVE StillHolds(c)'
    <2>1. StillHolds(c)
      BY DEF RunInv, CommandsWait
    <2>2. client[c].pc \notin Deciding
      BY <2>1 DEF StillHolds
    <2>3. client[c].pc = "status" => client[c].seen \notin {"sync", "blocked"}
      BY <2>1 DEF StillHolds
    <2> QED
      BY <2>1, <2>2, <2>3 DEF StillHolds, Deciding
  <1> QED
    BY <1>1 DEF CommandsWait

\* A run writes that the next turn is queued, and rests.
LEMMA RunQueues ==
  ASSUME TypeInv, RunInv, RunAssumption, HasExec(project), InRun,
         watcher' = IdleWatcher, UNCHANGED <<client, manager, known>>,
         Shown(project'), project'.exec.action = project.exec.action,
         project'.exec.state = "armed",
         known = {} \/ project'.exec.sess = project.exec.sess
  PROVE  RunInv'
  <1>1. watcher'.pc = "idle" /\ HasExec(project')
    BY DEF IdleWatcher, Shown
  <1>2. manager.pc = "up"
    BY DEF RunInv, ManagerAlone, InRun
  <1>3. CommandsWait'
    BY CommandsStay
  <1>4. ManagerAlone'
    BY <1>2 DEF RunInv, ManagerAlone
  <1>5. ExecShown' /\ WorkOnly' /\ RunOnRecord' /\ SessionsOnRecord' /\ RunAttended'
    BY <1>1 DEF RunInv, ExecShown, WorkOnly, RunOnRecord, InRun, SessionsOnRecord, RunAttended
  <1> QED
    BY <1>3, <1>4, <1>5 DEF RunInv

\* A run ends.
LEMMA RunSettles ==
  ASSUME TypeInv, RunInv, RunAssumption, HasExec(project), watcher.pc = "settle",
         watcher' = IdleWatcher, UNCHANGED <<client, manager, known>>, Rests(project')
  PROVE  RunInv'
  <1>1. watcher'.pc = "idle" /\ ~HasExec(project') /\ project'.exec.state # "running"
    BY DEF IdleWatcher, Rests, HasExec, NoExec
  <1>2. manager.pc = "up" /\ known = {}
    BY DEF RunInv, ManagerAlone, SessionsOnRecord
  <1>3. CommandsWait'
    BY CommandsStay
  <1>4. ManagerAlone'
    BY <1>2 DEF RunInv, ManagerAlone
  <1>5. ExecShown' /\ WorkOnly' /\ RunOnRecord' /\ SessionsOnRecord' /\ RunAttended'
    BY <1>1, <1>2 DEF RunInv, ExecShown, WorkOnly, RunOnRecord, InRun, SessionsOnRecord, RunAttended
  <1> QED
    BY <1>3, <1>4, <1>5 DEF RunInv

\* A run begins on the record it reads.
LEMMA StartRun ==
  ASSUME TypeInv, RunInv, RunStart
  PROVE  RunInv'
  <1>0. project \in Projects /\ manager.pc = "up" /\ watcher.pc = "idle"
    BY DEF TypeInv, TypeOK, RunStart
  <1>1. /\ watcher'.pc \in {"leave", "close", "read"}
        /\ watcher'.pc = "leave" => ~ShouldWatch(project)
        /\ watcher'.pc # "leave" => ShouldWatch(project)
        /\ watcher'.pc = "close" => watcher'.goal \in {"cancel", "pause"}
        /\ watcher'.action = IF PlanningPending(project) THEN "plan" ELSE "work"
        /\ watcher'.exec = project.exec
    <2> DEFINE pc == CASE ~ShouldWatch(project) -> "leave"
                       [] StopsAtOnce -> "close"
                       [] OTHER -> "read"
               goal == CASE StopsAtOnce /\ project.cancel -> "cancel"
                         [] StopsAtOnce /\ ~project.cancel -> "pause"
                         [] OTHER -> "none"
               action == IF PlanningPending(project) THEN "plan" ELSE "work"
    <2>1. /\ pc \in {"leave", "close", "read"}
          /\ pc = "leave" <=> ~ShouldWatch(project)
          /\ pc = "close" => goal \in {"cancel", "pause"}
      <3>1. StopsAtOnce => ShouldWatch(project)
        BY DEF StopsAtOnce
      <3>2. CASE ~ShouldWatch(project)
        <4>1. ~StopsAtOnce
          BY <3>1, <3>2
        <4>2. pc = "leave"
          BY <3>2, <4>1
        <4> HIDE DEF pc
        <4> QED
          BY <3>2, <4>2
      <3>3. CASE StopsAtOnce
        <4>1. project.cancel \in BOOLEAN
          BY <1>0, ProjectFields
        <4>2. pc = "close" /\ goal \in {"cancel", "pause"}
          BY <3>1, <3>3, <4>1
        <4> HIDE DEF pc, goal
        <4> QED
          BY <3>1, <3>3, <4>2
      <3>4. CASE ShouldWatch(project) /\ ~StopsAtOnce
        <4>1. pc = "read"
          BY <3>4
        <4> HIDE DEF pc
        <4> QED
          BY <3>4, <4>1
      <3> QED
        BY <3>2, <3>3, <3>4
    <2>2. watcher' = [IdleWatcher EXCEPT !.pc = pc, !.goal = goal, !.action = action,
                                         !.exec = project.exec, !.dirty = project.dirty]
      BY DEF RunStart
    <2>3. /\ watcher'.pc = pc /\ watcher'.goal = goal /\ watcher'.action = action
          /\ watcher'.exec = project.exec
      <3> HIDE DEF pc, goal, action
      <3> QED
        BY <2>2 DEF IdleWatcher
    <2>4. action = IF PlanningPending(project) THEN "plan" ELSE "work"
      OBVIOUS
    <2> HIDE DEF pc, goal, action
    <2> QED
      BY <2>1, <2>3, <2>4
  <1>2. ShouldWatch(project) <=> HasExec(project)
    BY DEF ShouldWatch, RunInv, ExecShown, Shown
  <1>3. HasExec(project) => watcher'.action = project.exec.action
    BY <1>0, <1>1, ProjectFields DEF RunInv, ExecShown, Shown, PlanningPending, Actions
  <1>4. HasExec(project) => OnRecord(watcher')
    BY <1>1, <1>2, <1>3 DEF OnRecord, RunGoals
  <1>5. UNCHANGED <<project, known, manager, client>>
    BY DEF RunStart
  <1>6. ManagerAlone' /\ CommandsWait'
    BY <1>0, <1>5 DEF RunInv, ManagerAlone, CommandsWait, StillHolds
  <1>7. ~HasExec(project) => project.exec.state # "running"
    BY DEF HasExec, NoExec
  <1>8. RunOnRecord'
    BY <1>1, <1>2, <1>4, <1>5 DEF RunOnRecord, InRun, OnRecord
  <1>9. ExecShown' /\ WorkOnly' /\ SessionsOnRecord' /\ RunAttended'
    BY <1>1, <1>2, <1>5, <1>7
       DEF RunInv, ExecShown, WorkOnly, InRun, SessionsOnRecord, RunAttended
  <1> QED
    BY <1>6, <1>8, <1>9 DEF RunInv

\* Reading the change and the record.
LEMMA ReadRun ==
  ASSUME TypeInv, RunInv, ReadApply \/ ReadStatus \/ ReadSynced
  PROVE  RunInv'
  <1>0. watcher \in Watchers /\ InRun
    BY DEF TypeInv, TypeOK, InRun, ReadApply, ReadStatus, ReadSynced
  <1>1. HasExec(project) /\ OnRecord(watcher)
    BY <1>0 DEF RunInv, RunOnRecord
  <1>2. project.exec \in Executions
    BY <1>1, HasExecLemma DEF TypeInv, TypeOK
  <1>3. CASE ReadApply
    <2>1. \/ watcher' = [watcher EXCEPT !.pc = "close", !.goal = "block", !.failure = "other"]
          \/ watcher' = [watcher EXCEPT !.pc = "close", !.goal = "done"]
          \/ /\ watcher.exec.state = "running"
             /\ watcher' = [watcher EXCEPT !.pc = "turn", !.attached = TRUE]
          \/ /\ watcher.exec.state # "running"
             /\ watcher' = [watcher EXCEPT !.pc = "start"]
      BY <1>3 DEF ReadApply
    <2>2. watcher.pc = "read" /\ UNCHANGED <<project, known, manager, client>>
      BY <1>3 DEF ReadApply
    <2>3. /\ OnRecord(watcher')
          /\ watcher'.pc \in {"close", "turn", "start"}
      <3>1. CASE watcher' = [watcher EXCEPT !.pc = "close", !.goal = "block", !.failure = "other"]
        BY <1>0, <1>1, <2>2, <3>1 DEF OnRecord, RunGoals, Watchers
      <3>2. CASE watcher' = [watcher EXCEPT !.pc = "close", !.goal = "done"]
        BY <1>0, <1>1, <2>2, <3>2 DEF OnRecord, RunGoals, Watchers
      <3>3. CASE /\ watcher.exec.state = "running"
                 /\ watcher' = [watcher EXCEPT !.pc = "turn", !.attached = TRUE]
        BY <1>0, <1>1, <2>2, <3>3 DEF OnRecord, RunGoals, Watchers
      <3>4. CASE /\ watcher.exec.state # "running"
                 /\ watcher' = [watcher EXCEPT !.pc = "start"]
        BY <1>0, <1>1, <1>2, <2>2, <3>4 DEF OnRecord, RunGoals, Watchers, Executions
      <3> QED
        BY <2>1, <3>1, <3>2, <3>3, <3>4
    <2> QED
      BY <1>0, <2>2, <2>3, RunMoves
  <1>4. CASE ReadStatus
    <2>1. watcher.pc = "read" /\ watcher.action = "plan" /\ UNCHANGED <<project, known, manager, client>>
      BY <1>4 DEF ReadStatus
    <2>2. /\ OnRecord(watcher')
          /\ watcher'.pc \in {"synced", "close", "turn", "start"}
      <3>1. CASE watcher' = [watcher EXCEPT !.pc = "synced"]
        BY <1>0, <1>1, <2>1, <3>1 DEF OnRecord, RunGoals, Watchers
      <3>2. CASE watcher' = [watcher EXCEPT
                               !.pc = IF watcher.exec.state = "running" THEN "turn" ELSE "start",
                               !.attached = watcher.exec.state = "running",
                               !.exec.artifact = SelectedArtifact]
        <4>1. /\ watcher'.pc = IF watcher.exec.state = "running" THEN "turn" ELSE "start"
              /\ watcher'.action = watcher.action /\ watcher'.exec.sess = watcher.exec.sess
          <5>1. watcher.exec \in Executions
            BY <2>1 DEF TypeInv, RunPcs
          <5> QED
            BY <1>0, <3>2, <5>1 DEF Watchers, Executions
        <4> QED
          BY <1>1, <1>2, <2>1, <4>1 DEF OnRecord, Executions
      <3>3. CASE watcher' = [watcher EXCEPT !.pc = "close", !.goal = "block", !.failure = "other"]
        BY <1>0, <1>1, <2>1, <3>3 DEF OnRecord, RunGoals, Watchers
      <3> QED
        BY <1>4, <3>1, <3>2, <3>3 DEF ReadStatus
    <2> QED
      BY <1>0, <2>1, <2>2, RunMoves
  <1>5. CASE ReadSynced
    <2>1. watcher.pc = "synced" /\ UNCHANGED <<project, known, manager, client>>
      BY <1>5 DEF ReadSynced
    <2>2. /\ watcher'.pc = "close" /\ watcher'.action = watcher.action
          /\ watcher'.exec = project.exec
      BY <1>0, <1>1, <1>5 DEF ReadSynced, Watchers
    <2>3. OnRecord(watcher')
      BY <1>1, <2>1, <2>2 DEF OnRecord
    <2> QED
      BY <1>0, <2>1, <2>2, <2>3, RunMoves
  <1> QED
    BY <1>3, <1>4, <1>5

\* The turn: the run starts, its worker is spawned and ends.
LEMMA TurnRun ==
  ASSUME TypeInv, RunInv, SetRunning \/ Spawn \/ CaptureResult \/ TurnEnds \/ WatchEnds
  PROVE  RunInv'
  <1>0. watcher \in Watchers /\ InRun
    BY DEF TypeInv, TypeOK, InRun, SetRunning, Spawn, CaptureResult, TurnEnds, WatchEnds
  <1>1. HasExec(project) /\ OnRecord(watcher) /\ manager.pc = "up" /\ project \in Projects
    BY <1>0 DEF RunInv, RunOnRecord, ManagerAlone, InRun, TypeInv, TypeOK
  <1>2. CASE SetRunning
    <2> DEFINE a == IF watcher.action = "plan" THEN watcher.exec.artifact ELSE 0
               q == Started(project, watcher.action, watcher.exec.sess, a)
    <2>1. project' = q /\ UNCHANGED <<known, manager, client>> /\ watcher.pc = "start"
      BY <1>2 DEF SetRunning
    <2>2. watcher' = [watcher EXCEPT !.pc = "spawn", !.exec = project'.exec]
      BY <1>2 DEF SetRunning
    <2>3. /\ watcher'.pc = "spawn" /\ watcher'.action = watcher.action
          /\ watcher'.exec = project'.exec
      BY <1>0, <2>2 DEF Watchers
    <2>4. watcher.exec \in Executions /\ watcher.action \in Actions
      BY <1>0, <2>1 DEF TypeInv, RunPcs, Watchers
    <2>5. a \in 0..Artifacts /\ watcher.exec.sess \in Sessions
      BY <2>4, ArtifactsAssumption DEF Executions
    <2> HIDE DEF a
    <2>6. q \in Projects /\ q.exec \in Executions /\ q.exec.sess = watcher.exec.sess
      BY <1>1, <2>4, <2>5, StartedType
    <2>7. /\ q.change = project.change /\ q.exec.action = watcher.action
          /\ q.exec.state = "running" /\ q.dirty = project.dirty
          /\ q.status = IF project.status = "planning" THEN "planning" ELSE "running"
          /\ q.phase = IF project.status = "planning" \/ watcher.action = "plan"
                       THEN "planning_sync" ELSE "implementing"
      BY <1>1 DEF Started, Projects
    <2> HIDE DEF q
    <2>8. watcher.action = project.exec.action /\ watcher.exec.sess = project.exec.sess
      BY <1>1, <2>1 DEF OnRecord
    <2>9. HasExec(project')
      BY <2>1, <2>6, HasExecLemma
    <2>10. Shown(project')
      BY <1>1, <2>1, <2>7, <2>8, <2>9 DEF RunInv, ExecShown, Shown
    <2>11. OnRecord(watcher)'
      BY <2>1, <2>3, <2>6, <2>7 DEF OnRecord
    <2>12. CommandsWait'
      BY <1>1, <2>1, CommandsStay
    <2>13. SessionsOnRecord'
      BY <2>1, <2>3, <2>6, <2>8, <2>9 DEF RunInv, SessionsOnRecord
    <2>14. ManagerAlone' /\ ExecShown' /\ WorkOnly' /\ RunOnRecord' /\ RunAttended'
      BY <1>1, <2>1, <2>3, <2>7, <2>8, <2>9, <2>10, <2>11
         DEF RunInv, ManagerAlone, ExecShown, WorkOnly, RunOnRecord, RunAttended, InRun
    <2> QED
      BY <2>12, <2>13, <2>14 DEF RunInv
  <1>3. CASE Spawn
    <2>1. /\ watcher' = [watcher EXCEPT !.pc = "turn"] /\ watcher.pc = "spawn"
          /\ known' = known \cup {watcher.exec.sess}
          /\ UNCHANGED <<project, manager, client>>
      BY <1>3 DEF Spawn
    <2>2. /\ watcher'.pc = "turn" /\ watcher'.action = watcher.action
          /\ watcher'.exec = watcher.exec
      BY <1>0, <2>1 DEF Watchers
    <2>3. OnRecord(watcher')
      BY <1>1, <2>1, <2>2 DEF OnRecord
    <2>4. SessionsOnRecord'
      BY <1>1, <2>1, <2>2 DEF RunInv, SessionsOnRecord, OnRecord
    <2>5. ManagerAlone' /\ CommandsWait'
      BY <1>1, <2>1 DEF RunInv, ManagerAlone, CommandsWait, StillHolds
    <2>6. ExecShown' /\ WorkOnly' /\ RunOnRecord' /\ RunAttended'
      BY <1>1, <2>1, <2>2, <2>3
         DEF RunInv, ExecShown, WorkOnly, RunOnRecord, InRun, RunAttended, OnRecord
    <2> QED
      BY <2>4, <2>5, <2>6 DEF RunInv
  <1>4. CASE CaptureResult
    BY <1>4, RunFrame DEF CaptureResult
  <1>5. CASE TurnEnds \/ WatchEnds
    <2>1. \E failure : AfterTurn(failure)
      BY <1>5 DEF TurnEnds, WatchEnds
    <2>2. watcher.pc = "turn" /\ UNCHANGED <<project, known, manager, client>>
      BY <1>5 DEF TurnEnds, WatchEnds
    <2>3. watcher'.pc = "resolve" /\ watcher'.action = watcher.action
      BY <1>0, <1>1, <2>1 DEF AfterTurn, Watchers
    <2>4. OnRecord(watcher')
      BY <1>1, <2>2, <2>3 DEF OnRecord
    <2> QED
      BY <1>0, <2>2, <2>3, <2>4, RunMoves
  <1> QED
    BY <1>2, <1>3, <1>4, <1>5

\* After the turn: what is done next, restarts, and the next turn.
LEMMA AfterTurnRun ==
  ASSUME TypeInv, RunInv, RunAssumption,
         Resolve \/ RestartClose \/ RestartUpdate \/ Finish \/ Rearm
  PROVE  RunInv'
  <1>0. watcher \in Watchers /\ InRun
    BY DEF TypeInv, TypeOK, InRun, Resolve, RestartClose, RestartUpdate, Finish, Rearm
  <1>1. /\ HasExec(project) /\ OnRecord(watcher) /\ manager.pc = "up" /\ project \in Projects
        /\ project.change
    BY <1>0 DEF RunInv, RunOnRecord, ManagerAlone, InRun, TypeInv, TypeOK, ExecShown, Shown
  <1>2. \A s \in known : s = project.exec.sess
    BY DEF RunInv, SessionsOnRecord
  <1>3. CASE Resolve
    <2>1. /\ watcher.pc = "resolve" /\ UNCHANGED <<project, known, manager, client>>
          /\ watcher'.action = watcher.action
          /\ watcher'.pc \in {"close", "restart", "rearm", "finish"}
          /\ watcher'.pc = "close" =>
               watcher'.goal \in RunGoals /\ watcher'.exec = project.exec
      BY <1>0, <1>3 DEF Resolve, Watchers, RunGoals
    <2>2. OnRecord(watcher')
      BY <1>1, <2>1 DEF OnRecord
    <2> QED
      BY <1>0, <2>1, <2>2, RunMoves
  <1>4. CASE RestartClose
    <2>1. watcher.pc = "restart" /\ UNCHANGED <<project, manager, client>>
      BY <1>4 DEF RestartClose
    <2>2. CASE watcher' = [watcher EXCEPT !.pc = "close", !.goal = "block", !.exec = project.exec]
               /\ UNCHANGED known
      <3>1. /\ watcher'.pc = "close" /\ watcher'.goal = "block" /\ watcher'.exec = project.exec
            /\ watcher'.action = watcher.action
        BY <1>0, <2>2 DEF Watchers
      <3>2. OnRecord(watcher')
        BY <1>1, <2>1, <3>1 DEF OnRecord, RunGoals
      <3> QED
        BY <1>0, <2>1, <2>2, <3>1, <3>2, RunMoves
    <2>3. CASE /\ watcher' = [watcher EXCEPT !.pc = "restarted", !.exec = project.exec,
                                             !.exec.restarts = project.exec.restarts + 1]
               /\ known' = known \ {project.exec.sess}
      <3>1. watcher'.pc = "restarted" /\ watcher'.action = watcher.action
            /\ watcher'.exec.action = project.exec.action
        <4>1. project.exec \in Executions
          BY <1>1, HasExecLemma
        <4> QED
          BY <1>0, <2>3, <4>1 DEF Watchers, Executions
      <3>2. OnRecord(watcher') /\ known' = {}
        BY <1>1, <1>2, <2>1, <2>3, <3>1 DEF OnRecord
      <3> QED
        BY <1>0, <2>1, <3>1, <3>2, RunMoves
    <2> QED
      BY <1>1, <1>4, <2>2, <2>3 DEF RestartClose, CloseSession
  <1>5. CASE RestartUpdate
    <2> DEFINE a == IF watcher.exec.action = "plan" THEN watcher.exec.artifact ELSE 0
    <2>1. /\ project' = Queued(project, Armed(watcher.exec.action, Fresh, watcher.exec.restarts, a))
          /\ watcher' = IdleWatcher /\ UNCHANGED <<client, manager, known>>
          /\ watcher.pc = "restarted" /\ RoomForSession
      BY <1>5 DEF RestartUpdate, Restarted
    <2>2. watcher.exec \in Executions /\ Fresh \in Sessions
      BY <2>1, FreshLemma DEF TypeInv, RunPcs
    <2>3. /\ watcher.exec.action \in Actions /\ watcher.exec.restarts \in 0..MaxRestart
          /\ a \in 0..Artifacts
      BY <2>2, ArtifactsAssumption DEF Executions
    <2> HIDE DEF a
    <2>4. /\ Shown(project') /\ project'.exec.action = watcher.exec.action
          /\ project'.exec.state = "armed"
      BY <1>1, <2>1, <2>2, <2>3, QueuedFields
    <2>5. watcher.exec.action = project.exec.action /\ known = {}
      BY <1>1, <2>1 DEF OnRecord, RunInv, SessionsOnRecord
    <2> QED
      BY <1>0, <1>1, <2>1, <2>4, <2>5, RunQueues
  <1>6. CASE Finish
    <2>1. /\ watcher.pc = "finish" /\ UNCHANGED <<project, known, manager, client>>
          /\ watcher'.action = watcher.action
          /\ watcher'.pc \in {"close", "rearm"}
          /\ watcher'.pc = "close" =>
               watcher'.goal \in RunGoals /\ watcher'.exec = project.exec
      BY <1>0, <1>1, <1>6 DEF Finish, Watchers, RunGoals
    <2>2. OnRecord(watcher')
      BY <1>1, <2>1 DEF OnRecord
    <2> QED
      BY <1>0, <2>1, <2>2, RunMoves
  <1>7. CASE Rearm
    <2> DEFINE a == IF watcher.action = "plan" THEN watcher.exec.artifact ELSE 0
    <2>1. /\ project' = Queued(project, Armed(watcher.action, project.exec.sess, 0, a))
          /\ watcher' = IdleWatcher /\ UNCHANGED <<client, manager, known>>
          /\ watcher.pc = "rearm"
      BY <1>1, <1>7 DEF Rearm, Rearmed
    <2>2. project.exec \in Executions
      BY <1>1, HasExecLemma
    <2>3. /\ watcher.action \in Actions /\ project.exec.sess \in Sessions
          /\ 0 \in 0..MaxRestart /\ a \in 0..Artifacts
      BY <1>0, <2>2, WatcherFields, ArtifactsAssumption, MaxRestartAssumption DEF Executions
    <2> HIDE DEF a
    <2>4. /\ Shown(project') /\ project'.exec.action = watcher.action
          /\ project'.exec.state = "armed" /\ project'.exec.sess = project.exec.sess
      BY <1>1, <2>1, <2>3, QueuedFields
    <2>5. watcher.action = project.exec.action
      BY <1>1 DEF OnRecord
    <2> QED
      BY <1>0, <1>1, <2>1, <2>4, <2>5, RunQueues
  <1> QED
    BY <1>3, <1>4, <1>5, <1>6, <1>7

\* What a run writes at its end is a record without a run.  The dirty flag is
\* touched by cancellation and planning only, and done is written for that goal.
LEMMA SettledRests ==
  ASSUME TypeInv, Settle
  PROVE  /\ Rests(project')
         /\ watcher.goal # "cancel" => project'.change = project.change
         /\ watcher.goal \in RunGoals \ {"cancel"} => project'.dirty = project.dirty
         /\ watcher.goal = "cancel" => ~project'.change
         /\ watcher.goal \in RunGoals /\ project'.status = "done" => watcher.goal = "done"
         /\ project'.status = "blocked" /\ project'.phase = "planning_sync" =>
              project'.dirty = project.dirty /\ StoppedPhase(project) = "planning_sync"
  <1>0. project \in Projects /\ watcher.dirty \in BOOLEAN
    BY WatcherFields DEF TypeInv, TypeOK
  <1>1. CASE watcher.goal = "cancel"
    <2>1. project' = Cancelled(project)
      BY <1>1 DEF Settle
    <2> QED
      BY <1>0, <1>1, <2>1, RestingFields
  <1>2. CASE watcher.goal = "pause"
    <2>1. PICK e : project' = Counted(Paused(project), e)
      BY <1>2 DEF Settle
    <2>2. /\ Rests(Paused(project)) /\ Paused(project) \in Projects
          /\ Paused(project).change = project.change /\ Paused(project).dirty = project.dirty
          /\ Paused(project).status = "paused"
      BY <1>0, EndedFields, EndedType
    <2> QED
      BY <1>2, <2>1, <2>2, SameRunFields DEF SameRun, Rests, HasExec
  <1>3. CASE watcher.goal = "block"
    <2> DEFINE b == watcher.failure = "acp"
    <2>0. b \in BOOLEAN
      OBVIOUS
    <2>1. PICK e : project' = Counted(Blocked(project, b), e)
      BY <1>3 DEF Settle
    <2> HIDE DEF b
    <2>2. /\ Rests(Blocked(project, b)) /\ Blocked(project, b) \in Projects
          /\ Blocked(project, b).change = project.change
          /\ Blocked(project, b).dirty = project.dirty
          /\ Blocked(project, b).status = "blocked"
          /\ Blocked(project, b).phase = StoppedPhase(project)
      BY <1>0, <2>0, EndedFields, EndedType
    <2> QED
      BY <1>3, <2>1, <2>2, SameRunFields DEF SameRun, Rests, HasExec
  <1>4. CASE watcher.goal = "done"
    <2>1. project' = Completed(project)
      BY <1>4 DEF Settle
    <2> QED
      BY <1>0, <1>4, <2>1, EndedFields
  <1>5. CASE watcher.goal = "dirty"
    <2>1. project' = NeedsPlan(project)
      BY <1>5 DEF Settle
    <2> QED
      BY <1>0, <1>5, <2>1, EndedFields
  <1>6. CASE watcher.goal \notin RunGoals
    <2>1. project' = Planned(project, PlannedState, watcher.dirty)
      BY <1>6 DEF Settle, RunGoals
    <2> QED
      BY <1>0, <1>6, <2>1, EndedFields DEF RunGoals
  <1> QED
    BY <1>1, <1>2, <1>3, <1>4, <1>5, <1>6 DEF RunGoals

\* A run that ends, or is given up because openspec fails.
LEMMA EndRun ==
  ASSUME TypeInv, RunInv, RunAssumption, Leave \/ RunFails \/ Close \/ Settle
  PROVE  RunInv'
  <1>0. watcher \in Watchers /\ project \in Projects
    BY DEF TypeInv, TypeOK
  <1>1. watcher.pc # "idle" /\ manager.pc = "up"
    BY DEF RunInv, ManagerAlone, Leave, RunFails, Close, Settle
  <1>2. InRun => HasExec(project) /\ OnRecord(watcher)
    BY DEF RunInv, RunOnRecord
  <1>3. CASE Leave
    <2>1. project.exec.state # "running"
      BY <1>1, <1>3 DEF Leave, RunInv, RunAttended, InRun
    <2> QED
      BY <1>3, <2>1, RunGivesUp DEF Leave
  <1>4. CASE RunFails
    <2>1. InRun /\ UNCHANGED <<project, known, manager, client>>
          /\ watcher.pc \in {"read", "synced", "finish"}
      BY <1>4 DEF RunFails, InRun
    <2>2. project.change /\ project.status # "done"
      BY <1>2, <2>1 DEF RunInv, ExecShown, Shown
    <2>3. PICK f \in {"acp", "other"} :
             watcher' = [watcher EXCEPT !.pc = "close", !.goal = "block",
                                        !.exec = project.exec, !.failure = f]
      BY <1>1, <1>4, <2>2 DEF RunFails
    <2>4. /\ watcher'.pc = "close" /\ watcher'.goal = "block" /\ watcher'.exec = project.exec
          /\ watcher'.action = watcher.action
      BY <1>0, <2>3 DEF Watchers
    <2>5. OnRecord(watcher')
      BY <1>2, <2>1, <2>4 DEF OnRecord, RunGoals
    <2> QED
      BY <2>1, <2>4, <2>5, RunMoves
  <1>5. CASE Close
    <2>1. /\ watcher.pc = "close" /\ UNCHANGED <<project, manager, client>>
          /\ known' = known \ {watcher.exec.sess}
          /\ watcher' = [watcher EXCEPT !.pc = "settle"]
      BY <1>5 DEF Close, CloseSession
    <2>2. /\ watcher'.pc = "settle" /\ watcher'.goal = watcher.goal
          /\ watcher'.action = watcher.action
      BY <1>0, <2>1 DEF Watchers
    <2>3. InRun /\ OnRecord(watcher')
      BY <1>2, <2>1, <2>2 DEF OnRecord, InRun
    <2>4. known' = {}
      BY <1>2, <2>1, <2>3 DEF RunInv, SessionsOnRecord, OnRecord
    <2> QED
      BY <2>1, <2>2, <2>3, <2>4, RunMoves
  <1>6. CASE Settle
    <2>1. /\ watcher.pc = "settle" /\ watcher' = IdleWatcher
          /\ UNCHANGED <<known, manager, client>>
      BY <1>6 DEF Settle
    <2>2. HasExec(project)
      BY <1>2, <2>1 DEF InRun
    <2>3. Rests(project')
      BY <1>0, <1>6, SettledRests
    <2> QED
      BY <2>1, <2>2, <2>3, RunSettles
  <1> QED
    BY <1>3, <1>4, <1>5, <1>6

\* A step of the watcher.
LEMMA WatcherRun ==
  ASSUME TypeInv, RunInv, RunAssumption, WatcherStep
  PROVE  RunInv'
  BY StartRun, ReadRun, TurnRun, AfterTurnRun, EndRun DEF WatcherStep

-----------------------------------------------------------------------------
(* Restarts of the gateway keep it.                                        *)

\* Adoption keeps the run, and makes the record show it.
LEMMA AdoptedFields ==
  ASSUME NEW p \in Projects, HasExec(p), p.change
  PROVE  Shown(Adopted(p)) /\ Adopted(p).exec = p.exec /\ Adopted(p).change
  BY DEF Adopted, Projects, Shown, HasExec

\* All that is left of a process that went down is the record, and a process
\* that starts has nothing but it.
LEMMA BootRun ==
  ASSUME ~NeverDown, watcher'.pc = "idle", known' = {},
         \A c \in Clients : client'[c].pc = "idle",
         manager'.pc \in {"up", "down", "adopting", "recovering"},
         manager'.pc = "adopting" => HasExec(project'),
         manager'.pc = "recovering" => NeedsStartupRecovery(project'),
         manager'.pc = "up" /\ project'.exec.state = "running" => timer',
         IF HasExec(project') THEN Shown(project') ELSE Rests(project')
  PROVE  RunInv'
  <1>1. ManagerAlone'
    BY DEF ManagerAlone, NeverDown
  <1>2. CommandsWait'
    BY DEF CommandsWait, StillHolds, Deciding
  <1>3. ExecShown' /\ WorkOnly' /\ RunOnRecord' /\ SessionsOnRecord' /\ RunAttended'
    BY DEF ExecShown, WorkOnly, NeverDown, RunOnRecord, InRun, SessionsOnRecord, RunAttended
  <1> QED
    BY <1>1, <1>2, <1>3 DEF RunInv

\* A process in which nothing happens yet.
Quiet == watcher.pc = "idle" /\ known = {} /\ \A c \in Clients : client[c].pc = "idle"

\* The start of the manager makes of any record of a change one that shows
\* its run, whatever the process before left there.
LEMMA BootUpdateRun ==
  ASSUME TypeInv, Quiet, ~NeverDown, BootUpdate, project.change,
         manager.pc = "adopting" => HasExec(project)
  PROVE  RunInv'
  <1>0. project \in Projects
    BY DEF TypeInv, TypeOK
  <1>1. /\ manager.pc \in {"adopting", "recovering"} /\ manager'.pc = "up"
        /\ UNCHANGED <<known, watcher, client>>
        /\ timer' = ShouldWatch(project')
    BY DEF BootUpdate, IdleManager
  <1>2. watcher'.pc = "idle" /\ known' = {} /\ \A c \in Clients : client'[c].pc = "idle"
    BY <1>1 DEF Quiet
  <1>3. CASE manager.pc = "adopting" /\ project' = Adopted(project)
    <2>1. Shown(project')
      BY <1>0, <1>3, AdoptedFields
    <2> QED
      BY <1>1, <1>2, <2>1, BootRun DEF Shown, ShouldWatch
  <1>4. CASE manager.pc = "recovering" /\ project' = Completed(project)
    <2>1. Rests(project')
      BY <1>0, <1>4, EndedFields
    <2>2. ~HasExec(project') /\ project'.exec.state # "running"
      BY <2>1 DEF Rests, HasExec, NoExec
    <2> QED
      BY <1>1, <1>2, <2>1, <2>2, BootRun
  <1>5. CASE /\ manager.pc = "recovering" /\ RoomForSession
             /\ project' = Recovered(project, Fresh)
    <2>1. /\ RecoveredAction(project) \in Actions /\ Fresh \in Sessions
          /\ project.exec.restarts \in 0..MaxRestart /\ 0 \in 0..Artifacts
      <3>1. project.exec \in Executions \cup {NoExec}
        BY <1>0, ProjectFields
      <3>2. project.exec.restarts \in 0..MaxRestart
        BY <3>1, MaxRestartAssumption DEF Executions, NoExec
      <3> QED
        BY <1>5, <3>2, FreshLemma, ArtifactsAssumption DEF RecoveredAction, Actions
    <2>2. Shown(project') /\ project'.exec.state = "armed"
      BY <1>0, <1>5, <2>1, QueuedFields DEF Recovered
    <2> QED
      BY <1>1, <1>2, <2>2, BootRun DEF Shown
  <1> QED
    BY <1>1, <1>3, <1>4, <1>5 DEF BootUpdate

\* The manager: timers, polls, crashes and starts.
LEMMA ManagerRun ==
  ASSUME TypeInv, RunInv, ManagerStep \/ Crash \/ TimerSwallowed \/ Poll
  PROVE  RunInv'
  <1>0. project \in Projects /\ TypeOK
    BY DEF TypeInv, TypeOK
  <1>a. \A pc : IdleManager(pc).pc = pc
    BY DEF IdleManager
  <1>b. IF HasExec(project) THEN Shown(project) ELSE Rests(project)
    BY DEF RunInv, ExecShown
  <1>c. manager.pc # "up" =>
          /\ ~NeverDown /\ watcher.pc = "idle" /\ known = {}
          /\ \A c \in Clients : client[c].pc = "idle"
    BY DEF RunInv, ManagerAlone
  <1>1. CASE HaltUpdate \/ HaltClose \/ ProcessExit
    BY <1>1 DEF HaltUpdate, HaltClose, ProcessExit, RunInv, ManagerAlone
  <1>2. CASE Crash
    <2>1. ~NeverDown
      BY <1>2 DEF Crash, NeverDown
    <2>2. /\ watcher'.pc = "idle" /\ known' = {} /\ manager'.pc = "down"
          /\ project' = project
          /\ \A c \in Clients : client'[c].pc = "idle"
      BY <1>2, <1>a DEF Crash, Down, IdleWatcher, IdleClient
    <2> QED
      BY <1>b, <2>1, <2>2, BootRun
  <1>3. CASE BootIdle
    <2>1. /\ manager.pc = "down" /\ manager'.pc = "up"
          /\ UNCHANGED <<project, known, watcher, client>>
      BY <1>3, <1>a DEF BootIdle
    <2>2. ~HasExec(project)
      BY <1>3, <1>b DEF BootIdle, NeedsStartupRecovery, Shown
    <2>3. project.exec.state # "running"
      BY <2>2 DEF HasExec, NoExec
    <2> QED
      BY <1>b, <1>c, <2>1, <2>3, BootRun
  <1>4. CASE BootAdopt
    <2>1. /\ manager.pc = "down" /\ manager'.pc = "adopting"
          /\ UNCHANGED <<project, known, watcher, client>>
      BY <1>4 DEF BootAdopt, IdleManager
    <2>2. HasExec(project)
      BY <1>4 DEF BootAdopt, HasExec, NoExec
    <2> QED
      BY <1>b, <1>c, <2>1, <2>2, BootRun
  <1>5. CASE BootRecover
    <2>1. /\ manager.pc = "down" /\ manager'.pc = "recovering"
          /\ UNCHANGED <<project, watcher, client>> /\ known' \subseteq known
          /\ NeedsStartupRecovery(project)
      BY <1>5 DEF BootRecover, IdleManager, CloseSession
    <2>2. known' = {}
      BY <1>c, <2>1
    <2> QED
      BY <1>b, <1>c, <2>1, <2>2, BootRun
  <1>6. CASE BootUpdate
    <2>1. manager.pc \in {"adopting", "recovering"}
      BY <1>6 DEF BootUpdate
    <2>2. /\ manager.pc = "adopting" => HasExec(project)
          /\ manager.pc = "recovering" => NeedsStartupRecovery(project)
      BY DEF RunInv, ManagerAlone
    <2>3. project.change
      BY <1>b, <2>1, <2>2 DEF NeedsStartupRecovery, Shown
    <2>4. Quiet /\ ~NeverDown
      BY <1>c, <2>1 DEF Quiet
    <2> QED
      BY <1>6, <2>2, <2>3, <2>4, BootUpdateRun
  <1>7. CASE Poll
    BY <1>7, RunFrame DEF Poll
  <1>8. CASE TimerSwallowed
    <2>1. watcher.pc # "idle" /\ UNCHANGED <<project, known, watcher, manager, client>>
      BY <1>8 DEF TimerSwallowed
    <2> QED
      BY <2>1 DEF RunInv, ManagerAlone, ExecShown, WorkOnly, RunOnRecord, OnRecord, InRun,
                  CommandsWait, StillHolds, SessionsOnRecord, RunAttended
  <1> QED
    BY <1>1, <1>2, <1>3, <1>4, <1>5, <1>6, <1>7, <1>8 DEF ManagerStep

\* Workers, and the agent of the chat, do not touch it.
LEMMA OthersRun ==
  ASSUME RunInv, PlannerWrites \/ (\E s \in Sessions : WorkerStep(s))
  PROVE  RunInv'
  <1>1. UNCHANGED <<project, known, watcher, manager, client, timer>>
    BY DEF PlannerWrites, WorkerStep, CompleteTask, GenerateArtifact, Report, WorkerExit
  <1> QED
    BY <1>1, RunFrame

-----------------------------------------------------------------------------
(* What a step does to the record.                                         *)

\* What a turn writes of the run: that it starts, or that it is queued again.
TurnOn ==
    /\ HasExec(project') /\ project'.change = project.change /\ project'.dirty = project.dirty
    /\ project'.exec.action = project.exec.action
    /\ \/ project.exec.state = "armed" /\ project'.exec.state = "running"
       \/ project.exec.state = "running" /\ project'.exec.state = "armed"

\* What a watcher does to the record: nothing, a turn, or the end of the run.
LEMMA WatcherKinds ==
  ASSUME TypeInv, RunInv, WatcherStep
  PROVE  \/ project' = project
         \/ HasExec(project) /\ TurnOn
         \/ HasExec(project) /\ Settle
  <1>0. project \in Projects /\ watcher \in Watchers
    BY DEF TypeInv, TypeOK
  <1>1. InRun => HasExec(project) /\ OnRecord(watcher)
    BY DEF RunInv, RunOnRecord
  <1>2. CASE SetRunning
    <2> DEFINE a == IF watcher.action = "plan" THEN watcher.exec.artifact ELSE 0
               q == Started(project, watcher.action, watcher.exec.sess, a)
    <2>1. project' = q /\ watcher.pc = "start"
      BY <1>2 DEF SetRunning
    <2>2. watcher.exec \in Executions /\ watcher.action \in Actions
      BY <1>0, <2>1 DEF TypeInv, RunPcs, Watchers
    <2>3. a \in 0..Artifacts /\ watcher.exec.sess \in Sessions
      BY <2>2, ArtifactsAssumption DEF Executions
    <2> HIDE DEF a
    <2>4. q \in Projects /\ q.exec \in Executions
      BY <1>0, <2>2, <2>3, StartedType
    <2>5. /\ q.change = project.change /\ q.exec.action = watcher.action
          /\ q.exec.state = "running" /\ q.dirty = project.dirty
      BY <1>0 DEF Started, Projects
    <2> HIDE DEF q
    <2>6. HasExec(project') /\ project.exec.state = "armed" /\ watcher.action = project.exec.action
      BY <1>1, <2>1, <2>4, HasExecLemma DEF InRun, OnRecord
    <2> QED
      BY <1>1, <2>1, <2>5, <2>6 DEF TurnOn, InRun
  <1>3. ASSUME NEW action \in Actions, NEW s \in Sessions, NEW n \in 0..MaxRestart,
               NEW a \in 0..Artifacts, project' = Queued(project, Armed(action, s, n, a)),
               action = project.exec.action, project.exec.state = "running"
        PROVE  TurnOn
    BY <1>0, <1>3, QueuedFields DEF TurnOn
  <1>4. CASE RestartUpdate
    <2> DEFINE a == IF watcher.exec.action = "plan" THEN watcher.exec.artifact ELSE 0
    <2>1. /\ project' = Queued(project, Armed(watcher.exec.action, Fresh, watcher.exec.restarts, a))
          /\ watcher.pc = "restarted" /\ RoomForSession
      BY <1>4 DEF RestartUpdate, Restarted
    <2>2. watcher.exec \in Executions /\ Fresh \in Sessions
      BY <2>1, FreshLemma DEF TypeInv, RunPcs
    <2>3. /\ watcher.exec.action \in Actions /\ watcher.exec.restarts \in 0..MaxRestart
          /\ a \in 0..Artifacts
      BY <2>2, ArtifactsAssumption DEF Executions
    <2> HIDE DEF a
    <2>4. /\ HasExec(project) /\ watcher.exec.action = project.exec.action
          /\ project.exec.state = "running"
      BY <1>1, <2>1 DEF OnRecord, InRun
    <2> QED
      BY <1>3, <2>1, <2>2, <2>3, <2>4
  <1>5. CASE Rearm
    <2> DEFINE a == IF watcher.action = "plan" THEN watcher.exec.artifact ELSE 0
    <2>0. watcher.pc = "rearm" /\ HasExec(project) /\ OnRecord(watcher)
      BY <1>1, <1>5 DEF Rearm, InRun
    <2>1. project' = Queued(project, Armed(watcher.action, project.exec.sess, 0, a))
      BY <1>5, <2>0 DEF Rearm, Rearmed
    <2>2. project.exec \in Executions
      BY <1>0, <2>0, HasExecLemma
    <2>3. /\ watcher.action \in Actions /\ project.exec.sess \in Sessions
          /\ 0 \in 0..MaxRestart /\ a \in 0..Artifacts
      BY <1>0, <2>2, WatcherFields, ArtifactsAssumption, MaxRestartAssumption DEF Executions
    <2> HIDE DEF a
    <2>4. watcher.action = project.exec.action /\ project.exec.state = "running"
      BY <2>0 DEF OnRecord
    <2> QED
      BY <1>3, <2>0, <2>1, <2>3, <2>4
  <1>6. CASE Settle
    BY <1>1, <1>6 DEF Settle, InRun
  <1>7. CASE /\ WatcherStep
             /\ ~SetRunning /\ ~RestartUpdate /\ ~Rearm /\ ~Settle
    BY <1>7 DEF WatcherStep, RunStart, Leave, RunFails, ReadApply, ReadStatus, ReadSynced, Spawn,
                CaptureResult, TurnEnds, WatchEnds, Resolve, RestartClose, Finish, Close
  <1> QED
    BY <1>2, <1>4, <1>5, <1>6, <1>7

\* The manager changes the record when it starts only.
LEMMA ManagerKinds ==
  ASSUME RunInv, ManagerStep
  PROVE  project' = project \/ (BootUpdate /\ ~NeverDown)
  BY DEF ManagerStep, HaltUpdate, HaltClose, ProcessExit, Down, BootIdle, BootAdopt, BootRecover,
         BootUpdate, RunInv, ManagerAlone

\* Other steps.
LEMMA OtherKinds ==
  /\ \A s \in Sessions : WorkerStep(s) => project' = project
  /\ \A c \in Clients : CommandBegin(c) => project' = project
  /\ TimerSwallowed \/ Poll \/ PlannerWrites \/ StopBegin \/ Crash => project' = project
  <1>1. \A s \in Sessions : WorkerStep(s) => project' = project
    BY DEF WorkerStep, CompleteTask, GenerateArtifact, Report, WorkerExit
  <1>2. \A c \in Clients : CommandBegin(c) => project' = project
    BY DEF CommandBegin, Begin, WorkBegin, ContinueBegin, PlanBegin, TurnEndBegin, NoteBegin,
           PauseBegin, CancelBegin, DiscardBegin, StatusBegin, ArchiveBegin, ProposeBegin
  <1>3. TimerSwallowed \/ Poll \/ PlannerWrites \/ StopBegin \/ Crash => project' = project
    BY DEF TimerSwallowed, Poll, PlannerWrites, StopBegin, Crash, Down
  <1> QED
    BY <1>1, <1>2, <1>3

\* The start of the manager adopts a run, completes it or queues it again; it
\* queues one where there was none for a project blocked by an ACP failure.
LEMMA BootKinds ==
  ASSUME TypeInv, RunInv, BootUpdate
  PROVE  /\ HasExec(project) /\ ~HasExec(project') => manager.pc = "recovering" /\ manager.done
         /\ ~HasExec(project) => manager.pc = "recovering" /\ IsRecoverableBlocked(project)
  <1>0. project \in Projects
    BY DEF TypeInv, TypeOK
  <1>1. /\ manager.pc = "adopting" => HasExec(project)
        /\ manager.pc = "recovering" => NeedsStartupRecovery(project)
    BY DEF RunInv, ManagerAlone
  <1>2. ~HasExec(project) => manager.pc = "recovering" /\ IsRecoverableBlocked(project)
    BY <1>1 DEF BootUpdate, NeedsStartupRecovery, RunInv, ExecShown, Rests
  <1>3. manager.pc = "adopting" => HasExec(project')
    <2>1. manager.pc = "adopting" => project' = Adopted(project) /\ project.change
      BY <1>1 DEF BootUpdate, RunInv, ExecShown, Shown
    <2> QED
      BY <1>0, <1>1, <2>1, AdoptedFields DEF HasExec
  <1>4. manager.pc = "recovering" /\ ~manager.done => HasExec(project')
    <2> SUFFICES ASSUME manager.pc = "recovering", ~manager.done PROVE HasExec(project')
      OBVIOUS
    <2>1. RoomForSession /\ project' = Recovered(project, Fresh)
      BY DEF BootUpdate, RecoveryComplete
    <2>2. project.exec \in Executions \cup {NoExec}
      BY <1>0, ProjectFields
    <2>3. project.exec.restarts \in 0..MaxRestart
      BY <2>2, MaxRestartAssumption DEF Executions, NoExec
    <2>4. /\ RecoveredAction(project) \in Actions /\ Fresh \in Sessions /\ 0 \in 0..Artifacts
      BY <2>1, FreshLemma, ArtifactsAssumption DEF RecoveredAction, Actions
    <2> QED
      BY <1>0, <2>1, <2>3, <2>4, QueuedFields DEF Recovered
  <1> QED
    BY <1>2, <1>3, <1>4 DEF BootUpdate

\* What the start of the manager does to the journal.
LEMMA BootNotes ==
  ASSUME TypeInv, BootUpdate
  PROVE  project'.dirty = project.dirty
  <1>0. project \in Projects
    BY DEF TypeInv, TypeOK
  <1>1. CASE project' = Adopted(project)
    BY <1>0, <1>1 DEF Adopted, Projects
  <1>2. CASE project' = Completed(project)
    BY <1>0, <1>2, EndedFields
  <1>3. CASE project' = Recovered(project, Fresh)
    BY <1>0, <1>3 DEF Recovered, Queued, Projects
  <1> QED
    BY <1>1, <1>2, <1>3 DEF BootUpdate

\* The notes that a planning run is for.
LEMMA UnsyncedInit == Init => PlanUnsynced
  <1> SUFFICES ASSUME Init PROVE PlanUnsynced
    OBVIOUS
  <1>1. ~HasExec(project)
    BY InitRests DEF Rests
  <1>2. PlanningFailed(Blank, TRUE).dirty
    BY DEF PlanningFailed, Settled, Blank
  <1>3. Blank.status # "blocked" /\ [Blank EXCEPT !.phase = "tasks"].status # "blocked"
    BY DEF Blank
  <1> QED
    BY <1>1, <1>2, <1>3 DEF Init, PlanUnsynced

\* A start of the manager that plans again does so for those notes.
LEMMA BootUnsynced ==
  ASSUME TypeInv, RunInv, PlanUnsynced, BootUpdate
  PROVE  PlanUnsynced'
  <1>0. project \in Projects
    BY DEF TypeInv, TypeOK
  <1>1. /\ manager.pc = "adopting" => HasExec(project)
        /\ manager.pc = "recovering" => NeedsStartupRecovery(project)
    BY DEF RunInv, ManagerAlone
  <1>2. project'.dirty = project.dirty
    BY BootNotes
  <1>3. CASE manager.pc = "adopting" /\ project' = Adopted(project)
    <2>1. HasExec(project) /\ project.change
      BY <1>1, <1>3 DEF RunInv, ExecShown, Shown
    <2>2. Shown(project') /\ project'.exec = project.exec
      BY <1>0, <1>3, <2>1, AdoptedFields
    <2> QED
      BY <1>2, <2>1, <2>2 DEF PlanUnsynced, Shown
  <1>4. CASE project' = Completed(project)
    <2>1. ~HasExec(project') /\ project'.status = "done"
      BY <1>0, <1>4, EndedFields DEF Rests
    <2> QED
      BY <2>1 DEF PlanUnsynced
  <1>5. CASE manager.pc = "recovering" /\ RoomForSession /\ project' = Recovered(project, Fresh)
    <2>1. project.change
      BY <1>1, <1>5 DEF NeedsStartupRecovery
    <2>2. project.exec \in Executions \cup {NoExec}
      BY <1>0, ProjectFields
    <2>3. project.exec.restarts \in 0..MaxRestart
      BY <2>2, MaxRestartAssumption DEF Executions, NoExec
    <2>4. /\ RecoveredAction(project) \in Actions /\ Fresh \in Sessions /\ 0 \in 0..Artifacts
      BY <1>5, FreshLemma, ArtifactsAssumption DEF RecoveredAction, Actions
    <2>5. Shown(project') /\ project'.exec.action = RecoveredAction(project)
      BY <1>0, <1>5, <2>1, <2>3, <2>4, QueuedFields DEF Recovered
    <2>6. RecoveredAction(project) = "plan" =>
            \/ HasExec(project) /\ project.exec.action = "plan"
            \/ project.status = "blocked" /\ project.phase = "planning_sync"
      BY <1>1, <1>5 DEF RecoveredAction, RunInv, ExecShown, Shown, Rests, NeedsStartupRecovery,
                        IsRecoverableBlocked
    <2> QED
      BY <1>2, <2>1, <2>5, <2>6 DEF PlanUnsynced, Shown
  <1> QED
    BY <1>3, <1>4, <1>5 DEF BootUpdate

\* Nobody cleans the journal of a run that plans but the end of that run.
LEMMA UnsyncedStep ==
  ASSUME TypeInv, RunInv, PlanUnsynced, RunAssumption, [Next]_vars, RunInv'
  PROVE  PlanUnsynced'
  <1>0. project \in Projects
    BY DEF TypeInv, TypeOK
  <1>1. CASE project' = project
    BY <1>1 DEF PlanUnsynced, HasExec
  <1>2. ASSUME NEW c \in Clients, CommandStep(c), ~NeverDown PROVE PlanUnsynced'
    <2>1. client[c].pc # "planend"
      BY <1>2 DEF RunAssumption, RunInv, CommandsWait, StillHolds
    <2>2. KeepsNotes(c) /\ BlocksNoPlanning(c)
      BY <1>2, CommandKinds
    <2>3. CASE SameRun(project, project')
      BY <2>1, <2>2, <2>3 DEF KeepsNotes, SameRun, Rests, HasExec, PlanUnsynced
    <2>4. CASE ~SameRun(project, project') /\ Rests(project')
      BY <2>1, <2>2, <2>4 DEF BlocksNoPlanning, Rests, PlanUnsynced
    <2>5. CASE QueuesWork(project, project')
      BY <2>5 DEF QueuesWork, Shown, PlanUnsynced
    <2> QED
      BY <1>2, <2>3, <2>4, <2>5, CommandKinds DEF LeavesOrSettles
  <1>3. CASE WatcherStep
    <2>1. HasExec(project) =>
            /\ project.change
            /\ StoppedPhase(project) = "planning_sync" => project.exec.action = "plan"
      BY DEF RunInv, ExecShown, Shown, StoppedPhase
    <2>2. CASE HasExec(project) /\ TurnOn
      <3>1. project'.status # "blocked"
        BY <2>2 DEF TurnOn, RunInv, ExecShown, Shown
      <3> QED
        BY <2>1, <2>2, <3>1 DEF TurnOn, PlanUnsynced
    <2>3. CASE HasExec(project) /\ Settle
      BY <2>1, <2>3, SettledRests DEF Rests, PlanUnsynced
    <2> QED
      BY <1>1, <1>3, <2>2, <2>3, WatcherKinds
  <1>4. CASE ManagerStep
    BY <1>1, <1>4, ManagerKinds, BootUnsynced
  <1>5. UNCHANGED vars => project' = project
    BY DEF vars
  <1>6. NeverDown => PlanUnsynced'
    BY DEF PlanUnsynced
  <1> QED
    BY <1>1, <1>2, <1>3, <1>4, <1>5, <1>6, OtherKinds DEF Next

-----------------------------------------------------------------------------
(* All steps together.                                                     *)

\* The counter of stops.
LEMMA StopsCounted ==
  ASSUME TypeInv, [Next]_vars
  PROVE  /\ StopBegin => downs'.stops = downs.stops + 1 /\ "stop" \in DownKinds
         /\ ~StopBegin => downs'.stops = downs.stops
         /\ downs.stops \in Nat
  <1>1. downs \in [stops : 0..MaxDowns, crashes : 0..MaxDowns]
    BY DEF TypeInv, TypeOK
  <1>2. StopBegin => downs'.stops = downs.stops + 1 /\ "stop" \in DownKinds
    BY <1>1 DEF StopBegin
  <1>3. Crash => downs'.stops = downs.stops
    BY <1>1 DEF Crash
  <1>4. StopBegin \/ Crash \/ downs' = downs
    <2>1. ASSUME NEW s \in Sessions, WorkerStep(s) PROVE downs' = downs
      BY <2>1 DEF WorkerStep, CompleteTask, GenerateArtifact, Report, WorkerExit
    <2>2. ASSUME NEW c \in Clients, CommandBegin(c) PROVE downs' = downs
      BY <2>2 DEF CommandBegin, Begin, WorkBegin, ContinueBegin, PlanBegin, TurnEndBegin,
                  NoteBegin, PauseBegin, CancelBegin, DiscardBegin, StatusBegin,
                  ArchiveBegin, ProposeBegin
    <2>3. ASSUME NEW c \in Clients, CommandStep(c) PROVE downs' = downs
      BY <2>3 DEF CommandStep, WorkArm, ContinuePlanning, PlanStart, TurnEndUpdate, NoteUpdate,
                  Request, InterruptAndWake, DiscardFiles, DiscardUpdate, StatusUpdate,
                  ArchiveUpdate, ProposeUpdate, CommandFails
    <2>4. WatcherStep => downs' = downs
      BY DEF WatcherStep, RunStart, Leave, RunFails, ReadApply, ReadStatus, ReadSynced, SetRunning,
             Spawn, CaptureResult, TurnEnds, WatchEnds, Resolve, RestartClose, RestartUpdate,
             Finish, Rearm, Close, Settle
    <2>5. ManagerStep => downs' = downs
      BY
      DEF ManagerStep, HaltUpdate, HaltClose, ProcessExit, BootIdle, BootAdopt, BootRecover,
          BootUpdate
    <2>6. TimerSwallowed \/ Poll \/ PlannerWrites => downs' = downs
      BY DEF TimerSwallowed, Poll, PlannerWrites
    <2> QED
      BY <2>1, <2>2, <2>3, <2>4, <2>5, <2>6 DEF Next, vars
  <1> QED
    BY <1>1, <1>2, <1>3, <1>4

\* Every step keeps it, until the gateway is stopped.
LEMMA RunStep ==
  RunAssumption /\ TypeInv /\ RunInvUnlessStopped /\ [Next]_vars => RunInvUnlessStopped'
  <1> SUFFICES ASSUME RunAssumption, TypeInv, RunInvUnlessStopped, [Next]_vars, downs'.stops = 0
               PROVE  RunInv' /\ PlanUnsynced'
    BY DEF RunInvUnlessStopped
  <1>1. downs.stops = 0 /\ ~StopBegin
    BY StopsCounted
  <1>2. RunInv /\ PlanUnsynced /\ OneCommand
    BY <1>1 DEF RunInvUnlessStopped, RunAssumption
  <1>3. ASSUME NEW c \in Clients, CommandBegin(c) \/ CommandStep(c) PROVE RunInv'
    BY <1>2, <1>3, BeginRun, CommandRun
  <1>4. WatcherStep => RunInv'
    BY <1>2, WatcherRun
  <1>5. ManagerStep \/ Crash \/ TimerSwallowed \/ Poll => RunInv'
    BY <1>2, ManagerRun
  <1>6. PlannerWrites \/ (\E s \in Sessions : WorkerStep(s)) => RunInv'
    BY <1>2, OthersRun
  <1>7. UNCHANGED vars => RunInv'
    BY <1>2, RunFrame DEF vars
  <1>8. RunInv'
    BY <1>1, <1>3, <1>4, <1>5, <1>6, <1>7 DEF Next
  <1> QED
    BY <1>2, <1>8, UnsyncedStep

-----------------------------------------------------------------------------
(* What a stop leaves behind.  stop() does not wait for the watcher: until  *)
(* the process ends the manager, the watcher and the chat write the record  *)
(* each after its own reading of it, and nothing above need hold.  The next *)
(* start puts the record of a change right; a record that lost its change   *)
(* to cs-cancel or cs-archive while its watcher went on is out of reach.    *)

\* cs-status may settle a project beside a planning run that a stop left
\* without notes.
StopAssumption ==
    RunAssumption /\ ("stop" \in DownKinds => "status" \notin Commands)

\* A run of a change that is gone: no command, watcher, poll or start is
\* about it.
Abandoned ==
    ~project.change /\ HasExec(project) /\ ~timer /\ Quiet

RestartInv ==
    /\ NeverDown => manager.pc = "up"
    /\ "stop" \notin DownKinds => downs.stops = 0
    /\ manager.pc = "up" => RunInv \/ Abandoned
    /\ manager.pc \in {"down", "adopting", "recovering"} => Quiet
    /\ manager.pc \in {"adopting", "recovering"} => project.change
    /\ manager.pc = "adopting" => HasExec(project)
    /\ manager.pc = "recovering" => NeedsStartupRecovery(project)

\* Only the manager, a stop and a crash change the state of the gateway.
LEMMA ManagerMoves ==
  ASSUME [Next]_vars
  PROVE  manager' = manager \/ ManagerStep \/ StopBegin \/ Crash
  <1>1. ASSUME NEW s \in Sessions, WorkerStep(s) PROVE manager' = manager
    BY <1>1 DEF WorkerStep, CompleteTask, GenerateArtifact, Report, WorkerExit
  <1>2. ASSUME NEW c \in Clients, CommandBegin(c) PROVE manager' = manager
    BY <1>2 DEF CommandBegin, Begin, WorkBegin, ContinueBegin, PlanBegin, TurnEndBegin,
                NoteBegin, PauseBegin, CancelBegin, DiscardBegin, StatusBegin,
                ArchiveBegin, ProposeBegin
  <1>3. ASSUME NEW c \in Clients, CommandStep(c) PROVE manager' = manager
    BY <1>3 DEF CommandStep, WorkArm, ContinuePlanning, PlanStart, TurnEndUpdate, NoteUpdate,
                Request, InterruptAndWake, DiscardFiles, DiscardUpdate, StatusUpdate,
                ArchiveUpdate, ProposeUpdate, CommandFails
  <1>4. WatcherStep => manager' = manager
    BY DEF WatcherStep, RunStart, Leave, RunFails, ReadApply, ReadStatus, ReadSynced, SetRunning,
           Spawn, CaptureResult, TurnEnds, WatchEnds, Resolve, RestartClose, RestartUpdate,
           Finish, Rearm, Close, Settle
  <1>5. TimerSwallowed \/ Poll \/ PlannerWrites => manager' = manager
    BY DEF TimerSwallowed, Poll, PlannerWrites
  <1> QED
    BY <1>1, <1>2, <1>3, <1>4, <1>5 DEF Next, vars

\* In a process in which nothing happens, workers, timers and polls aside,
\* somebody has to begin.
LEMMA QuietSteps ==
  ASSUME Quiet, [Next]_vars, manager' = manager, ~ManagerStep, ~StopBegin, ~Crash
  PROVE  \/ UNCHANGED <<project, known, watcher, client, timer>>
         \/ \E c \in Clients : CommandBegin(c)
         \/ RunStart \/ Poll
  <1>1. ASSUME NEW s \in Sessions, WorkerStep(s)
        PROVE  UNCHANGED <<project, known, watcher, client, timer>>
    BY <1>1 DEF WorkerStep, CompleteTask, GenerateArtifact, Report, WorkerExit
  <1>2. ASSUME NEW c \in Clients PROVE ~CommandStep(c)
    <2>1. client[c].pc = "idle"
      BY DEF Quiet
    <2> QED
      BY <2>1 DEF CommandStep, At, WorkArm, ContinuePlanning, PlanStart, TurnEndUpdate, NoteUpdate,
                  Request, InterruptAndWake, DiscardFiles, DiscardUpdate, StatusUpdate,
                  ArchiveUpdate, ProposeUpdate, CommandFails
  <1>3. WatcherStep => RunStart
    BY DEF Quiet, WatcherStep, Leave, RunFails, ReadApply, ReadStatus, ReadSynced, SetRunning,
           Spawn, CaptureResult, TurnEnds, WatchEnds, Resolve, RestartClose, RestartUpdate,
           Finish, Rearm, Close, Settle
  <1>4. ~TimerSwallowed /\ (PlannerWrites => UNCHANGED <<project, known, watcher, client, timer>>)
    BY DEF Quiet, TimerSwallowed, PlannerWrites
  <1> QED
    BY <1>1, <1>2, <1>3, <1>4 DEF Next, vars

\* What is out of reach stays so until the gateway goes down.
LEMMA AbandonedStays ==
  ASSUME Abandoned, [Next]_vars, manager' = manager, ~ManagerStep, ~StopBegin, ~Crash
  PROVE  Abandoned'
  <1>1. ~RunStart /\ ~Poll
    BY DEF Abandoned, RunStart, Poll, PollDue, ShouldWatch
  <1>2. ASSUME NEW c \in Clients PROVE ~CommandBegin(c)
    BY DEF Abandoned, CommandBegin, WorkBegin, ContinueBegin, PlanBegin, TurnEndBegin, CanQueue,
           NoteBegin, ShouldCapturePlanningMessage, PauseBegin, CancelBegin, DiscardBegin,
           StatusBegin, ArchiveBegin, ProposeBegin, HasBlockingExecution
  <1>3. UNCHANGED <<project, known, watcher, client, timer>>
    BY <1>1, <1>2, QuietSteps DEF Abandoned
  <1> QED
    BY <1>3 DEF Abandoned, Quiet

\* As long as the runs are in order, so is all that a restart relies on.
LEMMA RunRestarts ==
  ASSUME RunInv, ("stop" \notin DownKinds => downs.stops = 0)
  PROVE  RestartInv
  <1>1. manager.pc \in {"adopting", "recovering"} => project.change
    BY DEF RunInv, ManagerAlone, ExecShown, Shown, NeedsStartupRecovery
  <1> QED
    BY <1>1 DEF RestartInv, RunInv, ManagerAlone, Quiet

\* A start of the gateway.
LEMMA BootRestarts ==
  ASSUME TypeInv, RestartInv, BootIdle \/ BootAdopt \/ BootRecover \/ BootUpdate
  PROVE  RestartInv'
  <1>a. \A pc : IdleManager(pc).pc = pc
    BY DEF IdleManager
  <1>0. /\ ~NeverDown /\ Quiet
        /\ ("stop" \notin DownKinds => downs'.stops = 0)
    <2>1. manager.pc \in {"down", "adopting", "recovering"} /\ downs' = downs
      BY DEF BootIdle, BootAdopt, BootRecover, BootUpdate
    <2> QED
      BY <2>1 DEF RestartInv
  <1>1. CASE BootIdle
    <2>1. /\ manager'.pc = "up" /\ UNCHANGED <<project, known, watcher, client>>
          /\ timer' = ShouldWatch(project) /\ ~NeedsStartupRecovery(project)
      BY <1>1, <1>a DEF BootIdle
    <2>2. Quiet'
      BY <1>0, <2>1 DEF Quiet
    <2>3. CASE project.change \/ ~HasExec(project)
      <3>1. ~HasExec(project) /\ Rests(project)
        BY <2>1, <2>3 DEF NeedsStartupRecovery, Rests
      <3>2. project.exec.state # "running"
        BY <3>1 DEF HasExec, NoExec
      <3>3. RunInv'
        BY <1>0, <2>1, <2>2, <3>1, <3>2, BootRun DEF Quiet
      <3> QED
        BY <1>0, <2>1, <3>3 DEF RestartInv
    <2>4. CASE ~project.change /\ HasExec(project)
      <3>1. Abandoned'
        BY <2>1, <2>2, <2>4 DEF Abandoned, ShouldWatch, HasExec
      <3> QED
        BY <1>0, <2>1, <3>1 DEF RestartInv
    <2> QED
      BY <2>3, <2>4
  <1>2. CASE BootAdopt
    <2>1. /\ manager'.pc = "adopting" /\ UNCHANGED <<project, known, watcher, client>>
          /\ NeedsStartupRecovery(project) /\ project.exec.state = "running"
      BY <1>2 DEF BootAdopt, IdleManager
    <2>2. HasExec(project) /\ project.change /\ Quiet'
      BY <1>0, <2>1 DEF HasExec, NoExec, NeedsStartupRecovery, Quiet
    <2> QED
      BY <1>0, <2>1, <2>2 DEF RestartInv, HasExec
  <1>3. CASE BootRecover
    <2>1. /\ manager'.pc = "recovering" /\ UNCHANGED <<project, watcher, client>>
          /\ known' \subseteq known /\ NeedsStartupRecovery(project)
      BY <1>3 DEF BootRecover, IdleManager, CloseSession
    <2>2. project.change /\ Quiet'
      BY <1>0, <2>1 DEF NeedsStartupRecovery, Quiet
    <2> QED
      BY <1>0, <2>1, <2>2 DEF RestartInv
  <1>4. CASE BootUpdate
    <2>1. manager'.pc = "up" /\ manager.pc \in {"adopting", "recovering"}
      BY <1>4, <1>a DEF BootUpdate
    <2>2. RunInv'
      BY <1>0, <1>4, <2>1, BootUpdateRun DEF RestartInv
    <2> QED
      BY <1>0, <2>1, <2>2 DEF RestartInv
  <1> QED
    BY <1>1, <1>2, <1>3, <1>4

\* Every step, also while the gateway stops.
LEMMA RestartStep ==
  StopAssumption /\ TypeInv /\ RunInvUnlessStopped /\ RestartInv /\ [Next]_vars => RestartInv'
  <1> SUFFICES ASSUME StopAssumption, TypeInv, RunInvUnlessStopped, RestartInv, [Next]_vars
               PROVE  RestartInv'
    OBVIOUS
  <1>a. \A pc : IdleManager(pc).pc = pc
    BY DEF IdleManager
  <1>0. "stop" \notin DownKinds => downs'.stops = 0
    BY StopsCounted DEF RestartInv
  <1>1. CASE StopBegin
    <2>1. manager.pc = "up" /\ "stop" \in DownKinds
      BY <1>1 DEF StopBegin
    <2>2. manager'.pc = "halting"
      BY <1>1, <1>a DEF StopBegin
    <2> QED
      BY <1>0, <2>1, <2>2 DEF RestartInv, NeverDown
  <1>2. CASE Crash \/ ProcessExit
    <2>1. /\ Down /\ ~NeverDown
      BY <1>2 DEF Crash, ProcessExit, NeverDown, RestartInv
    <2>2. manager'.pc = "down" /\ Quiet'
      BY <1>a, <2>1 DEF Down, Quiet, IdleWatcher, IdleClient
    <2> QED
      BY <1>0, <2>1, <2>2 DEF RestartInv
  <1>3. CASE BootIdle \/ BootAdopt \/ BootRecover \/ BootUpdate
    BY <1>3, BootRestarts
  <1>4. CASE HaltUpdate \/ HaltClose
    <2>1. manager.pc # "up" /\ manager'.pc \in {"closing", "stopped"}
      BY <1>4, <1>a DEF HaltUpdate, HaltClose, TypeInv, TypeOK, Managers
    <2> QED
      BY <1>0, <2>1 DEF RestartInv
  <1>5. ASSUME ~StopBegin, ~Crash, ~ManagerStep PROVE RestartInv'
    <2>1. manager' = manager
      BY <1>5, ManagerMoves
    <2>2. CASE manager.pc = "up" /\ RunInv
      <3>1. OneCommand /\ RunAssumption
        BY DEF StopAssumption, RunAssumption
      <3>2. "status" \in Commands => PlanUnsynced
        BY DEF StopAssumption, RestartInv, RunInvUnlessStopped
      <3>3. ASSUME NEW c \in Clients, CommandBegin(c) \/ CommandStep(c) PROVE RunInv'
        BY <2>2, <3>1, <3>2, <3>3, BeginRun, CommandRun
      <3>4. WatcherStep => RunInv'
        BY <2>2, <3>1, WatcherRun
      <3>5. TimerSwallowed \/ Poll => RunInv'
        BY <2>2, ManagerRun
      <3>6. PlannerWrites \/ (\E s \in Sessions : WorkerStep(s)) => RunInv'
        BY <2>2, OthersRun
      <3>7. UNCHANGED vars => RunInv'
        BY <2>2, RunFrame DEF vars
      <3>8. RunInv'
        BY <1>5, <3>3, <3>4, <3>5, <3>6, <3>7 DEF Next
      <3> QED
        BY <1>0, <2>1, <2>2, <3>8 DEF RestartInv
    <2>3. CASE manager.pc = "up" /\ Abandoned
      <3>1. Abandoned'
        BY <1>5, <2>1, <2>3, AbandonedStays
      <3> QED
        BY <1>0, <2>1, <2>3, <3>1 DEF RestartInv
    <2>4. CASE manager.pc \in {"down", "adopting", "recovering"}
      <3>1. Quiet
        BY <2>4 DEF RestartInv
      <3>2. ~RunStart /\ ~Poll /\ \A c \in Clients : ~CommandBegin(c)
        BY <2>4 DEF RunStart, Poll, CommandBegin, Begin, Serving, WorkBegin, ContinueBegin, PlanBegin,
                    TurnEndBegin, NoteBegin, PauseBegin, CancelBegin, DiscardBegin, StatusBegin,
                    ArchiveBegin, ProposeBegin
      <3>3. UNCHANGED <<project, known, watcher, client>>
        BY <1>5, <2>1, <3>1, <3>2, QuietSteps
      <3> QED
        BY <1>0, <2>1, <2>4, <3>1, <3>3 DEF RestartInv, Quiet, HasExec, NeedsStartupRecovery,
                                            IsRecoverableBlocked
    <2>5. CASE manager.pc \in {"halting", "closing", "stopped"}
      BY <1>0, <2>1, <2>5 DEF RestartInv
    <2>6. manager.pc \in ManagerPcs
      BY DEF TypeInv, TypeOK, Managers
    <2> QED
      BY <2>2, <2>3, <2>4, <2>5, <2>6 DEF RestartInv, ManagerPcs
  <1> QED
    BY <1>1, <1>2, <1>3, <1>4, <1>5 DEF ManagerStep

-----------------------------------------------------------------------------
(* What a run promises.                                                    *)

\* Of every behaviour of the instances the assumption admits, the types and
\* the invariant hold.
THEOREM RunsOnRecord ==
  ASSUME RunAssumption
  PROVE  Spec => [](TypeInv /\ RunInvUnlessStopped)
  <1>1. Init => TypeInv /\ RunInvUnlessStopped
    BY TypeInit, RunInit, UnsyncedInit DEF RunInvUnlessStopped
  <1>2. TypeInv /\ RunInvUnlessStopped /\ [Next]_vars => (TypeInv /\ RunInvUnlessStopped)'
    BY TypeStep, RunStep
  <1> QED
    BY <1>1, <1>2, PTL DEF Spec

\* However often the gateway is stopped and crashes: whenever it is up again,
\* everything that RunInv says of the record, the watcher, the sessions and
\* the commands holds, or the record is one that has lost its change.
THEOREM StopsAreMended ==
  ASSUME StopAssumption
  PROVE  Spec => [](TypeInv /\ RunInvUnlessStopped /\ RestartInv)
  <1>0. RunAssumption
    BY DEF StopAssumption
  <1>1. Init => TypeInv /\ RunInvUnlessStopped /\ RestartInv
    <2>1. Init => downs.stops = 0
      BY DEF Init
    <2> QED
      BY <2>1, TypeInit, RunInit, UnsyncedInit, RunRestarts DEF RunInvUnlessStopped
  <1>2. TypeInv /\ RunInvUnlessStopped /\ RestartInv /\ [Next]_vars =>
          (TypeInv /\ RunInvUnlessStopped /\ RestartInv)'
    BY <1>0, TypeStep, RunStep, RestartStep
  <1> QED
    BY <1>1, <1>2, PTL DEF Spec

\* In order: without a stop so far, or up again.
LEMMA OrderFacts ==
  ASSUME RunInvUnlessStopped, RestartInv, InOrder
  PROVE  RunInv \/ Abandoned
  BY DEF RunInvUnlessStopped, RestartInv, InOrder

\* The record of a run shows it, through turns, requests, stops, crashes and
\* recoveries: the chat is never told of a run that is none.
THEOREM StatusOfRuns ==
  ASSUME StopAssumption
  PROVE  Spec => []ExecMatchesStatus
  <1>1. RunInvUnlessStopped /\ RestartInv => ExecMatchesStatus
    <2> SUFFICES ASSUME RunInvUnlessStopped, RestartInv, InOrder, ShouldWatch(project)
                 PROVE  Shown(project)
      BY DEF ExecMatchesStatus, Shown
    <2> QED
      BY OrderFacts DEF ShouldWatch, Abandoned, RunInv, ExecShown
  <1> QED
    BY <1>1, StopsAreMended, PTL

\* As long as the gateway was not stopped, a change that is cancelled or
\* archived takes its run with it.
THEOREM CancelEndsRun ==
  ASSUME RunAssumption
  PROVE  Spec => [](downs.stops = 0 => CancelStopsExecution)
  <1>1. RunInvUnlessStopped => (downs.stops = 0 => CancelStopsExecution)
    BY DEF RunInvUnlessStopped, RunInv, ExecShown, Shown, CancelStopsExecution
  <1> QED
    BY <1>1, RunsOnRecord, PTL

\* A change that runs has a watcher or a timer, after crashes and after stops
\* during which the manager, the watcher and the chat wrote its record each
\* on its own.
THEOREM RunningRunsAttended ==
  ASSUME StopAssumption
  PROVE  Spec => []RunningIsAttended
  <1>1. RestartInv => RunningIsAttended
    BY DEF RestartInv, Abandoned, RunInv, RunAttended, RunningIsAttended, InRun
  <1> QED
    BY <1>1, StopsAreMended, PTL

\* A gateway that is up, or was not stopped yet, has no ACP session open for a
\* project without a run.
THEOREM NoSessionLeft ==
  ASSUME StopAssumption
  PROVE  Spec => [](InOrder => SessionsReleased)
  <1>1. RunInvUnlessStopped /\ RestartInv => (InOrder => SessionsReleased)
    BY OrderFacts DEF RunInv, Abandoned, SessionsOnRecord, SessionsReleased
  <1> QED
    BY <1>1, StopsAreMended, PTL

-----------------------------------------------------------------------------
(* How runs begin and end.                                                 *)

\* Nothing but cs-work, and the recovery of a project blocked by an ACP
\* failure, begins a run; nothing but its watcher, and a recovery that finds
\* no task left, ends one.
LEMMA RunsBeginAndEnd ==
  ASSUME TypeInv, RunInv, [Next]_vars
  PROVE  /\ ~HasExec(project) /\ HasExec(project') =>
               \/ \E c \in Clients : client[c].pc = "work" /\ client'[c].pc = "idle"
               \/ manager.pc = "recovering" /\ IsRecoverableBlocked(project)
         /\ HasExec(project) /\ ~HasExec(project') =>
               \/ watcher.pc = "settle"
               \/ manager.pc \in {"halting", "recovering"} /\ manager.done
  <1>1. CASE project' = project
    BY <1>1
  <1>2. ASSUME NEW c \in Clients, CommandStep(c)
        PROVE  /\ HasExec(project) => HasExec(project')
               /\ ~HasExec(project) /\ HasExec(project') => client[c].pc = "work" /\ client'[c].pc = "idle"
    <2>1. CASE LeavesOrSettles(c)
      BY <2>1 DEF LeavesOrSettles, SameRun, Rests, HasExec
    <2>2. CASE WorkArm(c) /\ QueuesWork(project, project')
      <3>1. client[c].pc = "work" /\ client'[c].pc = "idle"
        BY <2>2 DEF WorkArm, At, Done, IdleClient, TypeInv, TypeOK
      <3> QED
        BY <2>2, <3>1 DEF QueuesWork
    <2> QED
      BY <1>2, <2>1, <2>2, CommandKinds
  <1>3. CASE WatcherStep
    BY <1>3, WatcherKinds DEF TurnOn, Settle
  <1>4. CASE ManagerStep
    BY <1>1, <1>4, ManagerKinds, BootKinds
  <1>5. UNCHANGED vars => project' = project
    BY DEF vars
  <1> QED
    BY <1>1, <1>2, <1>3, <1>4, <1>5, OtherKinds DEF Next

\* Nothing happens to a run whose change is gone.
LEMMA OrderSteps ==
  ASSUME TypeInv, RunInvUnlessStopped, RestartInv, InOrder, [Next]_vars
  PROVE  /\ ~HasExec(project) /\ HasExec(project') =>
               \/ \E c \in Clients : client[c].pc = "work" /\ client'[c].pc = "idle"
               \/ manager.pc = "recovering" /\ IsRecoverableBlocked(project)
         /\ HasExec(project) /\ ~HasExec(project') =>
               \/ watcher.pc = "settle"
               \/ manager.pc \in {"halting", "recovering"} /\ manager.done
  <1>1. CASE RunInv
    BY <1>1, RunsBeginAndEnd
  <1>2. CASE Abandoned /\ manager.pc = "up"
    <2>1. HasExec(project) /\ ~ManagerStep
      BY <1>2 DEF Abandoned, ManagerStep, HaltUpdate, HaltClose, ProcessExit, BootIdle, BootAdopt,
                  BootRecover, BootUpdate
    <2>2. CASE StopBegin \/ Crash
      BY <2>1, <2>2, OtherKinds DEF HasExec
    <2>3. CASE ~StopBegin /\ ~Crash
      <3>1. manager' = manager
        BY <2>1, <2>3, ManagerMoves
      <3>2. Abandoned'
        BY <1>2, <2>1, <2>3, <3>1, AbandonedStays
      <3> QED
        BY <2>1, <3>2 DEF Abandoned
    <2> QED
      BY <2>2, <2>3
  <1> QED
    BY <1>1, <1>2 DEF RunInvUnlessStopped, RestartInv, InOrder

\* Whatever the watcher, its timers, restarts and late results, the requests
\* of the chat, stops, crashes and recoveries do: under a gateway that is up a
\* project that was paused, blocked, finished or cancelled is not run again
\* unless somebody asks for it.
THEOREM RunsAreAskedFor ==
  ASSUME StopAssumption
  PROVE  Spec => StartsOnCommand
  <1>1. TypeInv /\ RunInvUnlessStopped /\ RestartInv /\ [Next]_vars =>
          [~HasExec(project) /\ HasExec(project)' /\ InOrder =>
             \/ \E c \in Clients : client[c].pc = "work" /\ client'[c].pc = "idle"
             \/ manager.pc = "recovering" /\ IsRecoverableBlocked(project)]_vars
    BY OrderSteps
  <1> QED
    BY <1>1, StopsAreMended, PTL DEF Spec, StartsOnCommand

\* The commands never take a run off the record: a pause, a cancellation, an
\* archive or a new proposal leaves that to the watcher.
THEOREM RunsEndByWatcher ==
  ASSUME StopAssumption
  PROVE  Spec => EndsByWatcher
  <1>1. TypeInv /\ RunInvUnlessStopped /\ RestartInv /\ [Next]_vars =>
          [HasExec(project) /\ ~HasExec(project)' /\ InOrder =>
             \/ watcher.pc = "settle"
             \/ manager.pc \in {"halting", "recovering"} /\ manager.done]_vars
    BY OrderSteps
  <1> QED
    BY <1>1, StopsAreMended, PTL DEF Spec, EndsByWatcher

-----------------------------------------------------------------------------
(* A gateway that is not stopped: notes.                                   *)

NeverStopped == "stop" \notin DownKinds

\* Without stops the invariant holds of every state.
LEMMA NeverStoppedRuns ==
  ASSUME RunAssumption, NeverStopped
  PROVE  Spec => [](TypeInv /\ RunInv)
  <1>1. Init => downs.stops = 0
    BY DEF Init
  <1>2. TypeInv /\ downs.stops = 0 /\ [Next]_vars => (downs.stops = 0)'
    BY StopsCounted DEF NeverStopped
  <1>3. downs.stops = 0 /\ RunInvUnlessStopped => RunInv
    BY DEF RunInvUnlessStopped
  <1> QED
    BY <1>1, <1>2, <1>3, RunsOnRecord, PTL DEF Spec

\* A requirement written while a run is under way stays marked as not yet
\* planned through every turn, restart, pause, crash and recovery, and
\* whatever cs-status finds: the next planning will see it.
THEOREM NotesAreKept ==
  ASSUME RunAssumption, NeverStopped
  PROVE  Spec => NotesKept
  <1> DEFINE A == project.change /\ project.dirty /\ project'.change /\ ~project'.dirty =>
                     \/ watcher.pc = "settle" /\ watcher.action = "plan"
                     \/ \E c \in Clients : client[c].pc \in {"planend", "propose"}
  <1>1. ASSUME TypeInv, RunInv, [Next]_vars PROVE A
    <2>1. CASE project' = project
      BY <2>1
    <2>2. ASSUME NEW c \in Clients, CommandStep(c) PROVE A
      BY <1>1, <2>2, CommandKinds DEF KeepsNotes
    <2>3. CASE WatcherStep
      <3>1. CASE TurnOn
        BY <3>1 DEF TurnOn
      <3>2. CASE Settle
        <4>1. watcher.pc = "settle" /\ OnRecord(watcher)
          BY <1>1, <3>2 DEF Settle, RunInv, RunOnRecord, InRun
        <4> QED
          BY <1>1, <3>2, <4>1, SettledRests DEF OnRecord
      <3> QED
        BY <1>1, <2>1, <2>3, <3>1, <3>2, WatcherKinds
    <2>4. CASE ManagerStep
      <3>1. CASE BootUpdate
        BY <1>1, <3>1, BootNotes
      <3> QED
        BY <1>1, <2>1, <2>4, <3>1, ManagerKinds
    <2>5. UNCHANGED vars => project' = project
      BY DEF vars
    <2> QED
      BY <1>1, <2>1, <2>2, <2>3, <2>4, <2>5, OtherKinds DEF Next
  <1>2. TypeInv /\ RunInv /\ [Next]_vars => [A]_vars
    BY <1>1
  <1> QED
    BY <1>2, NeverStoppedRuns, PTL DEF Spec, NotesKept

-----------------------------------------------------------------------------
(* A gateway that stays up: workers and the change directory.              *)

UpAssumption == OneCommand /\ NeverDown

\* A gateway that stays up is one of those of RunsOnRecord and is not stopped.
LEMMA UpAssumes == UpAssumption => RunAssumption /\ NeverStopped
  BY DEF UpAssumption, RunAssumption, NeverDown, NeverStopped

\* Every worker was started by this process, to implement tasks.
WorkersKnown == \A s \in Sessions : Working(s) => s \in known /\ worker[s] = "work"

\* The invariant with the workers.
UpInv == TypeInv /\ RunInv /\ OwnWorkerAttended /\ WorkersKnown

\* A worker that works has its run on record, and the watcher waits for it.
LEMMA WorkingFacts ==
  ASSUME UpInv, NEW s \in Sessions, Working(s)
  PROVE  /\ HasExec(project) /\ project.change /\ project.exec.state = "running"
         /\ project.exec.sess = s /\ watcher.pc = "turn" /\ worker[s] = "work"
  <1>1. s \in known /\ worker[s] = "work"
    BY DEF UpInv, WorkersKnown
  <1>2. HasExec(project) /\ project.exec.sess = s
    BY <1>1 DEF UpInv, RunInv, SessionsOnRecord
  <1>3. watcher.pc = "turn"
    BY <1>1 DEF UpInv, OwnWorkerAttended
  <1>4. project.exec.state = "running"
    BY <1>3 DEF UpInv, RunInv, RunOnRecord, InRun, OnRecord
  <1>5. project.change
    BY <1>2 DEF UpInv, RunInv, ExecShown, Shown
  <1> QED
    BY <1>1, <1>2, <1>3, <1>4, <1>5

\* While the gateway stays up only the watcher moves the run.
LEMMA UpSteps ==
  ASSUME UpInv, UpAssumption, [Next]_vars
  PROVE  /\ manager.pc = "up"
         /\ ~ManagerStep /\ ~StopBegin /\ ~Crash
         /\ WatcherStep \/ UNCHANGED watcher
  <1>1. manager.pc = "up"
    BY DEF UpInv, UpAssumption, RunInv, ManagerAlone
  <1>2. ~ManagerStep /\ ~StopBegin /\ ~Crash
    BY <1>1 DEF ManagerStep, HaltUpdate, HaltClose, ProcessExit, BootIdle, BootAdopt, BootRecover,
                BootUpdate, StopBegin, Crash, UpAssumption, NeverDown
  <1>3. ASSUME NEW s \in Sessions, WorkerStep(s) PROVE UNCHANGED watcher
    BY <1>3 DEF WorkerStep, CompleteTask, GenerateArtifact, Report, WorkerExit
  <1>4. ASSUME NEW c \in Clients, CommandBegin(c) PROVE UNCHANGED watcher
    BY <1>4 DEF CommandBegin, Begin, WorkBegin, ContinueBegin, PlanBegin, TurnEndBegin,
                NoteBegin, PauseBegin, CancelBegin, DiscardBegin, StatusBegin,
                ArchiveBegin, ProposeBegin
  <1>5. ASSUME NEW c \in Clients, CommandStep(c) PROVE UNCHANGED watcher
    BY <1>5 DEF CommandStep, WorkArm, ContinuePlanning, PlanStart, TurnEndUpdate, NoteUpdate,
                Request, InterruptAndWake, DiscardFiles, DiscardUpdate, StatusUpdate,
                ArchiveUpdate, ProposeUpdate, CommandFails
  <1>6. TimerSwallowed \/ Poll \/ PlannerWrites => UNCHANGED watcher
    BY DEF TimerSwallowed, Poll, PlannerWrites
  <1> QED
    BY <1>1, <1>2, <1>3, <1>4, <1>5, <1>6 DEF Next, vars

\* Every step but Spawn: no worker begins, and those that go on stay known.
NoneNew ==
    \A t \in Sessions : worker'[t] \in Actions =>
        worker'[t] = worker[t] /\ (t \in known => t \in known')

\* Ending workers begins none.
LEMMA KilledNew ==
  ASSUME TypeOK, NEW s
  PROVE  /\ Interrupt(s) /\ UNCHANGED known => NoneNew
         /\ CloseSession(s) /\ (\A t \in Sessions : Working(t) => t \in known) => NoneNew
  BY DEF NoneNew, Interrupt, CloseSession, Killed, Working, TypeOK, Actions

\* A worker begins by Spawn only.
LEMMA WorkerKinds ==
  ASSUME UpInv, UpAssumption, [Next]_vars
  PROVE  NoneNew \/ Spawn
  <1>0. TypeOK /\ \A t \in Sessions : Working(t) => t \in known
    BY DEF UpInv, TypeInv, WorkersKnown
  <1>1. UNCHANGED <<worker, known>> => NoneNew
    BY DEF NoneNew
  <1>2. ASSUME NEW s \in Sessions, WorkerStep(s) PROVE NoneNew
    <2>1. CASE CompleteTask(s) \/ GenerateArtifact(s) \/ Report(s)
      BY <1>1, <2>1 DEF CompleteTask, GenerateArtifact, Report
    <2>2. CASE WorkerExit(s)
      BY <1>0, <2>2 DEF WorkerExit, NoneNew, TypeOK, Actions
    <2> QED
      BY <1>2, <2>1, <2>2 DEF WorkerStep
  <1>3. ASSUME NEW c \in Clients, CommandBegin(c) PROVE NoneNew
    <2>1. UNCHANGED <<worker, known>>
      BY <1>3 DEF CommandBegin, Begin, WorkBegin, ContinueBegin, PlanBegin, TurnEndBegin,
                  NoteBegin, PauseBegin, CancelBegin, DiscardBegin, StatusBegin,
                  ArchiveBegin, ProposeBegin
    <2> QED
      BY <1>1, <2>1
  <1>4. ASSUME NEW c \in Clients, CommandStep(c) PROVE NoneNew
    <2>1. CASE InterruptAndWake(c)
      BY <1>0, <1>1, <2>1, KilledNew DEF InterruptAndWake
    <2>2. CASE WorkArm(c) \/ ContinuePlanning(c) \/ PlanStart(c) \/ TurnEndUpdate(c)
      BY <1>1, <2>2 DEF WorkArm, ContinuePlanning, PlanStart, TurnEndUpdate
    <2>3. CASE NoteUpdate(c) \/ Request(c) \/ DiscardFiles(c) \/ DiscardUpdate(c)
      BY <1>1, <2>3 DEF NoteUpdate, Request, DiscardFiles, DiscardUpdate
    <2>4. CASE StatusUpdate(c) \/ ArchiveUpdate(c) \/ ProposeUpdate(c) \/ CommandFails(c)
      BY <1>1, <2>4 DEF StatusUpdate, ArchiveUpdate, ProposeUpdate, CommandFails
    <2> QED
      BY <1>4, <2>1, <2>2, <2>3, <2>4 DEF CommandStep
  <1>5. TimerSwallowed \/ Poll \/ PlannerWrites => NoneNew
    BY <1>1 DEF TimerSwallowed, Poll, PlannerWrites
  <1>6. CASE RunStart \/ Leave \/ RunFails \/ ReadStatus \/ ReadSynced \/ SetRunning
    BY <1>1, <1>6 DEF RunStart, Leave, RunFails, ReadStatus, ReadSynced, SetRunning
  <1>7. CASE ReadApply \/ CaptureResult \/ WatchEnds
    BY <1>0, <1>1, <1>7, KilledNew DEF ReadApply, CaptureResult, WatchEnds
  <1>8. CASE TurnEnds
    BY <1>0, <1>8 DEF TurnEnds, NoneNew, TypeOK, Actions
  <1>9. CASE Resolve \/ RestartUpdate \/ Finish \/ Rearm \/ Settle
    BY <1>1, <1>9 DEF Resolve, RestartUpdate, Finish, Rearm, Settle
  <1>10. CASE RestartClose \/ Close
    BY <1>0, <1>1, <1>10, KilledNew DEF RestartClose, Close
  <1>11. CASE UNCHANGED vars
    BY <1>1, <1>11 DEF vars
  <1> QED
    BY <1>2, <1>3, <1>4, <1>5, <1>6, <1>7, <1>8, <1>9, <1>10, <1>11, UpSteps
       DEF Next, WatcherStep

\* A worker is started for the run on record, which implements tasks.
LEMMA SpawnKnown ==
  ASSUME UpInv, UpAssumption, Spawn
  PROVE  WorkersKnown'
  <1>1. watcher.pc = "spawn" /\ watcher \in Watchers
    BY DEF Spawn, UpInv, TypeInv, TypeOK
  <1>2. watcher.action = "work"
    BY <1>1 DEF UpInv, UpAssumption, RunInv, RunOnRecord, InRun, OnRecord, WorkOnly
  <1>3. PICK how \in {"work", "acp", "other"} : worker' = [worker EXCEPT ![watcher.exec.sess] = how]
    BY <1>2 DEF Spawn
  <1>4. known' = known \cup {watcher.exec.sess}
    BY DEF Spawn
  <1> QED
    BY <1>3, <1>4 DEF WorkersKnown, Working, Actions, UpInv, TypeInv, TypeOK

\* No step starts a worker that is not known.
LEMMA WorkersStep == UpInv /\ UpAssumption /\ [Next]_vars => WorkersKnown'
  <1> SUFFICES ASSUME UpInv, UpAssumption, [Next]_vars PROVE WorkersKnown'
    OBVIOUS
  <1>1. CASE NoneNew
    BY <1>1 DEF NoneNew, UpInv, WorkersKnown, Working
  <1> QED
    BY <1>1, WorkerKinds, SpawnKnown

\* Every behaviour keeps it.
LEMMA UpRuns ==
  ASSUME UpAssumption
  PROVE  Spec => []UpInv
  <1>1. Init => WorkersKnown
    BY DEF Init, WorkersKnown, Working, Actions
  <1>2. UpInv /\ [Next]_vars => WorkersKnown'
    BY WorkersStep
  <1>3. UpInv <=> TypeInv /\ RunInv /\ OwnWorkerAttended /\ WorkersKnown
    BY DEF UpInv
  <1>4. Spec => [](TypeInv /\ RunInv)
    BY UpAssumes, NeverStoppedRuns
  <1> QED
    BY <1>1, <1>2, <1>3, <1>4, OwnWorkers, PTL DEF Spec

\* A worker works only for the run on record, whose session it is: a command
\* that finds no run on record acts on a directory where nobody works.
THEOREM WorkersOnRecord ==
  ASSUME UpAssumption
  PROVE  Spec => []WorkerOnRecord
  <1>1. UpInv => WorkerOnRecord
    BY WorkingFacts DEF WorkerOnRecord
  <1> QED
    BY <1>1, UpRuns, PTL

\* What a step does to the change directory.
LEMMA SpecKinds ==
  ASSUME [Next]_vars
  PROVE  \/ spec' = spec
         \/ \E s \in Sessions : CompleteTask(s) \/ GenerateArtifact(s)
         \/ PlannerWrites
         \/ Close /\ watcher.goal = "cancel"
         \/ \E c \in Clients : DiscardFiles(c) \/ ArchiveUpdate(c) \/ ProposeUpdate(c)
  <1>1. ASSUME NEW s \in Sessions, WorkerStep(s)
        PROVE  spec' = spec \/ CompleteTask(s) \/ GenerateArtifact(s)
    BY <1>1 DEF WorkerStep, Report, WorkerExit
  <1>2. ASSUME NEW c \in Clients, CommandBegin(c) PROVE spec' = spec
    BY <1>2 DEF CommandBegin, Begin, WorkBegin, ContinueBegin, PlanBegin, TurnEndBegin,
                NoteBegin, PauseBegin, CancelBegin, DiscardBegin, StatusBegin,
                ArchiveBegin, ProposeBegin
  <1>3. ASSUME NEW c \in Clients, CommandStep(c)
        PROVE  spec' = spec \/ DiscardFiles(c) \/ ArchiveUpdate(c) \/ ProposeUpdate(c)
    BY <1>3 DEF CommandStep, WorkArm, ContinuePlanning, PlanStart, TurnEndUpdate, NoteUpdate,
                Request, InterruptAndWake, DiscardUpdate, StatusUpdate, CommandFails
  <1>4. WatcherStep => spec' = spec \/ (Close /\ watcher.goal = "cancel")
    BY DEF WatcherStep, RunStart, Leave, RunFails, ReadApply, ReadStatus, ReadSynced, SetRunning,
           Spawn, CaptureResult, TurnEnds, WatchEnds, Resolve, RestartClose, RestartUpdate,
           Finish, Rearm, Close, Settle
  <1>5. ManagerStep \/ StopBegin \/ Crash \/ TimerSwallowed \/ Poll => spec' = spec
    BY DEF ManagerStep, HaltUpdate, HaltClose, ProcessExit, Down, BootIdle, BootAdopt, BootRecover,
           BootUpdate, StopBegin, Crash, TimerSwallowed, Poll
  <1>6. UNCHANGED vars => spec' = spec
    BY DEF vars
  <1> QED
    BY <1>1, <1>2, <1>3, <1>4, <1>5, <1>6 DEF Next

\* Work on the change keeps its directory.
LEMMA WorkKeepsDir ==
  ASSUME spec \in Specs, WriteArtifact \/ (\E s \in Sessions : CompleteTask(s))
  PROVE  spec'.dir = spec.dir
  BY DEF WriteArtifact, CompleteTask, Specs

\* The directory of a change is deleted by a cancellation or moved away by an
\* archive when no worker is left in it, however late requests and results come.
THEOREM CleanupAfterWorkers ==
  ASSUME UpAssumption
  PROVE  Spec => CleanupWaits
  <1> DEFINE A == spec.dir /\ ~spec'.dir => \A s \in Sessions : ~Working(s)
  <1>1. ASSUME UpInv, [Next]_vars, spec.dir, ~spec'.dir, NEW s \in Sessions, Working(s) PROVE FALSE
    <2>1. spec \in Specs
      BY <1>1 DEF UpInv, TypeInv, TypeOK
    <2>2. HasExec(project) /\ watcher.pc = "turn"
      BY <1>1, WorkingFacts
    <2>3. ~Close
      BY <2>2 DEF Close
    <2>4. \A c \in Clients : ~DiscardFiles(c) /\ ~ArchiveUpdate(c) /\ ~ProposeUpdate(c)
      BY <1>1, <2>2, DecidedFacts DEF UpInv, DiscardFiles, ArchiveUpdate, ProposeUpdate, Deciding
    <2>5. ~PlannerWrites /\ \A t \in Sessions : ~CompleteTask(t) /\ ~GenerateArtifact(t)
      BY <1>1, <2>1, WorkKeepsDir DEF PlannerWrites, GenerateArtifact
    <2> QED
      BY <1>1, <2>3, <2>4, <2>5, SpecKinds
  <1>2. UpInv /\ [Next]_vars => [A]_vars
    BY <1>1
  <1> QED
    BY <1>2, UpRuns, PTL DEF Spec, CleanupWaits

-----------------------------------------------------------------------------
(* What done means.                                                        *)

\* The workers report done with no task open.
DoneAssumption == UpAssumption /\ HonestWorker

\* A run is about a change with all its artifacts, until a cancellation has
\* deleted it.
RunPlanned ==
    HasExec(project) /\ ~(watcher.pc = "settle" /\ watcher.goal = "cancel") =>
        spec.dir /\ spec.arts = Artifacts

\* A report of done is about the run on record and outlives none of its ends.
ReportHolds ==
    /\ result = "done" => HasExec(project) /\ spec.tasks = 0
    /\ watcher.pc = "settle" => result = "none"

\* The watcher takes a run for done when no task is left.
WatcherHolds ==
    /\ InRun /\ watcher.result = "done" => spec.tasks = 0
    /\ watcher.pc \in {"close", "settle"} /\ watcher.goal = "done" => spec.tasks = 0

DoneInv == RunPlanned /\ ReportHolds /\ WatcherHolds /\ DoneMeansComplete

\* openspec says that a change is complete, or ready to be implemented.
LEMMA ApplyStates ==
  ASSUME spec \in Specs
  PROVE  /\ ApplyState = "all_done" => spec.arts = Artifacts /\ spec.tasks = 0
         /\ ApplyState = "ready" => spec.arts = Artifacts
  <1>1. spec.arts \in 0..Artifacts
    BY SpecTypes
  <1> QED
    BY <1>1, ArtifactsAssumption DEF ApplyState

\* The end of a run on record.
LEMMA UpEnds ==
  ASSUME UpInv, UpAssumption, [Next]_vars, HasExec(project), watcher.pc # "settle"
  PROVE  HasExec(project')
  <1>1. manager.pc = "up"
    BY UpSteps
  <1> QED
    BY <1>1, RunsBeginAndEnd DEF UpInv

\* While a run is on record the change is changed by its worker, or deleted
\* at its end.
LEMMA UpSpec ==
  ASSUME UpInv, UpAssumption, [Next]_vars, HasExec(project)
  PROVE  \/ spec' = spec
         \/ spec'.dir = spec.dir /\ spec'.arts = spec.arts /\ spec.tasks > 0
         \/ Close /\ watcher.goal = "cancel" /\ spec' = NoChange
  <1>1. spec \in Specs
    BY DEF UpInv, TypeInv, TypeOK
  <1>2. ASSUME NEW s \in Sessions, CompleteTask(s)
        PROVE  spec'.dir = spec.dir /\ spec'.arts = spec.arts /\ spec.tasks > 0
    BY <1>1, <1>2 DEF CompleteTask, Specs
  <1>3. ASSUME NEW s \in Sessions PROVE ~GenerateArtifact(s)
    BY WorkingFacts DEF GenerateArtifact, Working, Actions
  <1>4. ~PlannerWrites
    BY DEF PlannerWrites
  <1>5. \A c \in Clients : ~DiscardFiles(c) /\ ~ArchiveUpdate(c) /\ ~ProposeUpdate(c)
    BY DecidedFacts DEF UpInv, DiscardFiles, ArchiveUpdate, ProposeUpdate, Deciding
  <1> QED
    BY <1>2, <1>3, <1>4, <1>5, SpecKinds DEF Close

\* How the watcher comes to the end of a run.
LEMMA WatcherMarks ==
  ASSUME TypeInv, WatcherStep
  PROVE  /\ watcher'.pc = "settle" => Close
         /\ Close => watcher'.pc = "settle" /\ watcher'.goal = watcher.goal
         /\ watcher'.pc \notin {"idle", "leave"} /\ watcher'.result = "done" =>
              \/ InRun /\ watcher.result = "done"
              \/ Resolve /\ result = "done"
         /\ watcher'.pc \in {"close", "settle"} /\ watcher'.goal = "done" =>
              \/ watcher.pc = "close" /\ watcher.goal = "done"
              \/ ReadApply /\ ApplyState = "all_done"
              \/ Finish /\ (spec.tasks = 0 \/ watcher.result = "done")
  <1>0. watcher \in Watchers
    BY DEF TypeInv, TypeOK
  <1> DEFINE Marks ==
        /\ watcher'.pc = "settle" => Close
        /\ watcher'.pc \notin {"idle", "leave"} /\ watcher'.result = "done" =>
              \/ InRun /\ watcher.result = "done"
              \/ Resolve /\ result = "done"
        /\ watcher'.pc \in {"close", "settle"} /\ watcher'.goal = "done" =>
              \/ watcher.pc = "close" /\ watcher.goal = "done"
              \/ ReadApply /\ ApplyState = "all_done"
              \/ Finish /\ (spec.tasks = 0 \/ watcher.result = "done")
  <1>a. Close => watcher'.pc = "settle" /\ watcher'.goal = watcher.goal
                  /\ watcher'.result = watcher.result /\ InRun /\ watcher.pc = "close"
    BY <1>0 DEF Close, Watchers, InRun
  <1> SUFFICES Marks
    BY <1>a
  <1>1. CASE watcher' = IdleWatcher
    BY <1>1 DEF IdleWatcher
  <1>2. CASE RunStart
    <2>1. watcher'.result = "none" /\ watcher'.pc # "settle" /\ watcher'.goal # "done"
      BY <1>2 DEF RunStart, IdleWatcher
    <2> QED
      BY <1>2, <2>1 DEF RunStart, Close
  <1>3. ASSUME watcher'.result = watcher.result, InRun, watcher'.pc # "settle",
               watcher'.pc = "close" => watcher'.goal # "done"
        PROVE  Marks
    BY <1>3
  <1>4. CASE RunFails /\ watcher' # IdleWatcher
    <2>1. \E f : watcher' = [watcher EXCEPT !.pc = "close", !.goal = "block",
                                            !.exec = project.exec, !.failure = f]
      BY <1>4 DEF RunFails
    <2>2. watcher'.result = watcher.result /\ watcher'.pc = "close" /\ watcher'.goal = "block"
      BY <1>0, <2>1 DEF Watchers
    <2> QED
      BY <1>3, <1>4, <2>2 DEF RunFails, InRun, Close
  <1>5. CASE ReadApply
    <2>1. \/ watcher' = [watcher EXCEPT !.pc = "close", !.goal = "block", !.failure = "other"]
          \/ watcher' = [watcher EXCEPT !.pc = "close", !.goal = "done"] /\ ApplyState = "all_done"
          \/ watcher' = [watcher EXCEPT !.pc = "turn", !.attached = TRUE]
          \/ watcher' = [watcher EXCEPT !.pc = "start"]
      BY <1>5 DEF ReadApply
    <2>2. /\ watcher'.result = watcher.result /\ watcher'.pc \in {"close", "turn", "start"}
          /\ watcher'.pc = "close" /\ watcher'.goal = "done" => ApplyState = "all_done"
      <3>1. CASE watcher' = [watcher EXCEPT !.pc = "close", !.goal = "block", !.failure = "other"]
        BY <1>0, <3>1 DEF Watchers
      <3>2. CASE watcher' = [watcher EXCEPT !.pc = "close", !.goal = "done"] /\ ApplyState = "all_done"
        BY <1>0, <3>2 DEF Watchers
      <3>3. CASE watcher' = [watcher EXCEPT !.pc = "turn", !.attached = TRUE]
        BY <1>0, <3>3 DEF Watchers
      <3>4. CASE watcher' = [watcher EXCEPT !.pc = "start"]
        BY <1>0, <3>4 DEF Watchers
      <3> QED
        BY <2>1, <3>1, <3>2, <3>3, <3>4
    <2> QED
      BY <1>5, <2>2 DEF ReadApply, InRun
  <1>6. CASE ReadStatus
    <2>1. /\ watcher'.result = watcher.result /\ watcher'.pc \in {"close", "turn", "start", "synced"}
          /\ watcher'.pc = "close" => watcher'.goal = "block"
      <3>1. CASE watcher' = [watcher EXCEPT !.pc = "synced"]
        BY <1>0, <3>1 DEF Watchers
      <3>2. CASE watcher' = [watcher EXCEPT
                               !.pc = IF watcher.exec.state = "running" THEN "turn" ELSE "start",
                               !.attached = watcher.exec.state = "running",
                               !.exec.artifact = SelectedArtifact]
        <4> DEFINE pc == IF watcher.exec.state = "running" THEN "turn" ELSE "start"
                   b == watcher.exec.state = "running"
        <4>1. pc \in {"turn", "start"}
          OBVIOUS
        <4>2. watcher' = [watcher EXCEPT !.pc = pc, !.attached = b, !.exec.artifact = SelectedArtifact]
          BY <3>2
        <4> HIDE DEF pc, b
        <4>3. watcher'.result = watcher.result /\ watcher'.pc = pc
          BY <1>0, <4>2 DEF Watchers
        <4> QED
          BY <4>1, <4>3
      <3>3. CASE watcher' = [watcher EXCEPT !.pc = "close", !.goal = "block", !.failure = "other"]
        BY <1>0, <3>3 DEF Watchers
      <3> QED
        BY <1>6, <3>1, <3>2, <3>3 DEF ReadStatus
    <2> QED
      BY <1>3, <1>6, <2>1 DEF ReadStatus, InRun, Close
  <1>7. CASE ReadSynced
    <2> DEFINE goal == CASE ApplyState = "ready" -> "plan_ready"
                         [] ApplyState = "all_done" -> "plan_done"
                         [] OTHER -> "plan_blocked"
    <2>1. goal # "done"
      OBVIOUS
    <2>2. watcher'.result = watcher.result /\ watcher'.pc = "close" /\ watcher'.goal = goal
      BY <1>0, <1>7 DEF ReadSynced, Watchers
    <2> HIDE DEF goal
    <2> QED
      BY <1>3, <1>7, <2>1, <2>2 DEF ReadSynced, InRun, Close
  <1>8. CASE SetRunning \/ Spawn \/ CaptureResult
    <2>1. watcher'.result = watcher.result /\ watcher'.pc \in {"spawn", "turn"}
      BY <1>0, <1>8 DEF SetRunning, Spawn, CaptureResult, Watchers
    <2> QED
      BY <1>3, <1>8, <2>1 DEF SetRunning, Spawn, CaptureResult, InRun, Close
  <1>9. CASE (TurnEnds \/ WatchEnds) /\ watcher' # IdleWatcher
    <2>1. PICK failure : AfterTurn(failure)
      BY <1>9 DEF TurnEnds, WatchEnds
    <2>2. watcher'.result = watcher.result /\ watcher'.pc = "resolve"
      BY <1>0, <1>9, <2>1 DEF AfterTurn, Watchers
    <2> QED
      BY <1>3, <1>9, <2>2 DEF TurnEnds, WatchEnds, InRun, Close
  <1>10. CASE Resolve
    <2>1. /\ watcher'.result = result /\ watcher'.pc \in {"close", "restart", "rearm", "finish"}
          /\ watcher'.pc = "close" => watcher'.goal \in {"cancel", "pause", "block"}
      BY <1>0, <1>10 DEF Resolve, Watchers
    <2> QED
      BY <1>10, <2>1 DEF Resolve
  <1>11. CASE RestartClose
    <2> DEFINE exec == IF HasExec(project) THEN project.exec ELSE watcher.exec
    <2>1. \/ watcher' = [watcher EXCEPT !.pc = "close", !.goal = "block", !.exec = project.exec]
          \/ watcher' = [watcher EXCEPT !.pc = "restarted", !.exec = exec,
                                        !.exec.restarts = exec.restarts + 1]
      BY <1>11 DEF RestartClose
    <2> HIDE DEF exec
    <2>2. /\ watcher'.result = watcher.result /\ watcher'.pc \in {"close", "restarted"}
          /\ watcher'.pc = "close" => watcher'.goal = "block"
      <3>1. CASE watcher' = [watcher EXCEPT !.pc = "close", !.goal = "block", !.exec = project.exec]
        BY <1>0, <3>1 DEF Watchers
      <3>2. CASE watcher' = [watcher EXCEPT !.pc = "restarted", !.exec = exec,
                                            !.exec.restarts = exec.restarts + 1]
        BY <1>0, <3>2 DEF Watchers
      <3> QED
        BY <2>1, <3>1, <3>2
    <2> QED
      BY <1>3, <1>11, <2>2 DEF RestartClose, InRun, Close
  <1>12. CASE Finish
    <2>1. /\ watcher'.result = watcher.result /\ watcher'.pc \in {"close", "rearm"}
          /\ watcher'.pc = "close" /\ watcher'.goal = "done" => spec.tasks = 0 \/ watcher.result = "done"
      BY <1>0, <1>12 DEF Finish, Watchers
    <2> QED
      BY <1>12, <2>1 DEF Finish, InRun
  <1>13. CASE Close
    BY <1>13, <1>a
  <1>14. Leave \/ RestartUpdate \/ Rearm \/ Settle => watcher' = IdleWatcher
    BY DEF Leave, RestartUpdate, Rearm, Settle
  <1> QED
    BY <1>1, <1>2, <1>4, <1>5, <1>6, <1>7, <1>8, <1>9, <1>10, <1>11, <1>12, <1>13, <1>14
       DEF WatcherStep

\* What is left of the steps, once commands and the watcher are put aside.
LEMMA UpOthers ==
  ASSUME UpInv, UpAssumption, [Next]_vars,
         \A c \in Clients : ~CommandStep(c), ~WatcherStep
  PROVE  UNCHANGED <<project, watcher>>
  <1>1. UNCHANGED vars => UNCHANGED project
    BY DEF vars
  <1> QED
    BY <1>1, UpSteps, OtherKinds DEF Next

\* Commands leave the watcher alone.
LEMMA CommandApart ==
  ASSUME NEW c \in Clients, CommandStep(c)
  PROVE  UNCHANGED <<watcher, manager>>
  BY DEF CommandStep, WorkArm, ContinuePlanning, PlanStart, TurnEndUpdate, NoteUpdate,
         Request, InterruptAndWake, DiscardFiles, DiscardUpdate, StatusUpdate,
         ArchiveUpdate, ProposeUpdate, CommandFails

\* A run is queued for a planned change and stays about one.
LEMMA PlannedStep ==
  ASSUME UpInv, UpAssumption, [Next]_vars, RunPlanned
  PROVE  RunPlanned'
  <1> SUFFICES ASSUME HasExec(project'), ~(watcher'.pc = "settle" /\ watcher'.goal = "cancel")
               PROVE  spec'.dir /\ spec'.arts = Artifacts
    BY DEF RunPlanned
  <1>0. TypeInv /\ RunInv /\ spec \in Specs
    BY DEF UpInv, TypeInv, TypeOK
  <1>1. ASSUME HasExec(project), watcher.pc = "settle" => watcher.goal # "cancel"
        PROVE  spec'.dir /\ spec'.arts = Artifacts
    <2>1. spec.dir /\ spec.arts = Artifacts
      BY <1>1 DEF RunPlanned
    <2>2. ~(Close /\ watcher.goal = "cancel")
      BY <1>0, WatcherMarks DEF WatcherStep
    <2> QED
      BY <1>1, <2>1, <2>2, UpSpec
  <1>2. ASSUME NEW c \in Clients, CommandStep(c)
        PROVE  spec'.dir /\ spec'.arts = Artifacts
    <2>1. CASE WorkArm(c) /\ ApplyState = "ready"
      BY <1>0, <2>1, ApplyStates DEF WorkArm
    <2>2. CASE LeavesOrSettles(c)
      <3>1. HasExec(project)
        BY <2>2 DEF LeavesOrSettles, SameRun, Rests, HasExec
      <3> QED
        BY <1>1, <1>2, <3>1, CommandApart
    <2> QED
      BY <1>0, <1>2, <2>1, <2>2, CommandKinds
  <1>3. CASE WatcherStep
    <2>1. ~Settle
      BY <1>0, SettledRests DEF Rests
    <2>2. watcher.pc # "settle"
      BY <1>3, <2>1 DEF WatcherStep, RunStart, Leave, RunFails, ReadApply, ReadStatus, ReadSynced,
             SetRunning, Spawn, CaptureResult, TurnEnds, WatchEnds, Resolve, RestartClose,
             RestartUpdate, Finish, Rearm, Close
    <2>3. HasExec(project)
      BY <1>0, <1>3, <2>1, WatcherKinds
    <2> QED
      BY <1>1, <2>2, <2>3
  <1>4. CASE UNCHANGED <<project, watcher>>
    BY <1>1, <1>4
  <1> QED
    BY <1>2, <1>3, <1>4, UpOthers

\* While a run is on record no task is opened again.
LEMMA TasksStay ==
  ASSUME UpInv, UpAssumption, [Next]_vars, HasExec(project), spec.tasks = 0
  PROVE  spec'.tasks = 0
  BY UpSpec DEF NoChange

\* A step files a report, keeps the result on file, or takes it away.
LEMMA ResultKinds ==
  ASSUME [Next]_vars
  PROVE  result' \in {result, "none"} \/ \E s \in Sessions : Report(s)
  <1>1. ASSUME NEW s \in Sessions, WorkerStep(s) PROVE result' = result \/ Report(s)
    BY <1>1 DEF WorkerStep, CompleteTask, GenerateArtifact, WorkerExit
  <1>2. ASSUME NEW c \in Clients, CommandBegin(c) PROVE result' = result
    BY <1>2 DEF CommandBegin, Begin, WorkBegin, ContinueBegin, PlanBegin, TurnEndBegin,
                NoteBegin, PauseBegin, CancelBegin, DiscardBegin, StatusBegin,
                ArchiveBegin, ProposeBegin
  <1>3. ASSUME NEW c \in Clients, CommandStep(c) PROVE result' \in {result, "none"}
    BY <1>3 DEF CommandStep, WorkArm, ContinuePlanning, PlanStart, TurnEndUpdate, NoteUpdate,
                Request, InterruptAndWake, DiscardFiles, DiscardUpdate, StatusUpdate,
                ArchiveUpdate, ProposeUpdate, CommandFails
  <1>4. WatcherStep => result' \in {result, "none"}
    BY DEF WatcherStep, RunStart, Leave, RunFails, ReadApply, ReadStatus, ReadSynced, SetRunning,
           Spawn, CaptureResult, TurnEnds, WatchEnds, Resolve, RestartClose, RestartUpdate,
           Finish, Rearm, Close, Settle
  <1>5. ManagerStep \/ StopBegin \/ Crash \/ TimerSwallowed \/ Poll \/ PlannerWrites =>
          result' \in {result, "none"}
    BY DEF ManagerStep, HaltUpdate, HaltClose, ProcessExit, Down, BootIdle, BootAdopt, BootRecover,
           BootUpdate, StopBegin, Crash, TimerSwallowed, Poll, PlannerWrites
  <1>6. UNCHANGED vars => result' = result
    BY DEF vars
  <1> QED
    BY <1>1, <1>2, <1>3, <1>4, <1>5, <1>6 DEF Next

\* A report names the state of the run that goes on.
LEMMA ReportStep ==
  ASSUME UpInv, DoneAssumption, [Next]_vars, ReportHolds
  PROVE  ReportHolds'
  <1>0. UpAssumption /\ HonestWorker /\ TypeInv
    BY DEF DoneAssumption, UpInv
  <1>1. ASSUME NEW s \in Sessions, Report(s) PROVE ReportHolds'
    <2>1. HasExec(project) /\ watcher.pc = "turn"
      BY <1>1, WorkingFacts DEF Report
    <2>2. result' = "done" => spec.tasks = 0
      BY <1>0, <1>1 DEF Report
    <2> QED
      BY <1>1, <2>1, <2>2 DEF ReportHolds, Report
  <1>2. ASSUME result' \in {result, "none"} PROVE ReportHolds'
    <2>1. ASSUME result' = "done" PROVE HasExec(project') /\ spec'.tasks = 0
      <3>1. result = "done" /\ HasExec(project) /\ spec.tasks = 0 /\ watcher.pc # "settle"
        BY <1>2, <2>1 DEF ReportHolds
      <3> QED
        BY <1>0, <3>1, UpEnds, TasksStay
    <2>2. ASSUME watcher'.pc = "settle" PROVE result' = "none"
      <3>1. CASE WatcherStep
        BY <1>0, <2>2, <3>1, WatcherMarks DEF Close
      <3>2. CASE UNCHANGED watcher
        BY <1>2, <2>2, <3>2 DEF ReportHolds
      <3> QED
        BY <1>0, <3>1, <3>2, UpSteps
    <2> QED
      BY <2>1, <2>2 DEF ReportHolds
  <1> QED
    BY <1>1, <1>2, ResultKinds

\* What the watcher took for done stays done.
LEMMA WatcherHoldsStep ==
  ASSUME UpInv, UpAssumption, [Next]_vars, ReportHolds, WatcherHolds
  PROVE  WatcherHolds'
  <1>0. TypeInv /\ RunInv /\ spec \in Specs
    BY DEF UpInv, TypeInv, TypeOK
  <1>1. InRun => HasExec(project)
    BY <1>0 DEF RunInv, RunOnRecord
  <1>2. ASSUME spec.tasks = 0, HasExec(project) PROVE WatcherHolds'
    BY <1>2, TasksStay DEF WatcherHolds
  <1>3. CASE UNCHANGED watcher
    BY <1>1, <1>2, <1>3 DEF WatcherHolds, InRun
  <1>4. CASE WatcherStep
    <2>1. CASE InRun /\ watcher.result = "done"
      BY <1>1, <1>2, <2>1 DEF WatcherHolds
    <2>2. CASE result = "done"
      BY <1>2, <2>2 DEF ReportHolds
    <2>3. CASE watcher.pc = "close" /\ watcher.goal = "done"
      BY <1>1, <1>2, <2>3 DEF WatcherHolds, InRun
    <2>4. CASE ReadApply /\ ApplyState = "all_done"
      BY <1>0, <1>1, <1>2, <2>4, ApplyStates DEF ReadApply, InRun
    <2>5. CASE Finish /\ (spec.tasks = 0 \/ watcher.result = "done")
      BY <1>1, <1>2, <2>1, <2>5 DEF Finish, InRun
    <2>6. CASE /\ ~(InRun /\ watcher.result = "done") /\ result # "done"
               /\ ~(watcher.pc = "close" /\ watcher.goal = "done")
               /\ ~(ReadApply /\ ApplyState = "all_done")
               /\ ~(Finish /\ (spec.tasks = 0 \/ watcher.result = "done"))
      BY <1>0, <1>4, <2>6, WatcherMarks DEF WatcherHolds, InRun
    <2> QED
      BY <2>1, <2>2, <2>3, <2>4, <2>5, <2>6
  <1> QED
    BY <1>3, <1>4, UpSteps

\* Done is written for a complete change, which is then left alone.
LEMMA DoneStep ==
  ASSUME UpInv, UpAssumption, [Next]_vars, RunPlanned, WatcherHolds, DoneMeansComplete
  PROVE  DoneMeansComplete'
  <1> SUFFICES ASSUME project'.status = "done", spec'.dir
               PROVE  spec'.arts = Artifacts /\ spec'.tasks = 0
    BY DEF DoneMeansComplete
  <1>0. TypeInv /\ RunInv /\ spec \in Specs /\ project \in Projects
    BY DEF UpInv, TypeInv, TypeOK
  <1>1. project.status = "done" => ~HasExec(project)
    BY <1>0 DEF RunInv, ExecShown, Shown
  <1>2. ~PlannerWrites
    BY DEF PlannerWrites
  <1>3. ASSUME NEW c \in Clients, CommandStep(c) PROVE spec'.arts = Artifacts /\ spec'.tasks = 0
    <2>1. ~ProposeUpdate(c)
      BY <1>0, RestingFields DEF ProposeUpdate
    <2>2. ~DiscardFiles(c) /\ ~ArchiveUpdate(c)
      BY DEF DiscardFiles, ArchiveUpdate, NoChange
    <2>3. spec' = spec
      BY <1>3, <2>1, <2>2
         DEF CommandStep, WorkArm, ContinuePlanning, PlanStart, TurnEndUpdate, NoteUpdate,
             Request, InterruptAndWake, DiscardUpdate, StatusUpdate, CommandFails
    <2>4. project.status = "done" \/ ApplyState = "all_done"
      BY <1>0, <1>3, CommandKinds DEF DoneWhenComplete
    <2> QED
      BY <1>0, <2>3, <2>4, ApplyStates DEF DoneMeansComplete
  <1>4. CASE WatcherStep
    <2>1. spec' = spec
      BY <1>4
      DEF WatcherStep, RunStart, Leave, RunFails, ReadApply, ReadStatus, ReadSynced, SetRunning,
           Spawn, CaptureResult, TurnEnds, WatchEnds, Resolve, RestartClose, RestartUpdate,
           Finish, Rearm, Close, Settle, NoChange
    <2>2. CASE project' = project
      BY <2>1, <2>2 DEF DoneMeansComplete
    <2>3. CASE TurnOn
      <3>1. RunInv'
        BY <1>0, <1>4, UpAssumes, WatcherRun
      <3> QED
        BY <2>3, <3>1 DEF TurnOn, RunInv, ExecShown, Shown
    <2>4. CASE Settle /\ HasExec(project)
      <3>1. watcher.pc = "settle"
        BY <2>4 DEF Settle
      <3>2. watcher.goal \in RunGoals
        BY <1>0, <2>4, <3>1 DEF RunInv, RunOnRecord, OnRecord, InRun, UpAssumption, WorkOnly
      <3>3. watcher.goal = "done"
        BY <1>0, <2>4, <3>2, SettledRests
      <3> QED
        BY <2>1, <2>4, <3>1, <3>3 DEF WatcherHolds, RunPlanned
    <2> QED
      BY <1>0, <1>4, <2>2, <2>3, <2>4, WatcherKinds
  <1>5. CASE UNCHANGED <<project, watcher>> /\ ~WatcherStep /\ \A c \in Clients : ~CommandStep(c)
    <2>1. project.status = "done"
      BY <1>5
    <2>2. \A s \in Sessions : ~Working(s)
      BY <1>1, <2>1, WorkingFacts
    <2>3. \A s \in Sessions : ~CompleteTask(s) /\ ~GenerateArtifact(s)
      BY <2>2 DEF CompleteTask, GenerateArtifact, Working, Actions
    <2>4. ~PlannerWrites
      BY <2>1 DEF PlannerWrites
    <2>5. spec' = spec
      BY <1>5, <2>3, <2>4, SpecKinds DEF WatcherStep, CommandStep
    <2> QED
      BY <2>1, <2>5 DEF DoneMeansComplete
  <1> QED
    BY <1>3, <1>4, <1>5, UpOthers

\* Every behaviour with honest workers keeps DoneInv.
LEMMA DoneRuns ==
  ASSUME DoneAssumption
  PROVE  Spec => [](UpInv /\ DoneInv)
  <1>0. UpAssumption
    BY DEF DoneAssumption
  <1>1. Init => DoneInv
    <2> SUFFICES ASSUME Init PROVE DoneInv
      OBVIOUS
    <2>1. ~HasExec(project) /\ project.status # "done"
      BY InitRests DEF Rests
    <2>2. result = "none" /\ watcher.pc = "idle" /\ watcher.goal = "none"
      BY DEF Init, IdleWatcher
    <2> QED
      BY <2>1, <2>2
         DEF DoneInv, RunPlanned, ReportHolds, WatcherHolds, InRun, DoneMeansComplete
  <1>2. UpInv /\ DoneInv /\ [Next]_vars => DoneInv'
    BY <1>0, PlannedStep, ReportStep, WatcherHoldsStep, DoneStep DEF DoneInv
  <1> QED
    BY <1>0, <1>1, <1>2, UpRuns, PTL DEF Spec

\* A project that says it is done has every artifact and no task left,
\* whichever of a result on file, a count of tasks and a look at openspec
\* decided, and whatever came late.
THEOREM DoneIsComplete ==
  ASSUME DoneAssumption
  PROVE  Spec => []DoneMeansComplete
  <1>1. DoneInv => DoneMeansComplete
    BY DEF DoneInv
  <1> QED
    BY <1>1, DoneRuns, PTL

-----------------------------------------------------------------------------
(* The change as the chat sees it: Lifecycle.                              *)

\* ChangeSeen of record p.
Seen(p) ==
    [at |-> IF ~p.change THEN "none"
            ELSE IF HasExec(p) THEN p.exec.state
            ELSE IF p.status = "done" THEN "done" ELSE "open",
     job |-> IF p.change /\ HasExec(p) THEN p.exec.action ELSE "none"]

\* It is what the properties speak of.
LEMMA SeenSame == ChangeSeen = Seen(project) /\ ChangeSeen' = Seen(project')
  BY DEF ChangeSeen, Seen, HasExec

\* Where a record with a run, and one without, is seen.
LEMMA SeenFields ==
  ASSUME NEW p
  PROVE  /\ HasExec(p) /\ p.change => Seen(p) = [at |-> p.exec.state, job |-> p.exec.action]
         /\ Rests(p) =>
              /\ ~p.change => Seen(p) = [at |-> "none", job |-> "none"]
              /\ p.change /\ p.status = "done" => Seen(p) = [at |-> "done", job |-> "none"]
              /\ p.change /\ p.status # "done" => Seen(p) = [at |-> "open", job |-> "none"]
  BY DEF Seen, Rests

\* A command never takes a run off, never begins but one of cs-work, and only
\* a proposal puts a change where none was.
LEMMA CommandSeen ==
  ASSUME UpInv, UpAssumption, DoneMeansComplete, NEW c \in Clients, CommandStep(c)
  PROVE  [Chat!Next]_ChangeSeen
  <1>0. TypeInv /\ RunInv /\ project \in Projects /\ spec \in Specs
    BY DEF UpInv, TypeInv, TypeOK
  <1>1. ~HasExec(project) => Rests(project)
    BY <1>0 DEF RunInv, ExecShown
  <1>2. CASE SameRun(project, project')
    BY <1>2, SeenSame DEF SameRun, Seen, HasExec
  <1>3. CASE /\ ~HasExec(project) /\ Rests(project')
             /\ project'.change => project.change \/ client[c].pc = "propose"
    <2>1. CASE project.change
      <3>1. Chat!Reconsider \/ Chat!Discard
        BY <1>1, <1>3, <2>1, SeenSame, SeenFields DEF Chat!Reconsider, Chat!Discard
      <3> QED
        BY <3>1 DEF Chat!Next
    <2>2. CASE ~project.change /\ ~project'.change
      BY <1>1, <1>3, <2>2, SeenSame, SeenFields
    <2>3. CASE ~project.change /\ project'.change
      <3>1. ProposeUpdate(c) \/ CommandFails(c)
        BY <1>3, <2>3
           DEF CommandStep, WorkArm, ContinuePlanning, PlanStart, TurnEndUpdate, NoteUpdate,
               Request, InterruptAndWake, DiscardFiles, DiscardUpdate, StatusUpdate,
               ArchiveUpdate, At
      <3>2. project' = Proposed(project)
        <4>1. CASE ProposeUpdate(c)
          BY <4>1 DEF ProposeUpdate
        <4>2. ~CommandFails(c)
          BY <2>3 DEF CommandFails
        <4> QED
          BY <3>1, <4>1, <4>2
      <3>3. project'.status # "done"
        BY <1>0, <3>2, RestingFields
      <3>4. Chat!Propose
        BY <1>1, <1>3, <2>3, <3>3, SeenSame, SeenFields DEF Chat!Propose
      <3> QED
        BY <3>4 DEF Chat!Next
    <2> QED
      BY <2>1, <2>2, <2>3
  <1>4. CASE WorkArm(c) /\ ApplyState = "ready" /\ QueuesWork(project, project')
    <2>1. spec.dir /\ spec.tasks # 0
      <3>1. spec.dir
        BY <1>4 DEF WorkArm
      <3>2. spec.arts = Artifacts
        BY <1>0, <1>4, ApplyStates
      <3> QED
        BY <1>4, <3>1, <3>2, ArtifactsAssumption DEF ApplyState
    <2>2. project.status # "done"
      BY <2>1 DEF DoneMeansComplete
    <2>3. Chat!Queue
      BY <1>1, <1>4, <2>2, SeenSame, SeenFields DEF QueuesWork, Shown, Chat!Queue
    <2> QED
      BY <2>3 DEF Chat!Next
  <1> QED
    BY <1>0, <1>2, <1>3, <1>4, CommandKinds DEF LeavesOrSettles

\* The watcher starts a turn, queues it again, or ends the run.
LEMMA WatcherSeen ==
  ASSUME UpInv, UpAssumption, WatcherStep
  PROVE  [Chat!Next]_ChangeSeen
  <1>0. TypeInv /\ RunInv /\ project \in Projects
    BY DEF UpInv, TypeInv, TypeOK
  <1>1. HasExec(project) =>
          /\ project.change
          /\ Seen(project) = [at |-> project.exec.state, job |-> project.exec.action]
    BY <1>0, SeenFields DEF RunInv, ExecShown, Shown
  <1>2. CASE project' = project
    BY <1>2, SeenSame
  <1>3. CASE HasExec(project) /\ TurnOn
    <2>1. Seen(project') = [at |-> project'.exec.state, job |-> project.exec.action]
      BY <1>1, <1>3, SeenFields DEF TurnOn
    <2>2. Chat!Start \/ Chat!Rearm
      BY <1>1, <1>3, <2>1, SeenSame DEF TurnOn, Chat!Start, Chat!Rearm
    <2> QED
      BY <2>2 DEF Chat!Next
  <1>4. CASE HasExec(project) /\ Settle
    <2>1. Rests(project')
      BY <1>0, <1>4, SettledRests
    <2>2. project.exec.state \in {"armed", "running"}
      BY <1>0, <1>4, HasExecLemma DEF Executions
    <2>3. \E at \in {"none", "open", "done"} : Seen(project') = [at |-> at, job |-> "none"]
      BY <2>1, SeenFields
    <2>4. Chat!Settle
      BY <1>1, <1>4, <2>2, <2>3, SeenSame DEF Chat!Settle, Chat!InBackground
    <2> QED
      BY <2>4 DEF Chat!Next
  <1> QED
    BY <1>0, <1>2, <1>3, <1>4, WatcherKinds

\* The safety part of ImplementsLifecycle: every step of the commands, the
\* watcher, its timers and late results is a step of Lifecycle or none, so
\* nothing runs that was not queued, and a change is not taken away under its
\* run but by the end of it.
THEOREM LifecycleSteps ==
  ASSUME DoneAssumption
  PROVE  Spec => Chat!Init /\ [][Chat!Next]_ChangeSeen
  <1>0. UpAssumption
    BY DEF DoneAssumption
  <1>1. Init => Chat!Init
    <2> SUFFICES ASSUME Init PROVE Chat!Init
      OBVIOUS
    <2>1. Rests(project) /\ project.status # "done"
      BY InitRests
    <2> QED
      BY <2>1, SeenSame, SeenFields DEF Chat!Init
  <1>2. UpInv /\ DoneInv /\ [Next]_vars => [Chat!Next]_ChangeSeen
    <2> SUFFICES ASSUME UpInv, DoneInv, [Next]_vars PROVE [Chat!Next]_ChangeSeen
      OBVIOUS
    <2>1. ASSUME NEW c \in Clients, CommandStep(c) PROVE [Chat!Next]_ChangeSeen
      BY <1>0, <2>1, CommandSeen DEF DoneInv
    <2>2. CASE WatcherStep
      BY <1>0, <2>2, WatcherSeen
    <2>3. CASE UNCHANGED <<project, watcher>>
      BY <2>3, SeenSame
    <2> QED
      BY <1>0, <2>1, <2>2, <2>3, UpOthers
  <1> QED
    BY <1>1, <1>2, DoneRuns, PTL DEF Spec
=============================================================================
