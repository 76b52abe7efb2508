------------------------------ MODULE Bootstrap ------------------------------
(***************************************************************************)
(* The bootstrap of the plugin: the coordinator of src/bootstrap/state.ts, *)
(* the runner it is given in src/index.ts, and the watcher manager that a  *)
(* runner starts and publishes.  The host starts and stops the plugin; a   *)
(* command that finds no service starts it too.                            *)
(*                                                                         *)
(* A runner and the manager it creates have one number.  stop() resets the *)
(* coordinator whether a runner is in flight or not: that runner goes on.  *)
(* How a manager recovers and halts projects is in Execution.              *)
(*                                                                         *)
(* A definition whose comment begins with "Fault" is a wrong variant of    *)
(* the one after it.                                                       *)
(***************************************************************************)
EXTENDS Integers

CONSTANT MaxRunners     \* bound on the attempts

ASSUME MaxRunnersAssumption == MaxRunners \in Nat

VARIABLES
    host,       \* what the host made of the plugin: off, on, leaving
    status,     \* the snapshot of the coordinator
    inFlight,   \* the runner it waits for, 0 for none
    runner,     \* where each runner is
    manager,    \* what each manager does
    published,  \* watcherManager of the plugin, 0 for undefined
    service,    \* service of the plugin, 0 for undefined
    leaving,    \* the manager that stop() waits for, 0 for none
    overtaken   \* the runners that were in flight at a reset

vars == <<host, status, inFlight, runner, manager, published, service, leaving, overtaken>>

Runners == 1..MaxRunners
Busy == {"check", "start", "failing"}

InFlight == {r \in Runners : runner[r] \in Busy}

TypeOK ==
    /\ host \in {"off", "on", "leaving"}
    /\ status \in {"idle", "running", "ready", "failed"}
    /\ inFlight \in 0..MaxRunners
    /\ runner \in [Runners -> {"none", "done"} \cup Busy]
    /\ manager \in [Runners -> {"none", "starting", "up", "stopping", "stopped"}]
    /\ published \in 0..MaxRunners
    /\ service \in 0..MaxRunners
    /\ leaving \in 0..MaxRunners
    /\ overtaken \subseteq Runners

-----------------------------------------------------------------------------
(* The coordinator and its runner.                                         *)

\* Fault: a start that is under way is not looked for.
StartsAlways == status # "ready"

\* BootstrapCoordinator.start makes an attempt of its own.
StartsRunner == status # "ready" /\ inFlight = 0

\* ... whose runner goes on synchronously to its first await.
Begin ==
    \E r \in Runners :
        /\ runner[r] = "none" /\ \A q \in 1..(r - 1) : runner[q] # "none"
        /\ runner' = [runner EXCEPT ![r] = "check"]
        /\ inFlight' = r
        /\ status' = "running"
        /\ service' = 0 /\ published' = 0

\* A step of the installation is reported, by a runner of any age.
Report(r) ==
    /\ runner[r] = "check"
    /\ status' = "running"
    /\ UNCHANGED <<host, inFlight, runner, manager, published, service, leaving, overtaken>>

\* The stores, OpenSpec or ACPX cannot be had.
CheckFails(r) ==
    /\ runner[r] = "check"
    /\ runner' = [runner EXCEPT ![r] = "failing"]
    /\ service' = 0
    /\ UNCHANGED <<host, status, inFlight, manager, published, leaving, overtaken>>

\* The last report, then the manager: it recovers projects as it starts.
Create(r) ==
    /\ runner[r] = "check"
    /\ runner' = [runner EXCEPT ![r] = "start"]
    /\ manager' = [manager EXCEPT ![r] = "starting"]
    /\ status' = "running"
    /\ UNCHANGED <<host, inFlight, published, service, leaving, overtaken>>

StartFails(r) ==
    /\ runner[r] = "start"
    /\ runner' = [runner EXCEPT ![r] = "failing"]
    /\ manager' = [manager EXCEPT ![r] = "stopping"]
    /\ service' = 0
    /\ UNCHANGED <<host, status, inFlight, published, leaving, overtaken>>

\* Fault: the manager is not kept for stop().
PublishedService(r) == published

\* watcherManager = nextWatcherManager.
PublishedManager(r) == r

\* The manager is up: it is published, and the coordinator hears of it in the
\* same turn of the event loop.
Ready(r) ==
    /\ runner[r] = "start"
    /\ runner' = [runner EXCEPT ![r] = "done"]
    /\ manager' = [manager EXCEPT ![r] = "up"]
    /\ published' = PublishedManager(r)
    /\ service' = r
    /\ status' = "ready"
    /\ inFlight' = 0
    /\ UNCHANGED <<host, leaving, overtaken>>

\* Fault: the failure is thrown past the coordinator.
StillRunning == status

\* Fault: the step that failed is told for a status.
FailedStep == "check"

\* The status of an attempt that failed.
FailureStatus == "failed"

\* The catch of the runner is through with its manager.
Failed(r) ==
    /\ runner[r] = "failing"
    /\ runner' = [runner EXCEPT ![r] = "done"]
    /\ manager' = [manager EXCEPT ![r] = IF @ = "stopping" THEN "stopped" ELSE @]
    /\ published' = 0
    /\ status' = FailureStatus
    /\ inFlight' = 0
    /\ UNCHANGED <<host, service, leaving, overtaken>>

-----------------------------------------------------------------------------
(* The host and the commands.                                              *)

\* start() of the plugin service: it may find an attempt under way, or done.
HostStarts ==
    /\ host = "off"
    /\ host' = "on"
    /\ \/ StartsRunner /\ Begin
       \/ ~StartsRunner /\ UNCHANGED <<status, inFlight, runner, published, service>>
    /\ UNCHANGED <<manager, leaving, overtaken>>

\* A command without a service: it starts a retry, also when the plugin was
\* stopped.
Command ==
    /\ service = 0 /\ status \in {"failed", "idle"}
    /\ StartsRunner /\ Begin
    /\ UNCHANGED <<host, manager, leaving, overtaken>>

\* stop() waits for the manager to halt its projects ...
HostStops ==
    /\ host = "on" /\ published # 0
    /\ host' = "leaving"
    /\ leaving' = published
    /\ manager' = [manager EXCEPT ![published] = "stopping"]
    /\ UNCHANGED <<status, inFlight, runner, published, service, overtaken>>

\* Fault: the service outlives its manager.
ServiceKept == service

\* The service is gone when stop() returns.
ServiceAfterStop == 0

\* ... then the plugin forgets it and resets the coordinator; at once, when
\* there is none to wait for.
HostStopped ==
    /\ \/ host = "leaving"
       \/ host = "on" /\ published = 0
    /\ host' = "off"
    /\ manager' = [r \in Runners |-> IF r = leaving THEN "stopped" ELSE manager[r]]
    /\ leaving' = 0
    /\ published' = 0 /\ service' = ServiceAfterStop
    /\ inFlight' = 0 /\ status' = "idle"
    /\ overtaken' = overtaken \cup InFlight
    /\ UNCHANGED runner

-----------------------------------------------------------------------------
(* The specification.                                                      *)

Init ==
    /\ host = "off" /\ status = "idle"
    /\ inFlight = 0 /\ published = 0 /\ service = 0 /\ leaving = 0
    /\ runner = [r \in Runners |-> "none"]
    /\ manager = [r \in Runners |-> "none"]
    /\ overtaken = {}

\* A runner gets on, one way or another.
Advance(r) ==
    CheckFails(r) \/ Create(r) \/ StartFails(r) \/ Ready(r) \/ Failed(r)

Next ==
    \/ \E r \in Runners : Report(r) \/ Advance(r)
    \/ HostStarts \/ Command \/ HostStops \/ HostStopped

Spec == Init /\ [][Next]_vars

\* Checks, installations and managers have time limits or end; stop() returns.
\* Nobody need start the plugin or send a command.
Fairness == (\A r \in Runners : WF_vars(Advance(r))) /\ WF_vars(host = "leaving" /\ HostStopped)

FairSpec == Spec /\ Fairness

-----------------------------------------------------------------------------
(* What the bootstrap promises.                                            *)

\* As long as no stop() came upon a runner in flight, every manager that may
\* still work is in somebody's hands: the one that is up is the one stop()
\* will stop, and one that starts or stops is waited for.  An orphan would
\* poll and drive the projects beside its successor.
NoOrphans ==
    overtaken = {} =>
        \A r \in Runners :
            /\ manager[r] = "up" => published = r /\ service = r
            /\ manager[r] = "starting" => inFlight = r
            /\ manager[r] = "stopping" => inFlight = r \/ leaving = r

\* Whatever overtook what: a command that finds the service finds its manager
\* at work, or just being stopped, never one that failed or is gone.
ServedByRunning ==
    service # 0 => manager[service] = "up" \/ leaving = service

\* "Try again in a moment": after such an answer there will be a service, or a
\* status from which the next command starts an attempt, whatever overtook what.
PendingEnds ==
    (service = 0 /\ status \in {"running", "ready"})
        ~> (service # 0 \/ status \in {"idle", "failed"})
=============================================================================
