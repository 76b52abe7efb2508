---------------------------- MODULE BootstrapProofs ----------------------------
(* What holds of the bootstrap for any number of attempts.                 *)
EXTENDS Bootstrap, TLAPS

\* A runner has a manager only from its last report on, a manager that was
\* published is one of a runner that is through, and stop() waits for one only
\* while the plugin leaves.
Placed ==
    /\ \A r \in Runners : runner[r] \in {"none", "check"} => manager[r] = "none"
    /\ published # 0 => runner[published] = "done"
    /\ leaving # 0 => host = "leaving" /\ runner[leaving] = "done"

\* As long as no stop() came upon a runner in flight: the coordinator waits for
\* whatever is under way, and what is published is at work or being stopped.
Attended ==
    overtaken = {} =>
        /\ \A r \in Runners :
              /\ runner[r] \in Busy => inFlight = r
              /\ manager[r] = "up" => published = r
              /\ manager[r] = "starting" => runner[r] = "start"
              /\ manager[r] = "stopping" => runner[r] = "failing" \/ leaving = r
        /\ published # 0 => status = "ready" /\ inFlight = 0 /\ service = published
        /\ host = "leaving" =>
              leaving # 0 /\ published = leaving /\ manager[leaving] = "stopping"

BootInv == TypeOK /\ Placed /\ Attended /\ ServedByRunning

-----------------------------------------------------------------------------
(* Steps.                                                                  *)

\* At the start the service bootstraps nothing.
LEMMA InitBoot == Init => BootInv
  BY MaxRunnersAssumption
  DEF Init, BootInv, TypeOK, Placed, Attended, ServedByRunning, Runners, Busy

\* A runner, of whatever age, gets on.
LEMMA AdvanceBoot ==
    ASSUME BootInv, NEW r \in Runners, Report(r) \/ Advance(r)
    PROVE  BootInv'
<1> USE MaxRunnersAssumption DEF BootInv, TypeOK, Placed, Attended, ServedByRunning, Runners, Busy
<1>1. CASE Report(r)
  BY <1>1 DEF Report
<1>2. CASE CheckFails(r)
  BY <1>2 DEF CheckFails
<1>3. CASE Create(r)
  BY <1>3 DEF Create
<1>4. CASE StartFails(r)
  BY <1>4 DEF StartFails
<1>5. CASE Ready(r)
  BY <1>5 DEF Ready, PublishedManager
<1>6. CASE Failed(r)
  BY <1>6 DEF Failed, FailureStatus
<1> QED
  BY <1>1, <1>2, <1>3, <1>4, <1>5, <1>6 DEF Advance

\* A start finds nothing published and nobody at work.
LEMMA BeginBoot ==
    ASSUME BootInv, StartsRunner, Begin,
           UNCHANGED <<manager, leaving, overtaken>>,
           host' = host \/ (host = "off" /\ host' = "on")
    PROVE  BootInv'
<1> USE MaxRunnersAssumption DEF BootInv, TypeOK, Placed, Attended, ServedByRunning, Runners, Busy
<1>1. PICK r \in Runners :
        /\ runner[r] = "none"
        /\ runner' = [runner EXCEPT ![r] = "check"]
        /\ inFlight' = r
        /\ status' = "running"
        /\ service' = 0 /\ published' = 0
  BY DEF Begin
<1> QED
  BY <1>1 DEF StartsRunner

\* The invariant when the host starts or stops the service, and when a command comes.
LEMMA HostBoot ==
    ASSUME BootInv, HostStarts \/ Command \/ HostStops \/ HostStopped
    PROVE  BootInv'
<1>1. CASE HostStarts
  <2>1. CASE StartsRunner /\ Begin
    BY <1>1, <2>1, BeginBoot DEF HostStarts
  <2>2. CASE UNCHANGED <<status, inFlight, runner, published, service>>
    BY <1>1, <2>2 DEF HostStarts, BootInv, TypeOK, Placed, Attended, ServedByRunning, Runners, Busy
  <2> QED
    BY <1>1, <2>1, <2>2 DEF HostStarts
<1>2. CASE Command
  BY <1>2, BeginBoot DEF Command
<1>3. CASE HostStops
  BY <1>3, MaxRunnersAssumption
  DEF HostStops, BootInv, TypeOK, Placed, Attended, ServedByRunning, Runners, Busy
<1>4. CASE HostStopped
  <2> USE <1>4, MaxRunnersAssumption DEF HostStopped, Runners, Busy
  <2>1. TypeOK'
    <3>1. manager' \in [Runners -> {"none", "starting", "up", "stopping", "stopped"}]
      BY DEF BootInv, TypeOK
    <3>2. overtaken' \subseteq Runners
      BY DEF InFlight, BootInv, TypeOK
    <3> QED
      BY <3>1, <3>2 DEF BootInv, TypeOK, ServiceAfterStop
  <2>2. Placed'
    BY DEF BootInv, TypeOK, Placed
  <2>3. Attended'
    <3>1. SUFFICES ASSUME overtaken' = {}
                   PROVE  Attended'
      BY DEF Attended
    <3>2. overtaken = {} /\ \A r \in Runners : runner[r] \notin Busy
      BY <3>1 DEF InFlight
    <3>3. \A r \in Runners : manager[r] # "starting" /\ (manager[r] = "stopping" => leaving = r)
      BY <3>2 DEF BootInv, Attended
    <3>4. \A r \in Runners : manager[r] = "up" => leaving = 0 /\ published = r
      BY <3>2 DEF BootInv, Attended, Placed
    <3>5. \A r \in Runners : manager'[r] \notin {"up", "starting", "stopping"}
      BY <3>2, <3>3, <3>4 DEF BootInv, TypeOK, Attended
    <3> QED
      BY <3>2, <3>5 DEF Attended
  <2>4. ServedByRunning'
    BY DEF ServedByRunning, ServiceAfterStop
  <2> QED
    BY <2>1, <2>2, <2>3, <2>4 DEF BootInv
<1> QED
  BY <1>1, <1>2, <1>3, <1>4

-----------------------------------------------------------------------------
(* Results.                                                                *)

\* The invariant above holds of every reachable state of the bootstrap.
THEOREM BootInvariant == Spec => []BootInv
<1>1. BootInv /\ UNCHANGED vars => BootInv'
  BY DEF vars, BootInv, TypeOK, Placed, Attended, ServedByRunning, Runners, Busy
<1>2. BootInv /\ [Next]_vars => BootInv'
  BY <1>1, AdvanceBoot, HostBoot DEF Next
<1> QED
  BY InitBoot, <1>2, PTL DEF Spec

\* The variables of src/bootstrap/state.ts and of the plugin have their types,
\* whatever starts, stops and failures come together.
THEOREM BootstrapTypes == Spec => []TypeOK
<1>1. BootInv => TypeOK
  BY DEF BootInv
<1> QED
  BY <1>1, BootInvariant, PTL

\* A manager that may work is in somebody's hands, for any number of attempts,
\* until a stop() comes upon a runner in flight (src/index.ts).
THEOREM Orphans == Spec => []NoOrphans
<1>1. BootInv => NoOrphans
  BY DEF BootInv, Attended, NoOrphans, Busy, Runners
<1> QED
  BY <1>1, BootInvariant, PTL

\* A command is served by a manager at work or just being stopped, also after
\* stops that came upon runners in flight (src/index.ts).
THEOREM Served == Spec => []ServedByRunning
<1>1. BootInv => ServedByRunning
  BY DEF BootInv
<1> QED
  BY <1>1, BootInvariant, PTL
=============================================================================
