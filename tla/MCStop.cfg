SPECIFICATION FairSpec
CONSTANTS
  Sessions = {s1, s2, s3}
  NoSession = NoSession
  Artifacts = 2
  MaxRestart = 1
  Clients = {c1}
  Commands = {"work", "pause"}
  Starts = {"planned", "interrupted"}
  MaxTasks = 1
  DownKinds = {"stop", "crash"}
  MaxDowns = 1
  HonestWorker = FALSE
  OpenSpecFails = FALSE
  ProbeReliable = FALSE
INVARIANTS
  
  RunningIsAttended
  ExecMatchesStatus
PROPERTIES
  StartsOnCommand
  EndsByWatcher
  RunsAttended
\* With nothing to do and no command the system rests.
CHECK_DEADLOCK FALSE
