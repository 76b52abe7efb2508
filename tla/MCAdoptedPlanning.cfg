SPECIFICATION FairSpec
CONSTANTS
  Sessions = {s1, s2, s3}
  NoSession = NoSession
  Artifacts = 1
  MaxRestart = 0
  Clients = {c1}
  Commands = {"work"}
  Starts = {"interrupted"}
  MaxTasks = 1
  DownKinds = {"crash"}
  MaxDowns = 1
  HonestWorker = TRUE
  OpenSpecFails = FALSE
  ProbeReliable = TRUE
PROPERTIES
  PlanningTurnsEnd
\* With nothing to do and no command the system rests.
CHECK_DEADLOCK FALSE
