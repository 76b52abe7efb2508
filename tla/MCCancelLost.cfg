SPECIFICATION FairSpec
CONSTANTS
  Sessions = {s1, s2, s3}
  NoSession = NoSession
  Artifacts = 1
  MaxRestart = 0
  Clients = {c1}
  Commands = {"work", "cancel"}
  Starts = {"planned"}
  MaxTasks = 1
  DownKinds = {}
  MaxDowns = 0
  HonestWorker = TRUE
  OpenSpecFails = FALSE
  ProbeReliable = TRUE
PROPERTIES
  CancelHappens
\* With nothing to do and no command the system rests.
CHECK_DEADLOCK FALSE
