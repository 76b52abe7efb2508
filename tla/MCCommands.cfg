SPECIFICATION FairSpec
CONSTANTS
  Sessions = {s1, s2, s3}
  NoSession = NoSession
  Artifacts = 1
  MaxRestart = 1
  Clients = {c1}
  Commands = {"work", "continue", "plan", "chat", "note", "pause", "cancel", "status", "archive", "propose"}
  Starts = {"proposed"}
  MaxTasks = 2
  DownKinds = {}
  MaxDowns = 0
  HonestWorker = TRUE
  OpenSpecFails = TRUE
  ProbeReliable = TRUE
INVARIANTS
  TypeOK
  
  SessionsReleased
  
  CancelStopsExecution
PROPERTIES
  EndsByWatcher
  
  
  
  CancelDuringTurn
  
\* With nothing to do and no command the system rests.
CHECK_DEADLOCK FALSE
