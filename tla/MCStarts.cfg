SPECIFICATION FairSpec
CONSTANT
  MaxRunners = 4
INVARIANTS
  TypeOK
  NoOrphans
  ServedByRunning
PROPERTIES
  PendingEnds
\* The attempts are bounded, and nobody need start the plugin.
CHECK_DEADLOCK FALSE
