SPECIFICATION FairSpec
CONSTANTS
  a1 = a1
  a2 = a2
  b1 = b1
  a = a
  b = b
  Processes = {a, b}
  Callers = {a1, a2, b1}
  Home <- MCHome
  Retries = 2
  Faults = {"crash", "write", "slow"}
  MaxFaults = 2
INVARIANTS
  TypeOK
  ExclusiveUnlessRobbed
PROPERTIES
  ImplementsProcessLock
  CallsReturn
