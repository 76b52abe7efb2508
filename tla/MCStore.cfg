SPECIFICATION Spec
CONSTANTS
  Calls = {q1, q2, q3}
  Channels = {a, b}
  Repos = {r, s}
  None = None
  Kinds = {"get", "list", "touch", "use", "propose", "finish", "archive"}
  Overlap = FALSE
  MaxCrashes = 1
SYMMETRY MCSymmetry
INVARIANTS
  TypeOK
  OpenChangesKept
  UpdatesAtomic
  UpdatesKept
  NoneStuck
\* Every request is made at most once.
CHECK_DEADLOCK FALSE
