SPECIFICATION Spec
CONSTANTS
  Calls = {q1, q2, q3}
  Channels = {a, b}
  Repos = {r}
  None = None
  Kinds = {"use", "propose"}
  Overlap = TRUE
  MaxCrashes = 0
SYMMETRY MCSymmetry
INVARIANTS
  OneChangePerRepo
\* Every request is made at most once.
CHECK_DEADLOCK FALSE
