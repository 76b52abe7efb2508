SPECIFICATION Spec
CONSTANTS
  Names = {m, n}
  None = None
  Files = {f, g}
  MaxCrashes = 2
SYMMETRY MCSymmetry
INVARIANTS
  TypeOK
  CancelRestores
PROPERTIES
  OthersKept
\* Nothing need happen in a repository.
CHECK_DEADLOCK FALSE
