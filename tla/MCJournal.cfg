SPECIFICATION Spec
CONSTANTS
  Hooks = {user, assistant}
  MaxNotes = 3
  MaxChanges = 2
  MaxCrashes = 2
SYMMETRY MCSymmetry
INVARIANTS
  TypeOK
  
\* The numbers of notes and of proposals are bounded.
CHECK_DEADLOCK FALSE
