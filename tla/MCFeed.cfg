SPECIFICATION FairSpec
CONSTANTS
  MaxLines = 4
  MaxDowns = 2
INVARIANTS
  TypeOK
  OffsetsTold
PROPERTIES
  ToldInOrder
  CompletionLast
  
\* The system may rest without a run.
CHECK_DEADLOCK FALSE
