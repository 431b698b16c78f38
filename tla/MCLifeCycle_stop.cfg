SPECIFICATION FairSpec
CONSTANTS
  MaxQueue = 2
INVARIANTS
  TypeOK
  DeletedIsUnused
PROPERTIES
  LeavingEnds
  FailureEnds
CHECK_DEADLOCK FALSE   \* the program ends
