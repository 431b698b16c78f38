SPECIFICATION Spec
CONSTANTS
  Word = 128
  ClientAddr = hostA
  ServerAddr = hostA
  ClientPort = 2
  ServerPort = 1
  Version = 4
  ISS <- SmallISS
  Budgets <- OrderlyOnly
INVARIANTS
  ClosedMeansBothClosed
CHECK_DEADLOCK FALSE   \* a conversation ends
