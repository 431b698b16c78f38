SPECIFICATION Spec
CONSTANTS
  Word = 128
  ClientAddr = hostA
  ServerAddr = hostB
  ClientPort = 2
  ServerPort = 1
  Version = 6
  ISS <- SmallISS
  Budgets <- OrderlyOnly
INVARIANTS
  QuietMeansFinished
CHECK_DEADLOCK FALSE   \* a conversation ends
