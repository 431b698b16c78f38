SPECIFICATION Spec
CONSTANTS
  Word = 128
  ClientAddr = hostA
  ServerAddr = hostB
  ClientPort = 2
  ServerPort = 1
  Version = 4
  ISS <- WrapISS
  Budgets <- Disturbed
INVARIANTS
  TypeOK
  ClosedMeansBothClosed
  QuietMeansFinished
  AbortedMeansFinished
  UpMeansOpened
CHECK_DEADLOCK FALSE   \* a conversation ends
