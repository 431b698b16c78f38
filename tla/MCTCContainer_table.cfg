SPECIFICATION FairSpec
CONSTANTS
  Word = 8
  Packets <- TwoPairs
  Detect = TRUE
  AddrHash <- Hashes
  GuessWindow = 2
  Remto = 0
  SynSynackWait = 1
  FinFinackWait = 1
  MaxAge = 2
INVARIANTS
  TypeOK
  FoundByItsPackets
PROPERTIES
  RefinesTable
  RemovedOnlyWhenSilent
  ClosedIsFinal
  AddedOnEvidence
  ClosedIsRemoved
  SilentIsRemoved
