SPECIFICATION FairSpec
CONSTANTS
  Packets = {p1, p2, p3}
  None = None
  MaxSpurious = 2
INVARIANTS
  TypeOK
  NoQueueRace
  DrainedBeforeSwap
  LiveIsOwned
PROPERTIES
  NothingAfterDetach
  RefinesFifo
  RefinesFairFifo
  SnifferReturns
CHECK_DEADLOCK FALSE   \* all packets handled, the program stopped
