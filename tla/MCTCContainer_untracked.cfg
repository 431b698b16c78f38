SPECIFICATION Spec
CONSTANTS
  Word = 8
  Packets <- OnePair
  Detect = FALSE
  AddrHash <- Hashes
  GuessWindow = 2
  Remto = 0
  SynSynackWait = 1
  FinFinackWait = 1
  MaxAge = 2
INVARIANTS
  AllAreTracked
