SPECIFICATION Spec
CONSTANTS
  Second = 1
  MinIntvl = 1
  MaxIntvl = 2
  Word = 16
  LongWord = 256
  Sizes = {4, 12}
  Epoch = 60
  Slack = 1
  Setback = 8
  MaxPackets = 2
  MaxKeys = 1
  MaxSets = 1
  MaxTime = 11
INVARIANTS
  TypeOK
  EveryByteOnce
PROPERTIES
  RateIsAverage
  RateFades
CHECK_DEADLOCK FALSE   \* time ends
