SPECIFICATION FairSpec
CONSTANTS
  MaxQueue = 2
PROPERTIES
  QuitIsHeard
CHECK_DEADLOCK FALSE   \* the program ends
