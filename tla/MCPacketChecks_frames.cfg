SPECIFICATION Spec
CONSTANTS
  Frames <- TestFrames
INVARIANTS
  TypeOK
  AssertionsHold
  FieldsCaptured
  CorrectIsAccepted
CHECK_DEADLOCK FALSE   \* one frame, then nothing
