SPECIFICATION Spec
CONSTANTS
  a = a
  Data = {a}
  OutSize = 9
  InSize = 3
  Message <- MixedMessages
  MaxFrames = 4
  LossBudget = 4
INVARIANTS
  OneLossOneFrame
  IntactAfterIntact
CHECK_DEADLOCK FALSE
