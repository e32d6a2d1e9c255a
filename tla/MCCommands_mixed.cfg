SPECIFICATION Spec
CONSTANTS
  b1 = b1
  b2 = b2
  Blocks = {b1, b2}
  Null = Null
  Stray = Stray
  Signals = {1}
  TeleBudget = 2
  BtBudget = 2
INVARIANTS
  TypeOK
  FreshHandle
  StartsAsAsked
  PongIsPing
PROPERTIES
  LastNoteHeard
  PingAnswered
CHECK_DEADLOCK FALSE
