SPECIFICATION Spec
CONSTANTS
  a = a
  Data = {a}
  OutSize = 6
  InSize = 6
  Message <- LosslessMessages
  MaxFrames = 3
  LossBudget = 0
INVARIANT TypeOK
PROPERTIES
  TruncatedNeverSent
  LinkSpec
CHECK_DEADLOCK FALSE
