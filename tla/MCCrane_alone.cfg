SPECIFICATION CSpec
CONSTANTS
  m1 = m1
  m2 = m2
  Missions = {m1}
  Kind <- OneUnload
  After <- Fresh
  Extended = 50
  PartExtended = 105
  Retracted = 142
  Locked = 162
  StepsMax = 83
  StepsPart = 52
  StepsPart2 = 70
  BtSteps = 80
  BtBudget = 0
INVARIANTS
  TypeOK
  CraneOnlyWhenWinchStill
  DriftBounded
PROPERTIES
  ServoFollows
  Smooth
CHECK_DEADLOCK FALSE
