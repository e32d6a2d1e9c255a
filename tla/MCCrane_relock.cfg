SPECIFICATION CSpec
CONSTANTS
  m1 = m1
  m2 = m2
  Missions = {m1, m2}
  Kind <- CraneAndUnload
  After <- OneThenTheOther
  Extended = 50
  PartExtended = 105
  Retracted = 142
  Locked = 162
  StepsMax = 3
  StepsPart = 1
  StepsPart2 = 2
  BtSteps = 2
  BtBudget = 0
PROPERTY ServoFollows
CHECK_DEADLOCK FALSE
