SPECIFICATION Spec
CONSTANTS
  m1 = m1
  m2 = m2
  Missions = {m1, m2}
  Kind <- CraneAndUnload
  StepsMax = 3
  StepsPart = 1
  StepsPart2 = 2
  BtSteps = 2
  BtBudget = 1
PROPERTY MissionsComplete
CHECK_DEADLOCK FALSE
