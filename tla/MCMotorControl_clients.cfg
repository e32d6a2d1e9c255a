SPECIFICATION Spec
CONSTANTS
  bt = bt
  mission = mission
  Clients = {bt, mission}
  Calls <- MotorCalls
  CallBudget = 3
  Targets <- MotorTargets
  Accels = {0, 2}
  Rpms = {0, 1, 3}
  Garbage <- Leftovers
  Kp = 5
  Ki = 2
  MaxPwm = 8
  IMax = 4
  IFloor = 3
  InitialDuty = 4
INVARIANTS
  TypeOK
  AtMostOneLateDuty
  OffUnlessLate
  ZeroTargetNoDrive
PROPERTIES
  RampArrives
  DirectionConverges
  ZeroTargetEventuallyStops
CHECK_DEADLOCK FALSE
