SPECIFICATION SSpec
CONSTANTS
  bt = bt
  train = train
  Clients = {bt, train}
  Calls <- StopCalls
  CallBudget = 7
  Targets = {0, 3}
  Accels = {1}
  Rpms = {0, 1, 3}
  Garbage <- ZeroGarbage
  Kp = 5
  Ki = 2
  MaxPwm = 8
  IMax = 4
  IFloor = 3
  InitialDuty = 4
  Train = train
  StopSignal = 1
  White = 80
  Black = 95
  Far = 170
  SlowDuty = 2
  Distances = {5, 7}
  Unit = 38
  Pulse = 2
INVARIANTS
  StopTypeOK
  StopsInFront
  RestAfterStop
PROPERTY CreepArrives
CHECK_DEADLOCK FALSE
