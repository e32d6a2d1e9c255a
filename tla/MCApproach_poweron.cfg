SPECIFICATION Spec
CONSTANTS
  Retries = 2
  Distances = {0, 2, 4}
  Owed = 1
  Limit = 2
  Cruise = 300
  Window = 5
  DriveOn = 1
  Braking = 1
  Starts = {6}
INVARIANTS
  TypeOK
  StopsForCause
  NotPassed
PROPERTIES
  TakesOwnAnswer
  ApproachEnds
CHECK_DEADLOCK FALSE
