---------------------------- MODULE MCStopDrive ----------------------------
(* Values for the constants of StopDrive: the limits of the source in       *)
(* millimetres, a train that moves by 38 or 76.                             *)
EXTENDS StopDrive

CONSTANTS bt, train

StopCalls == [c \in {bt, train} |->
  IF c = bt THEN {"setRPM", "setMotDir"}
  ELSE {"setRPM", "setMotDir", "enable", "disable"}]
ZeroGarbage == {0}
=============================================================================
