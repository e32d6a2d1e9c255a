--------------------------- MODULE MCMotorControl ---------------------------
(* Values for the constants of MotorControl.  The gains keep their ratio    *)
(* 0.1 : 0.04.                                                              *)
EXTENDS MotorControl

CONSTANTS bt, mission

\* btParse can call everything, a mission what crane_task calls.
MotorCalls == [c \in {bt, mission} |->
  IF c = bt THEN Functions ELSE {"setRPM", "setMotDir", "enable"}]
Leftovers == {-2, 3}
\* Telemetry stores any int32_t into targetRPM.
MotorTargets == {-2, 0, 3}
=============================================================================
