------------------------- MODULE MotorControlProofs -------------------------
(***************************************************************************)
(* Proofs about MotorControl, for any clients, any calls and targets, any  *)
(* gains and limits, any speeds and any garbage in the fresh pid block.    *)
(***************************************************************************)
EXTENDS MotorControl, TLAPS

LEMMA NonPositiveProduct ==
  ASSUME NEW k \in Nat \ {0}, NEW x \in Int, x <= 0
  PROVE  k * x \in Int /\ k * x <= 0
OBVIOUS

LEMMA RawPwmType ==
  ASSUME TypeOK, NEW e \in Int  PROVE RawPwm(e) \in Int
BY MotorAssumption DEF TypeOK, RawPwm

\* What LAccumulate stores is a sum within the limits.
LEMMA SumsType ==
  ASSUME NEW i \in Int, NEW e \in Int, i <= IMax, NEW s \in Sums(i, e)
  PROVE  s \in Int /\ s <= IMax
BY MotorAssumption DEF Sums, Least

\* Adding no positive error to no positive integral leaves none.
LEMMA SumsNonPositive ==
  ASSUME NEW i \in Int, NEW e \in Int, i <= 0, e <= 0, NEW s \in Sums(i, e)
  PROVE  s <= 0
BY MotorAssumption DEF Sums, Least

\* The three ways through the PI sum and the gate.
ControlOutcome(rpm) ==
  /\ error' = pidTarget - rpm
  /\ \/ /\ controlEnable = 1 /\ RawPwm(pidTarget - rpm) >= 0
        /\ pwm' = Least(RawPwm(pidTarget - rpm), MaxPwm)
        /\ lpc' = "direction"
        /\ UNCHANGED <<integral, missed, outPins>>
     \/ /\ controlEnable = 1
        /\ pwm' = 0 /\ outPins' = Brake /\ lpc' = "pin1"
        /\ UNCHANGED <<integral, missed>>
     \/ /\ controlEnable = 0
        /\ integral' = 0 /\ missed' = FALSE /\ lpc' = "accumulate"
        /\ UNCHANGED <<pwm, outPins>>

LEMMA ControlCases ==
  ASSUME LControl
  PROVE  \E rpm \in Rpms : ControlOutcome(rpm)
BY DEF LControl, ControlOutcome

-----------------------------------------------------------------------------
LEMMA TypeStep ==
  ASSUME TypeOK, [Next]_vars  PROVE TypeOK'
<1>. USE DEF TypeOK, Driving
<1>1. CASE LBoot
  BY <1>1 DEF LBoot, globals, outputs, clients, history
<1>2. CASE LCompare
  BY <1>2, MotorAssumption DEF LCompare, globals, outputs, clients
<1>3. CASE LRamp
  BY <1>3 DEF LRamp, globals, outputs, clients, Least
<1>4. CASE LControl
  <2>1. PICK rpm \in Rpms : ControlOutcome(rpm)
    BY <1>4, ControlCases
  <2>2. pidTarget - rpm \in Int
    BY MotorAssumption
  <2>3. RawPwm(pidTarget - rpm) \in Int
    BY <2>2, RawPwmType
  <2>4. pwm' \in 0..MaxPwm
    BY <2>1, <2>3, MotorAssumption DEF ControlOutcome, Least
  <2>5. missed' \in BOOLEAN
    BY <2>1 DEF ControlOutcome
  <2>6. outPins' \in {Forward, Backward, Brake}
    BY <2>1 DEF ControlOutcome
  <2>7. /\ integral' \in Int /\ integral' <= IMax /\ error' \in Int
        /\ lpc' \in {"direction", "pin1", "accumulate"}
    BY <2>1, <2>2, MotorAssumption DEF ControlOutcome
  <2>. QED
    BY <1>4, <2>4, <2>5, <2>6, <2>7 DEF LControl, globals, outputs, clients
<1>5. CASE LDirection
  BY <1>5 DEF LDirection, PinsOf, globals, outputs, clients, history
<1>6. CASE LPin1
  BY <1>6 DEF LPin1, Forward, Backward, Brake, globals, clients, history
<1>7. CASE LPin2
  BY <1>7 DEF LPin2, Forward, Backward, Brake, globals, clients, history
<1>8. CASE LDuty
  BY <1>8 DEF LDuty, globals, clients
<1>9. CASE LAccumulate
  BY <1>9, SumsType DEF LAccumulate, globals, outputs, clients, history
<1>10. ASSUME NEW c \in Clients, SetRPM(c)  PROVE TypeOK'
  BY <1>10, MotorAssumption DEF SetRPM, Call, outputs, loop, history
<1>11. ASSUME NEW c \in Clients, SetAccel(c)  PROVE TypeOK'
  BY <1>11, MotorAssumption DEF SetAccel, Call, outputs, loop, history
<1>12. ASSUME NEW c \in Clients, SetMotDir(c)  PROVE TypeOK'
  BY <1>12, MotorAssumption DEF SetMotDir, Call, outputs, loop, history
<1>13. ASSUME NEW c \in Clients, DirPin1(c)  PROVE TypeOK'
  BY <1>13 DEF DirPin1, PinsOf, Forward, Backward, globals, loop, history
<1>14. ASSUME NEW c \in Clients, DirPin2(c)  PROVE TypeOK'
  BY <1>14 DEF DirPin2, PinsOf, Forward, Backward, globals, loop, history
<1>15. ASSUME NEW c \in Clients, EnableMotorControl(c)  PROVE TypeOK'
  BY <1>15, MotorAssumption DEF EnableMotorControl, Call, outputs, loop
<1>16. ASSUME NEW c \in Clients, DisableMotorControl(c)  PROVE TypeOK'
  BY <1>16, MotorAssumption DEF DisableMotorControl, Call, outputs, loop
<1>17. ASSUME NEW c \in Clients, DutyOff(c)  PROVE TypeOK'
  BY <1>17, MotorAssumption DEF DutyOff, globals, loop, history
<1>18. CASE UNCHANGED vars
  BY <1>18 DEF vars, globals, outputs, loop, clients, history
<1>. QED
  BY <1>1, <1>2, <1>3, <1>4, <1>5, <1>6, <1>7, <1>8, <1>9, <1>10, <1>11,
     <1>12, <1>13, <1>14, <1>15, <1>16, <1>17, <1>18
     DEF Next, MotCntrlTask, Client, Return

LEMMA MotorInitType ==
  ASSUME Init  PROVE TypeOK
<1>1. same \in BOOLEAN /\ missed \in BOOLEAN
  BY DEF Init
<1>2. /\ pinF \in {0, 1} /\ pinR \in {0, 1}
      /\ outPins \in {Forward, Backward, Brake}
  BY DEF Init, Brake
<1>3. /\ targetRPM \in Int /\ accel \in Nat /\ controlEnable \in {0, 1}
      /\ motdir \in {"FORWARD", "BACKWARD"} /\ duty \in 0..MaxPwm
      /\ lpc = "boot" /\ pidTarget \in Int
      /\ integral \in Int /\ integral <= IMax
      /\ error \in Int /\ pwm \in 0..MaxPwm
      /\ calls \in 0..CallBudget /\ late \in Nat
  BY MotorAssumption DEF Init
<1>4. /\ cpc \in [Clients -> {"idle", "dirPin1", "dirPin2", "dutyOff"}]
      /\ cdir \in [Clients -> {"FORWARD", "BACKWARD"}]
  BY DEF Init
<1>. QED  BY <1>1, <1>2, <1>3, <1>4 DEF TypeOK

\* The values of every variable stay in range; in particular the duty cycle
\* stays within 0..MaxPwm and the integral below its limit.
THEOREM MotorTypeCorrect == Spec => []TypeOK
<1>1. Init => TypeOK
  BY MotorInitType
<1>2. TypeOK /\ [Next]_vars => TypeOK'
  BY TypeStep
<1>. QED  BY <1>1, <1>2, PTL DEF Spec

-----------------------------------------------------------------------------
\* An iteration that is past the gate when control goes off writes the duty
\* once and ends there; the next one stops at the gate.
LateInv ==
  /\ controlEnable = 1 => late = 0
  /\ late <= 1
  /\ late = 1 => lpc \notin Driving

LEMMA LateInvStep ==
  ASSUME TypeOK, LateInv, [Next]_vars  PROVE LateInv'
<1>. USE DEF LateInv, Driving
<1>1. CASE LControl
  <2>1. controlEnable = 1 \/ lpc' = "accumulate"
    BY <1>1 DEF LControl
  <2>. QED  BY <1>1, <2>1 DEF LControl, TypeOK, globals
<1>2. CASE LDuty
  BY <1>2 DEF LDuty, TypeOK, globals
<1>3. CASE LBoot \/ LCompare \/ LRamp \/ LAccumulate
  BY <1>3 DEF LBoot, LCompare, LRamp, LAccumulate, globals, history
<1>4. CASE LDirection \/ LPin1 \/ LPin2
  BY <1>4 DEF LDirection, LPin1, LPin2, globals, history
<1>5. ASSUME NEW c \in Clients, Client(c)  PROVE LateInv'
  <2>1. CASE SetRPM(c) \/ SetAccel(c) \/ SetMotDir(c) \/ Return(c)
    BY <2>1 DEF SetRPM, SetAccel, SetMotDir, Return, DirPin1, DirPin2, DutyOff,
                globals, loop, history
  <2>2. CASE EnableMotorControl(c) \/ DisableMotorControl(c)
    BY <2>2 DEF EnableMotorControl, DisableMotorControl, loop
  <2>. QED  BY <1>5, <2>1, <2>2 DEF Client
<1>6. CASE UNCHANGED vars
  BY <1>6 DEF vars, globals, loop, history
<1>. QED
  BY <1>1, <1>2, <1>3, <1>4, <1>5, <1>6 DEF Next, MotCntrlTask

\* After control was switched off the loop writes the duty at most once more.
THEOREM OneLateDuty == Spec => []AtMostOneLateDuty
<1>1. Init => LateInv
  BY DEF Init, LateInv, Driving
<1>2. TypeOK /\ LateInv /\ [Next]_vars => LateInv'
  BY LateInvStep
<1>3. LateInv => AtMostOneLateDuty
  BY DEF LateInv, AtMostOneLateDuty
<1>. QED  BY <1>1, <1>2, <1>3, MotorTypeCorrect, PTL DEF Spec

LEMMA OffStep ==
  ASSUME TypeOK, OffUnlessLate, [Next]_vars  PROVE OffUnlessLate'
<1>. USE DEF OffUnlessLate
<1>1. CASE LDuty
  BY <1>1 DEF LDuty, TypeOK, globals, clients
<1>2. CASE LBoot \/ LCompare \/ LRamp \/ LControl
  BY <1>2 DEF LBoot, LCompare, LRamp, LControl, globals, outputs, clients,
              history
<1>3. CASE LDirection \/ LPin1 \/ LPin2 \/ LAccumulate
  BY <1>3 DEF LDirection, LPin1, LPin2, LAccumulate, globals, outputs, clients,
              history
<1>4. ASSUME NEW c \in Clients, Client(c)  PROVE OffUnlessLate'
  <2>1. CASE SetRPM(c) \/ SetAccel(c)
    BY <2>1 DEF SetRPM, SetAccel, Call, outputs, history
  <2>2. CASE SetMotDir(c) \/ DirPin1(c) \/ DirPin2(c)
    <3>1. \A d \in Clients : cpc[d] = "dutyOff" => cpc'[d] = "dutyOff"
      BY <2>2 DEF SetMotDir, DirPin1, DirPin2, Call, TypeOK
    <3>. QED
      BY <2>2, <3>1 DEF SetMotDir, DirPin1, DirPin2, globals, outputs, history
  <2>3. CASE EnableMotorControl(c)
    BY <2>3 DEF EnableMotorControl
  <2>4. CASE DisableMotorControl(c)
    BY <2>4 DEF DisableMotorControl, TypeOK
  <2>5. CASE DutyOff(c)
    BY <2>5 DEF DutyOff
  <2>. QED  BY <1>4, <2>1, <2>2, <2>3, <2>4, <2>5 DEF Client, Return
<1>5. CASE UNCHANGED vars
  BY <1>5 DEF vars, globals, outputs, clients, history
<1>. QED
  BY <1>1, <1>2, <1>3, <1>4, <1>5 DEF Next, MotCntrlTask

\* Control off, every disableMotorControl returned and no late write: the
\* duty is zero, for any number of tasks switching control on and off.
THEOREM OffIsOff == Spec => []OffUnlessLate
<1>1. Init => OffUnlessLate
  BY DEF Init, OffUnlessLate
<1>2. TypeOK /\ OffUnlessLate /\ [Next]_vars => OffUnlessLate'
  BY OffStep
<1>. QED  BY <1>1, <1>2, MotorTypeCorrect, PTL DEF Spec

-----------------------------------------------------------------------------
\* Where the integral can still be positive although the target is not: only
\* between a comparison that found a change and the ramp that takes it over,
\* and there it is zero; or after a change the comparison did not see.
WindInv ==
  /\ pidTarget <= 0 /\ ~missed /\ (lpc = "ramp" => same) => integral <= 0
  /\ lpc = "ramp" /\ ~same => integral = 0
  /\ lpc \in Driving \cup {"accumulate"} => error <= pidTarget
  /\ ZeroTargetNoDrive

LEMMA WindInvStep ==
  ASSUME TypeOK, WindInv, [Next]_vars  PROVE WindInv'
<1>. USE DEF WindInv, ZeroTargetNoDrive, Driving
<1>1. CASE LBoot
  BY <1>1 DEF LBoot, history
<1>2. CASE LCompare
  <2>1. CASE pidTarget = targetRPM
    <3>1. same' /\ (missed' => missed) /\ (~missed' => ~missed)
      BY <1>2, <2>1 DEF LCompare, TypeOK
    <3>2. integral' = integral /\ pidTarget' = pidTarget /\ lpc' = "ramp"
      BY <1>2, <3>1 DEF LCompare
    <3>. QED  BY <1>2, <3>1, <3>2 DEF LCompare
  <2>2. CASE pidTarget # targetRPM
    <3>1. ~same' /\ integral' = 0 /\ lpc' = "ramp"
      BY <1>2, <2>2 DEF LCompare
    <3>. QED  BY <3>1
  <2>. QED  BY <2>1, <2>2
<1>3. CASE LRamp
  <2>1. CASE same
    <3>1. CASE pidTarget = targetRPM
      <4>1. /\ pidTarget' = pidTarget /\ integral' = integral
            /\ lpc = "ramp" /\ lpc' = "control"
        BY <1>3, <3>1 DEF LRamp, TypeOK
      <4>2. ~missed' => ~missed
        BY <1>3 DEF LRamp
      <4>. QED  BY <2>1, <4>1, <4>2
    <3>2. CASE pidTarget # targetRPM
      <4>1. missed' /\ lpc' = "control"
        BY <1>3, <2>1, <3>2 DEF LRamp
      <4>. QED  BY <4>1
    <3>. QED  BY <3>1, <3>2
  <2>2. CASE ~same
    BY <1>3, <2>2 DEF LRamp, TypeOK
  <2>. QED  BY <2>1, <2>2
<1>4. CASE LControl
  <2>1. PICK rpm \in Rpms : ControlOutcome(rpm)
    BY <1>4, ControlCases
  <2>2. /\ pidTarget - rpm \in Int /\ pidTarget - rpm <= pidTarget
        /\ pidTarget' = pidTarget /\ error' = pidTarget - rpm
    BY <1>4, <2>1, MotorAssumption DEF LControl, TypeOK, ControlOutcome
  <2>3. pidTarget <= 0 /\ ~missed => RawPwm(pidTarget - rpm) <= 0
    <3>. SUFFICES ASSUME pidTarget <= 0, ~missed
                  PROVE  RawPwm(pidTarget - rpm) <= 0
      OBVIOUS
    <3>1. Kp * (pidTarget - rpm) \in Int /\ Kp * (pidTarget - rpm) <= 0
      BY <2>2, NonPositiveProduct, MotorAssumption DEF TypeOK
    <3>2. Ki * integral \in Int /\ Ki * integral <= 0
      BY <1>4, NonPositiveProduct, MotorAssumption DEF LControl, TypeOK
    <3>. QED  BY <3>1, <3>2 DEF RawPwm
  <2>4. CASE lpc' = "direction"
    <3>1. RawPwm(pidTarget - rpm) >= 0 /\ pwm' = Least(RawPwm(pidTarget - rpm), MaxPwm)
          /\ UNCHANGED <<integral, missed>>
      BY <2>1, <2>4 DEF ControlOutcome
    <3>2. pidTarget <= 0 /\ ~missed => pwm' = 0
      BY <2>2, <2>3, <3>1, RawPwmType, MotorAssumption DEF Least
    <3>. QED  BY <1>4, <2>1, <2>2, <2>4, <3>1, <3>2 DEF LControl
  <2>5. CASE lpc' = "pin1"
    BY <1>4, <2>1, <2>2, <2>5 DEF ControlOutcome, LControl
  <2>6. CASE lpc' = "accumulate"
    BY <1>4, <2>1, <2>2, <2>6 DEF ControlOutcome, LControl
  <2>. QED  BY <2>1, <2>4, <2>5, <2>6 DEF ControlOutcome
<1>5. CASE LDirection \/ LPin1 \/ LPin2 \/ LDuty
  BY <1>5 DEF LDirection, LPin1, LPin2, LDuty, history
<1>6. CASE LAccumulate
  BY <1>6, SumsNonPositive DEF LAccumulate, TypeOK, history
<1>7. ASSUME NEW c \in Clients, Client(c)  PROVE WindInv'
  BY <1>7 DEF Client, Return, SetRPM, SetAccel, SetMotDir, DirPin1, DirPin2,
     EnableMotorControl, DisableMotorControl, DutyOff, loop, history
<1>8. CASE UNCHANGED vars
  BY <1>8 DEF vars, loop, history
<1>. QED
  BY <1>1, <1>2, <1>3, <1>4, <1>5, <1>6, <1>7, <1>8 DEF Next, MotCntrlTask

\* A target of zero (or below) is not driven towards: a change of the target
\* that the comparison sees throws away everything the integral had.
THEOREM ZeroTargetIsNotDriven == Spec => []ZeroTargetNoDrive
<1>1. Init => WindInv
  BY DEF Init, WindInv, ZeroTargetNoDrive, Driving
<1>2. TypeOK /\ WindInv /\ [Next]_vars => WindInv'
  BY WindInvStep
<1>3. WindInv => ZeroTargetNoDrive
  BY DEF WindInv
<1>. QED  BY <1>1, <1>2, <1>3, MotorTypeCorrect, PTL DEF Spec
=============================================================================
