---------------------------- MODULE MotorControl ----------------------------
(***************************************************************************)
(* The motor controller of src/src/motController.c: the PI loop of         *)
(* motCntrlTask and the functions other tasks call (setRPM, setAccel,      *)
(* setMotDir, enableMotorControl, disableMotorControl).                    *)
(*                                                                         *)
(* Nothing is locked.  The loop and its callers share targetRPM, accel,    *)
(* controlEnable and motdir, the two direction pins and the duty cycle, so *)
(* each load and each store of one of them is a step.  The gains are       *)
(* scaled to whole numbers: a duty of Kp*error + Ki*integral and a limit   *)
(* MaxPwm, all in the same unit.  The speed is whatever the sensor         *)
(* reports: zero from the period of ten seconds it starts with, and then   *)
(* positive, because a standing motor reads as M_TIMEOUT per step (22 RPM).*)
(***************************************************************************)
EXTENDS Integers

CONSTANTS
  Clients,       \* the tasks that call the controller
  Calls,         \* Calls[c]: the functions client c uses
  CallBudget,    \* bound: number of calls in a behaviour
  Targets,       \* arguments of setRPM
  Accels,        \* arguments of setAccel
  Rpms,          \* speeds the sensor can report
  Garbage,       \* what pid->targetRPM can hold after pvPortMalloc
  Kp, Ki, MaxPwm, IMax,
  InitialDuty,   \* cmpr_a of mcpwm_example_config
  IFloor         \* bound: integral -IFloor stands for itself and all below

Functions == {"setRPM", "setAccel", "setMotDir", "enable", "disable"}

ASSUME MotorAssumption ==
  /\ Calls \in [Clients -> SUBSET Functions]
  /\ CallBudget \in Nat
  /\ Targets \subseteq Int /\ Accels \subseteq Nat /\ Garbage \subseteq Int
  /\ Rpms \subseteq Nat
  /\ Kp \in Nat \ {0} /\ Ki \in Nat \ {0}
  /\ MaxPwm \in Nat /\ IMax \in Nat /\ IFloor \in Nat
  /\ InitialDuty \in 0..MaxPwm

VARIABLES
  targetRPM, accel, controlEnable, motdir,  \* the globals
  pinF, pinR, duty,                         \* MC_FORWARD, MC_REVERSE, the PWM
  lpc,           \* where motCntrlTask stands in its loop
  pidTarget, integral, error, pwm,          \* fields of *pid
  same,          \* outcome of the last pid->targetRPM == targetRPM
  outPins,       \* the levels the loop is writing to the pins
  cpc, cdir,     \* per client: control point, direction being set
  calls,         \* calls still to come
  late,          \* history: duty writes of the loop since control went off
  missed         \* history: the target changed behind the integral's reset

globals == <<targetRPM, accel, controlEnable, motdir>>
outputs == <<pinF, pinR, duty>>
loop    == <<lpc, pidTarget, integral, error, pwm, same, outPins>>
clients == <<cpc, cdir, calls>>
history == <<late, missed>>
vars == <<globals, outputs, loop, clients, history>>

\* Levels of (MC_FORWARD, MC_REVERSE).
Forward  == <<1, 0>>
Backward == <<0, 1>>
Brake    == <<1, 1>>
PinsOf(d) == IF d = "FORWARD" THEN Forward ELSE Backward

Least(a, b) == IF a < b THEN a ELSE b

\* After app_main's enableMotorControl and motorInit, at the start of the
\* loop's three second delay.
Init ==
  /\ targetRPM = 0 /\ accel = 5 /\ controlEnable = 1 /\ motdir = "FORWARD"
  /\ pinF = Brake[1] /\ pinR = Brake[2] /\ duty = InitialDuty
  /\ lpc = "boot" /\ pidTarget \in Garbage /\ integral = 0
  /\ error = 0 /\ pwm = 0 /\ same = FALSE /\ outPins = Brake
  /\ cpc = [c \in Clients |-> "idle"]
  /\ cdir = [c \in Clients |-> "FORWARD"]
  /\ calls = CallBudget
  /\ late = 0 /\ missed = FALSE

-----------------------------------------------------------------------------
(* motCntrlTask, one iteration.                                            *)

LBoot ==
  /\ lpc = "boot"
  /\ lpc' = "compare"
  /\ UNCHANGED <<globals, outputs, pidTarget, integral, error, pwm, same,
                 outPins, clients, history>>

\* A loop that keeps the integral when the target changes.
LCompareMutant ==
  /\ lpc = "compare"
  /\ same' = (pidTarget = targetRPM)
  /\ missed' = (same' /\ missed)
  /\ lpc' = "ramp"
  /\ UNCHANGED <<globals, outputs, pidTarget, integral, error, pwm, outPins,
                 clients, late>>

\* if (pid->targetRPM != targetRPM) pid->integral = 0
LCompare ==
  /\ lpc = "compare"
  /\ same' = (pidTarget = targetRPM)
  /\ integral' = IF same' THEN integral ELSE 0
  /\ missed' = (same' /\ missed)
  /\ lpc' = "ramp"
  /\ UNCHANGED <<globals, outputs, pidTarget, error, pwm, outPins, clients,
                 late>>

\* A ramp that leaves the target alone when one more step would pass it.
LRampMutant ==
  /\ lpc = "ramp"
  /\ pidTarget' = IF pidTarget < targetRPM
                  THEN IF pidTarget + accel > targetRPM THEN pidTarget
                       ELSE pidTarget + accel
                  ELSE targetRPM
  /\ missed' = (missed \/ (same /\ pidTarget # targetRPM))
  /\ lpc' = "control"
  /\ UNCHANGED <<globals, outputs, integral, error, pwm, same, outPins,
                 clients, late>>

\* The ramp: up by accel at most, down at once.  The store of pid->integral
\* made the compiler load targetRPM again.
LRamp ==
  /\ lpc = "ramp"
  /\ pidTarget' = IF pidTarget < targetRPM
                  THEN Least(pidTarget + accel, targetRPM)
                  ELSE targetRPM
  /\ missed' = (missed \/ (same /\ pidTarget # targetRPM))
  /\ lpc' = "control"
  /\ UNCHANGED <<globals, outputs, integral, error, pwm, same, outPins,
                 clients, late>>

RawPwm(e) == Kp * e + Ki * integral

\* A gate that looks at the target instead of controlEnable.
LControlMutant ==
  /\ lpc = "control"
  /\ \E rpm \in Rpms :
       LET e == pidTarget - rpm IN
       /\ error' = e
       /\ \/ targetRPM # 0 /\ RawPwm(e) >= 0
             /\ pwm' = Least(RawPwm(e), MaxPwm) /\ lpc' = "direction"
             /\ UNCHANGED <<integral, missed, outPins>>
          \/ targetRPM # 0 /\ RawPwm(e) < 0
             /\ pwm' = 0 /\ outPins' = Brake /\ lpc' = "pin1"
             /\ UNCHANGED <<integral, missed>>
          \/ targetRPM = 0
             /\ integral' = 0 /\ missed' = FALSE /\ lpc' = "accumulate"
             /\ UNCHANGED <<pwm, outPins>>
  /\ UNCHANGED <<globals, outputs, pidTarget, same, clients, late>>

\* Speed, error, PI sum, if(controlEnable) and the sign of the sum.
LControl ==
  /\ lpc = "control"
  /\ \E rpm \in Rpms :
       LET e == pidTarget - rpm IN
       /\ error' = e
       /\ \/ /\ controlEnable = 1 /\ RawPwm(e) >= 0
             /\ pwm' = Least(RawPwm(e), MaxPwm)
             /\ lpc' = "direction"
             /\ UNCHANGED <<integral, missed, outPins>>
          \/ /\ controlEnable = 1 /\ RawPwm(e) < 0
             /\ pwm' = 0 /\ outPins' = Brake
             /\ lpc' = "pin1"
             /\ UNCHANGED <<integral, missed>>
          \/ /\ controlEnable = 0
             /\ integral' = 0 /\ missed' = FALSE
             /\ lpc' = "accumulate"
             /\ UNCHANGED <<pwm, outPins>>
  /\ UNCHANGED <<globals, outputs, pidTarget, same, clients, late>>

\* if(motdir == FORWARD) MOTOR_FORWARD() else MOTOR_BACKWARD()
LDirection ==
  /\ lpc = "direction"
  /\ outPins' = PinsOf(motdir)
  /\ lpc' = "pin1"
  /\ UNCHANGED <<globals, outputs, pidTarget, integral, error, pwm, same,
                 clients, history>>

\* The two gpio_set_level calls of the macro.
LPin1 ==
  /\ lpc = "pin1"
  /\ pinF' = outPins[1]
  /\ lpc' = "pin2"
  /\ UNCHANGED <<globals, pinR, duty, pidTarget, integral, error, pwm, same,
                 outPins, clients, history>>

\* The macro as the only statement of an unbraced if: its second half lost.
LPin2Mutant ==
  /\ lpc = "pin2"
  /\ lpc' = "duty"
  /\ UNCHANGED <<globals, outputs, pidTarget, integral, error, pwm, same,
                 outPins, clients, history>>

LPin2 ==
  /\ lpc = "pin2"
  /\ pinR' = outPins[2]
  /\ lpc' = "duty"
  /\ UNCHANGED <<globals, pinF, duty, pidTarget, integral, error, pwm, same,
                 outPins, clients, history>>

\* mcpwm_set_duty, without another look at controlEnable.
LDuty ==
  /\ lpc = "duty"
  /\ duty' = pwm
  /\ late' = IF controlEnable = 0 THEN late + 1 ELSE late
  /\ lpc' = "accumulate"
  /\ UNCHANGED <<globals, pinF, pinR, pidTarget, integral, error, pwm, same,
                 outPins, clients, missed>>

\* A sum without the upper limit.
SumsMutant(i, e) ==
  IF i + e <= -IFloor THEN {-IFloor}
  ELSE {i + e} \cup (IF i = -IFloor THEN {-IFloor} ELSE {})

\* From -IFloor, which stands for all values below too, a rise may or may not
\* be seen.
Sums(i, e) ==
  IF i + e <= -IFloor THEN {-IFloor}
  ELSE {Least(i + e, IMax)} \cup (IF i = -IFloor THEN {-IFloor} ELSE {})

\* A sum that forgets to add what is negative never unwinds.
LAccumulateMutant ==
  /\ lpc = "accumulate"
  /\ integral' \in Sums(integral, IF error < 0 THEN 0 ELSE error)
  /\ lpc' = "compare"
  /\ UNCHANGED <<globals, outputs, pidTarget, error, pwm, same, outPins,
                 clients, history>>

\* pid->integral += pid->error, limited above, after either branch.
LAccumulate ==
  /\ lpc = "accumulate"
  /\ integral' \in Sums(integral, error)
  /\ lpc' = "compare"
  /\ UNCHANGED <<globals, outputs, pidTarget, error, pwm, same, outPins,
                 clients, history>>

MotCntrlTask ==
  \/ LBoot \/ LCompare \/ LRamp \/ LControl \/ LDirection
  \/ LPin1 \/ LPin2 \/ LDuty \/ LAccumulate

-----------------------------------------------------------------------------
(* The functions other tasks call.                                         *)

Call(c, f) ==
  /\ cpc[c] = "idle" /\ f \in Calls[c] /\ calls > 0
  /\ calls' = calls - 1

SetRPM(c) ==
  /\ Call(c, "setRPM")
  /\ targetRPM' \in Targets
  /\ UNCHANGED <<accel, controlEnable, motdir, outputs, loop, cpc, cdir,
                 history>>

SetAccel(c) ==
  /\ Call(c, "setAccel")
  /\ accel' \in Accels
  /\ UNCHANGED <<targetRPM, controlEnable, motdir, outputs, loop, cpc, cdir,
                 history>>

\* setMotDir stores motdir, then writes one pin and the other.
SetMotDir(c) ==
  /\ Call(c, "setMotDir")
  /\ \E d \in {"FORWARD", "BACKWARD"} :
       motdir' = d /\ cdir' = [cdir EXCEPT ![c] = d]
  /\ cpc' = [cpc EXCEPT ![c] = "dirPin1"]
  /\ UNCHANGED <<targetRPM, accel, controlEnable, outputs, loop, history>>

DirPin1(c) ==
  /\ cpc[c] = "dirPin1"
  /\ pinF' = PinsOf(cdir[c])[1]
  /\ cpc' = [cpc EXCEPT ![c] = "dirPin2"]
  /\ UNCHANGED <<globals, pinR, duty, loop, cdir, calls, history>>

DirPin2(c) ==
  /\ cpc[c] = "dirPin2"
  /\ pinR' = PinsOf(cdir[c])[2]
  /\ cpc' = [cpc EXCEPT ![c] = "idle"]
  /\ UNCHANGED <<globals, pinF, duty, loop, cdir, calls, history>>

EnableMotorControl(c) ==
  /\ Call(c, "enable")
  /\ controlEnable' = 1 /\ late' = 0
  /\ UNCHANGED <<targetRPM, accel, motdir, outputs, loop, cpc, cdir, missed>>

\* disableMotorControl stores controlEnable, then sets the duty to zero.
DisableMotorControl(c) ==
  /\ Call(c, "disable")
  /\ controlEnable' = 0 /\ late' = 0
  /\ cpc' = [cpc EXCEPT ![c] = "dutyOff"]
  /\ UNCHANGED <<targetRPM, accel, motdir, outputs, loop, cdir, missed>>

\* disableMotorControl without its second statement.
DutyOffMutant(c) ==
  /\ cpc[c] = "dutyOff"
  /\ cpc' = [cpc EXCEPT ![c] = "idle"]
  /\ UNCHANGED <<globals, outputs, loop, cdir, calls, history>>

DutyOff(c) ==
  /\ cpc[c] = "dutyOff"
  /\ duty' = 0
  /\ cpc' = [cpc EXCEPT ![c] = "idle"]
  /\ UNCHANGED <<globals, pinF, pinR, loop, cdir, calls, history>>

Return(c) == DirPin1(c) \/ DirPin2(c) \/ DutyOff(c)

Client(c) ==
  \/ SetRPM(c) \/ SetAccel(c) \/ SetMotDir(c)
  \/ EnableMotorControl(c) \/ DisableMotorControl(c)
  \/ Return(c)

Next == MotCntrlTask \/ \E c \in Clients : Client(c)

\* The loop sleeps 5 ms per iteration and always comes round again; a call
\* that was begun is finished.  Nobody has to call.
Spec ==
  /\ Init /\ [][Next]_vars
  /\ WF_vars(MotCntrlTask)
  /\ \A c \in Clients : WF_vars(Return(c))

-----------------------------------------------------------------------------
Driving == {"direction", "pin1", "pin2", "duty"}

\* The types; in particular the duty never leaves 0..MaxPwm and the integral
\* never exceeds its limit.
TypeOK ==
  /\ targetRPM \in Int /\ accel \in Nat /\ controlEnable \in {0, 1}
  /\ motdir \in {"FORWARD", "BACKWARD"}
  /\ pinF \in {0, 1} /\ pinR \in {0, 1} /\ duty \in 0..MaxPwm
  /\ lpc \in {"boot", "compare", "ramp", "control", "accumulate"} \cup Driving
  /\ pidTarget \in Int /\ integral \in Int /\ integral <= IMax
  /\ error \in Int /\ pwm \in 0..MaxPwm /\ same \in BOOLEAN
  /\ outPins \in {Forward, Backward, Brake}
  /\ cpc \in [Clients -> {"idle", "dirPin1", "dirPin2", "dutyOff"}]
  /\ cdir \in [Clients -> {"FORWARD", "BACKWARD"}]
  /\ calls \in 0..CallBudget
  /\ late \in Nat /\ missed \in BOOLEAN

(* Between the test of controlEnable and the write of the duty the loop    *)
(* can be overtaken by disableMotorControl, but by one iteration only:     *)
(* after control went off the loop writes the duty once more at most.      *)
AtMostOneLateDuty == late <= 1

(* When control is off, no disableMotorControl is under way and no such    *)
(* late write happened, the motor is not driven, whoever called what.      *)
OffUnlessLate ==
  /\ controlEnable = 0 /\ late = 0
  /\ \A c \in Clients : cpc[c] # "dutyOff"
  => duty = 0

(* With a target of zero the loop does not drive, however it was wound up  *)
(* before: every change of the target resets the integral.  The exception  *)
(* is a target stored between the comparison and the ramp, which the loop  *)
(* takes over without the reset.                                           *)
ZeroTargetNoDrive ==
  lpc \in Driving /\ pidTarget <= 0 /\ ~missed => pwm = 0

(* Even so the motor does come to rest: the integral unwinds, as long as a *)
(* speed is measured at all.                                               *)
ZeroTargetEventuallyStops ==
  <>[](targetRPM <= 0 /\ controlEnable = 1) /\ []<>(error < pidTarget)
    => <>[](duty = 0)

(* Whatever came from pvPortMalloc and whatever was asked for meanwhile,   *)
(* the ramp arrives at the target, unless accel was set to zero.           *)
RampArrives == <>[](pidTarget = targetRPM \/ accel = 0)

(* Two tasks setting opposite directions can leave the pins in any state,  *)
(* but while control is on the loop puts them right for good.              *)
DirectionConverges ==
  <>[](controlEnable = 1 => <<pinF, pinR>> \in {Brake, PinsOf(motdir)})
=============================================================================
