------------------------------ MODULE Approach ------------------------------
(***************************************************************************)
(* From power-on to the cube: app_main brings the firmware up              *)
(* (src/src/main.c) while telemetry can already start crane_task, which    *)
(* drives on until the sensor sees the cube (src/src/cyrill_test.c).  Both *)
(* talk to the Arduino over one UART (Sensors); the timer by which the     *)
(* controller measures the speed (SpeedSense) is started last but one.     *)
(*                                                                         *)
(* The controller is taken in turns: MotorControl says what happens within *)
(* one.  The cube comes into the sensor's sight when the train has made    *)
(* some way, stays in sight for Window steps of it, and is then passed.  A *)
(* step is the way at the target of the approach in the time of a          *)
(* measurement, 40 + 20 + 5 ms of delays, or in a longer time.             *)
(***************************************************************************)
EXTENDS Sensors, SpeedSense

CONSTANTS
  Limit,   \* CUBE_DISTANCE
  Cruise,  \* the target of the approach (300)
  Window,  \* steps of the train during which the cube is in sight
  DriveOn, \* steps in the 200 ms for which crane_task lets it drive on
  Braking, \* steps from the target of zero until the train stands
  Starts   \* steps to the end of sight when the approach begins

ASSUME ApproachAssumption ==
  /\ Limit \in Nat /\ 0 \in Distances /\ \E d \in Distances : d \in 1..Limit
  /\ Cruise \in Nat \ {0}
  /\ DriveOn \in Nat /\ Braking \in Nat
  /\ Window \in Nat /\ Window > 2 + DriveOn + Braking
  /\ \A s \in Starts : s \in Nat /\ s > Window

VARIABLES
  bpc,       \* where app_main stands; winchTask was started once it is "up"
  mpc,       \* where crane_task stands
  way,       \* steps until the cube is out of sight again
  left,      \* steps the train can make in what crane_task waits for now
  targetRPM, pidTarget, \* of the controller
  drive,     \* the controller drives the motor
  wound,     \* the integral took in an infinite speed
  early      \* history: crane_task set off before the timer ran

train == <<way, left>>
ctrl  == <<targetRPM, pidTarget, drive, wound>>
vars  == <<svars, sense, bpc, mpc, train, ctrl, early>>

Init ==
  /\ SInit /\ SenseInit
  /\ bpc = "init" /\ mpc = "off"
  /\ way \in Starts /\ left = 0
  /\ targetRPM = 0 /\ pidTarget = 0 /\ drive = FALSE /\ wound = FALSE
  /\ early = FALSE

-----------------------------------------------------------------------------
(* The world.                                                              *)

\* What the cube sensor can see now.
InSight == IF way \in 1..Window THEN {d \in Distances : d \in 1..Limit}
           ELSE {d \in Distances : d \notin 1..Limit}

Arduino ==
  /\ \/ Lose
     \/ Answer("ok", 0) /\ Head(asked).what = "init"
     \/ Answer("fail", 0) /\ Head(asked).what = "init"
     \/ \E mm \in InSight :
          Answer("distance", mm) /\ Head(asked).what = "distance"
  /\ UNCHANGED <<sense, bpc, mpc, train, ctrl, early>>

\* The train makes no more steps than there is time for; a wheel that turns
\* rolls on without the motor.
Move ==
  /\ drive \/ period \in {"pulse", "zero"}
  /\ left > 0 /\ way > 0
  /\ way' = way - 1 /\ left' = left - 1
  /\ SenseISR
  /\ UNCHANGED <<svars, bpc, mpc, ctrl, early>>

\* The train is moved by hand before it is sent off.
Push ==
  /\ mpc = "off" /\ SenseISR
  /\ UNCHANGED <<svars, bpc, mpc, train, ctrl, early>>

Time == Expire /\ UNCHANGED <<svars, bpc, mpc, train, ctrl, early>>

-----------------------------------------------------------------------------
(* motCntrlTask.  A new target resets the integral, the ramp included.  A   *)
(* period of zero is an infinite speed, in int32_t the largest one: the     *)
(* train is braked, and an integral that took in one such error needs       *)
(* millions of turns to come back.  Up to the target of zero the delays of  *)
(* crane_task bound the way; after it a motor still driven drives on.       *)
Turn ==
  /\ lpc = "turn" /\ lpc' = "sample"
  /\ pidTarget' = targetRPM
  /\ wound' = (period = "zero" \/ (wound /\ pidTarget = targetRPM))
  /\ drive' \in IF targetRPM = 0 \/ wound' THEN {FALSE}
                ELSE IF period = "pulse" THEN BOOLEAN ELSE {TRUE}
  /\ left' = IF drive' /\ mpc \in {"lower", "grip"} THEN Braking ELSE left
  /\ UNCHANGED <<running, period, old, targetRPM>>

MotCntrlTask ==
  /\ Turn \/ ((Sample \/ Store) /\ UNCHANGED <<ctrl, left>>)
  /\ UNCHANGED <<svars, bpc, mpc, way, early>>

-----------------------------------------------------------------------------
(* app_main and the tasks it starts last.                                  *)

BGoto(from, to) == bpc = from /\ bpc' = to

\* init_cyrill and uart_arduino_init up to their loop.
BInstall == BGoto("init", "hello") /\ installed' = TRUE
            /\ UNCHANGED <<asked, replies, data0>>

\* uart_write_bytes(..., "a", 1) and half a second
BHello == BGoto("hello", "await") /\ Write("init") /\ UNCHANGED <<installed, data0>>

BAwait == BGoto("await", "test") /\ ReadAll /\ UNCHANGED <<installed, asked>>

\* while(data[0]!=1): of data, whoever filled it.
BTest == /\ \/ data0 = "ok" /\ BGoto("test", "bt_start")
            \/ data0 # "ok" /\ BGoto("test", "hello")
         /\ UNCHANGED uart

\* bt_start returns early when a stage fails, and app_main goes on.
BStart == /\ \/ BGoto("bt_start", "timerInitTask")
             \/ BGoto("timerInitTask", "winchTask")
             \/ BGoto("winchTask", "up")
          /\ UNCHANGED uart

\* ESP_ERROR_CHECK in bt_start: abort, and a restart under a mission that may
\* be on its way.
BRestart ==
  /\ BGoto("bt_start", "init") /\ SRestart /\ SenseRestart
  /\ missed' = (missed \/ mpc # "off") /\ mpc' = "off" /\ left' = 0
  /\ targetRPM' = 0 /\ pidTarget' = 0 /\ drive' = FALSE /\ wound' = FALSE
  /\ early' = FALSE
  /\ UNCHANGED way

AppMain ==
  /\ BInstall \/ BHello \/ BAwait \/ BTest \/ BStart
  /\ UNCHANGED <<measure, sense, mpc, train, ctrl, early>>

TimerInitTask ==
  /\ bpc \in {"winchTask", "up"} /\ TimerInit
  /\ UNCHANGED <<svars, bpc, mpc, train, ctrl, early>>

-----------------------------------------------------------------------------
(* crane_task up to its first order.                                       *)

\* "startcube" over telemetry, which is up from the beginning.
Launch == mpc = "off" /\ mpc' = "extend" /\ UNCHANGED <<measure, uart, targetRPM, left>>

\* A new call of tof_get_distance.
Begin == tpc' = "ask" /\ tries' = 0 /\ distance' = 0 /\ UNCHANGED missed

\* crane_init to setRPM(300): 1500 ms of delays, enough for a timeout of 50.
CDepart ==
  /\ mpc = "extend" /\ (running => period # "zero")
  /\ targetRPM' = Cruise /\ mpc' = "approach" /\ early' = ~running
  /\ left' = 1 /\ Begin /\ UNCHANGED uart

CMeasure ==
  /\ mpc = "approach" /\ (Request \/ Read)
  /\ left' = IF tpc = "read" THEN 1 ELSE left
  /\ UNCHANGED <<mpc, targetRPM>>

\* The loop is left.  LED, and 200 ms at the target of the approach.
DriveOnPast ==
  /\ mpc' = "near" /\ tpc' = "idle" /\ left' = left + DriveOn
  /\ UNCHANGED <<tries, distance, missed>>

\* A loop that takes nothing for near.
CTestMutant ==
  /\ mpc = "approach" /\ tpc = "done"
  /\ LET d == Average(<<distance>>) IN
     \/ d > Limit /\ Begin /\ UNCHANGED <<mpc, left>>
     \/ d <= Limit /\ DriveOnPast
  /\ UNCHANGED <<uart, targetRPM>>

\* A loop that does not stop at CUBE_DISTANCE itself.
CTestBoundaryMutant ==
  /\ mpc = "approach" /\ tpc = "done"
  /\ LET d == Average(<<distance>>) IN
     \/ (d = 0 \/ d >= Limit \/ d = Garbage) /\ Begin /\ UNCHANGED <<mpc, left>>
     \/ d # 0 /\ d < Limit /\ DriveOnPast
  /\ UNCHANGED <<uart, targetRPM>>

\* while(distance==0||distance>CUBE_DISTANCE); garbage can be any number.
CTest ==
  /\ mpc = "approach" /\ tpc = "done"
  /\ LET d == Average(<<distance>>) IN
     \/ (d = 0 \/ d > Limit \/ d = Garbage) /\ Begin /\ UNCHANGED <<mpc, left>>
     \/ d # 0 /\ d <= Limit /\ DriveOnPast
  /\ UNCHANGED <<uart, targetRPM>>

\* setRPM(0), which the controller sees in its next turn.
CStop ==
  /\ mpc = "near" /\ targetRPM' = 0 /\ mpc' = "lower"
  /\ left' = left + Braking
  /\ UNCHANGED <<measure, uart>>

\* The first order and its wait: Winch, once there is a winchTask.
CLower ==
  /\ mpc = "lower" /\ bpc = "up" /\ mpc' = "grip"
  /\ UNCHANGED <<measure, uart, targetRPM, left>>

CraneTask ==
  /\ CDepart \/ ((CMeasure \/ CTest \/ CStop \/ CLower) /\ UNCHANGED early)
  /\ UNCHANGED <<sense, bpc, way, pidTarget, drive, wound>>

Telemetry == Launch /\ UNCHANGED <<sense, bpc, way, pidTarget, drive, wound, early>>

Next ==
  \/ Arduino \/ Move \/ Push \/ Time
  \/ MotCntrlTask \/ AppMain \/ BRestart \/ TimerInitTask \/ Telemetry \/ CraneTask

\* The loop and crane_task sleep in every turn and are woken again; a driven
\* train moves, time passes, and the Arduino gets round to every request, be it
\* by losing it.  crane_task's request waits for room under the bound Owed
\* only, which app_main must not take for ever: hence SF.  app_main and the
\* start of the timer need not go on: the approach does not depend on them.
Spec ==
  /\ Init /\ [][Next]_vars
  /\ WF_vars(MotCntrlTask) /\ SF_vars(CraneTask)
  /\ WF_vars(drive /\ Move) /\ WF_vars(Time) /\ WF_vars(Arduino)

-----------------------------------------------------------------------------
\* The types, and that nothing beyond the Arduino starts before the UART.
TypeOK ==
  /\ SensorsTypeOK /\ SenseTypeOK
  /\ bpc \in {"init", "hello", "await", "test", "bt_start", "timerInitTask",
              "winchTask", "up"}
  /\ mpc \in {"off", "extend", "approach", "near", "lower", "grip"}
  /\ way \in Nat /\ left \in Nat
  /\ {targetRPM, pidTarget} \subseteq {0, Cruise}
  /\ {drive, wound, early} \subseteq BOOLEAN
  /\ bpc # "init" <=> installed

(* crane_task leaves its approach because the cube has come into sight, or *)
(* because the sensor failed; an answer that comes late, and is taken for  *)
(* that to a later request, does not stop the train too early.             *)
StopsForCause ==
  mpc \in {"near", "lower", "grip"} => way <= Window \/ distance \in {-1, Garbage}

(* The train does not pass the cube as long as every request is answered   *)
(* in time and app_main's answers do not come in between: it stands before *)
(* the end of sight, the way in the 200 ms it is let drive on included.    *)
NotPassed == way = 0 => missed

(* The approach comes to its end: a sensor that does not answer ends it,   *)
(* whatever the train does, and a train that stands is seen to stand and   *)
(* driven on.  Except when the cube was passed, or when the mission set    *)
(* off before the timer ran, the wheel turned before it did, and the       *)
(* sensor answers for as long as the train is braked.                      *)
ApproachEnds ==
  mpc = "approach" ~>
    \/ mpc # "approach" \/ way = 0
    \/ early /\ wound /\ tpc = "done" /\ distance # -1
=============================================================================
