----------------------------- MODULE StopDrive -----------------------------
(***************************************************************************)
(* stop_task of src/src/cyrill_test.c at work on the motor controller:     *)
(* point the motor forward, switch the PI loop off, creep in PWM pulses    *)
(* until the sensor sees the signal near enough, switch the loop on again. *)
(*                                                                         *)
(* Each statement is a step between steps of motCntrlTask.  Another client *)
(* of the controller may have been at work before stop_task starts, not    *)
(* while it runs.  Distances are counted from where the train stands when  *)
(* the creeping begins.                                                    *)
(***************************************************************************)
EXTENDS MotorControl, Averages

CONSTANTS
  Train,        \* the client that is stop_task
  StopSignal,   \* stopsignal when the task starts: 1 is white, 2 is black
  White, Black, Far,  \* STOP_DISTANCE_WHITE, STOP_DISTANCE_BLACK, ..._FAR
  SlowDuty,     \* MOTOR_SLOW_DUTY
  Unit,         \* millimetres the train moves at least, if it moves
  Distances,    \* units to the signal when the creeping begins
  Pulse         \* bound: units one pulse moves the train at most

\* With one or two failed readings the average of a distance of up to 4 mm is
\* rounded to 0, which reads as "nothing in front of the sensor".
Blur == 4

ASSUME StopAssumption ==
  /\ Train \in Clients
  /\ {"setRPM", "setMotDir", "enable", "disable"} \subseteq Calls[Train]
  /\ StopSignal \in Nat /\ {White, Black, Far} \subseteq Nat
  /\ SlowDuty \in 1..MaxPwm
  /\ White < Black /\ Black < Far
  /\ {Unit, Pulse} \subseteq Nat \ {0}
  /\ Unit * Pulse + Blur <= White /\ 2 * Unit * Pulse + Blur <= Far
  /\ \A d \in Distances : d \in Nat /\ Unit * d > Far

VARIABLES
  spc,           \* where stop_task stands
  stopDistance,  \* its local stop_distance
  near,          \* it is in the second creeping loop
  dist,          \* units to the signal, 0 when it is passed
  failed,        \* history: a measurement failed
  turns          \* iterations motCntrlTask completed since the last call, to 2

stop  == <<spc, stopDistance, near, dist, failed, turns>>
svars == <<vars, stop>>

SInit ==
  /\ Init
  /\ spc = "start" /\ stopDistance = 0 /\ near = FALSE /\ dist = 0
  /\ failed = FALSE /\ turns = 0

\* The calls stop_task has still to make when it starts.
OwnCalls == 5

\* Another task uses the controller, before stop_task starts.
Before(c) ==
  /\ spc = "start"
  /\ Client(c) /\ (calls' < calls => calls > OwnCalls)
  /\ UNCHANGED stop

LoopTurn ==
  /\ MotCntrlTask
  /\ turns' = IF lpc = "accumulate" THEN Least(turns + 1, 2) ELSE turns
  /\ UNCHANGED <<spc, stopDistance, near, dist, failed>>

Goto(l) == spc' = l /\ turns' = 0

\* A start that knows black signals only.
SStartMutant ==
  /\ spc = "start" /\ \A c \in Clients : cpc[c] = "idle"
  /\ stopDistance' = IF StopSignal = 2 THEN Black ELSE 0
  /\ Goto("setMotDir")
  /\ UNCHANGED <<vars, near, dist, failed>>

\* The choice of stop_distance; another value than 1 and 2 leaves it 0.
SStart ==
  /\ spc = "start" /\ \A c \in Clients : cpc[c] = "idle"
  /\ stopDistance' = CASE StopSignal = 1 -> White
                       [] StopSignal = 2 -> Black
                       [] OTHER -> 0
  /\ Goto("setMotDir")
  /\ UNCHANGED <<vars, near, dist, failed>>

\* setMotDir(FORWARD); setRPM(0); disableMotorControl(); and, when the creeping
\* is over, setRPM(0); enableMotorControl();
SCall ==
  /\ \/ spc = "setMotDir" /\ SetMotDir(Train) /\ motdir' = "FORWARD"
        /\ Goto("setRPM")
     \/ spc = "setRPM" /\ SetRPM(Train) /\ targetRPM' = 0 /\ Goto("disable")
     \/ spc = "disable" /\ DisableMotorControl(Train) /\ Goto("settle")
     \/ spc = "arrived" /\ SetRPM(Train) /\ targetRPM' = 0 /\ Goto("enable")
     \/ spc = "enable" /\ EnableMotorControl(Train) /\ Goto("report")
  /\ UNCHANGED <<stopDistance, near, dist, failed>>

\* The pin writes and the duty write inside those calls.
SReturn == Return(Train) /\ UNCHANGED stop

\* Creeping without waiting for the loop's iteration in flight.
SSettleMutant ==
  /\ spc = "settle" /\ cpc[Train] = "idle"
  /\ dist' \in Distances
  /\ Goto("pulse")
  /\ UNCHANGED <<vars, stopDistance, near, failed>>

\* vTaskDelay(500): a hundred iterations of the loop.
SSettle ==
  /\ spc = "settle" /\ cpc[Train] = "idle" /\ turns = 2
  /\ dist' \in Distances
  /\ Goto("pulse")
  /\ UNCHANGED <<vars, stopDistance, near, failed>>

SetDuty(d) ==
  /\ duty' = d
  /\ UNCHANGED <<globals, pinF, pinR, loop, clients, history>>

\* mcpwm_set_duty(..., MOTOR_SLOW_DUTY)
SPulse ==
  /\ spc = "pulse" /\ SetDuty(SlowDuty)
  /\ Goto("moving")
  /\ UNCHANGED <<stopDistance, near, dist, failed>>

Moved == IF <<pinF, pinR>> = Forward /\ duty > 0 THEN 1..Pulse ELSE {0}

\* A pulse that is not taken back.
SMoveMutant ==
  /\ spc = "moving" /\ turns = 2 /\ UNCHANGED vars
  /\ \E d \in Moved : dist' = IF d < dist THEN dist - d ELSE 0
  /\ Goto("measure")
  /\ UNCHANGED <<stopDistance, near, failed>>

\* The delay during which the train moves, then mcpwm_set_duty(..., 0).
SMove ==
  /\ spc = "moving" /\ turns = 2 /\ SetDuty(0)
  /\ \E d \in Moved : dist' = IF d < dist THEN dist - d ELSE 0
  /\ Goto("measure")
  /\ UNCHANGED <<stopDistance, near, failed>>

\* The three distances of a measurement: 0 when there is nothing in front of
\* the sensor, -1 when the sensor does not answer.
Readings == [1..3 -> {Unit * dist, -1}]
Fails(r) == \E i \in DOMAIN r : r[i] = -1

Limit == IF near THEN stopDistance ELSE Far

\* The first loop's condition used for both.
SMeasureMutant ==
  /\ spc = "measure"
  /\ \E r \in Readings : LET d == Average(r) IN
       /\ failed' = (failed \/ Fails(r))
       /\ near' = (near \/ (d # 0 /\ d <= Far))
       /\ Goto(IF d = 0 \/ d > Far \/ ~near THEN "pulse" ELSE "arrived")
  /\ UNCHANGED <<vars, stopDistance, dist>>

\* while(distance==0||distance>limit) with the average of them.
SMeasure ==
  /\ spc = "measure"
  /\ \E r \in Readings : LET d == Average(r) IN
       /\ failed' = (failed \/ Fails(r))
       /\ \/ (d = 0 \/ d > Limit) /\ Goto("pulse") /\ UNCHANGED near
          \/ d # 0 /\ d <= Limit /\ ~near /\ Goto("pulse") /\ near' = TRUE
          \/ d # 0 /\ d <= Limit /\ near /\ Goto("arrived") /\ UNCHANGED near
  /\ UNCHANGED <<vars, stopDistance, dist>>

StopTask ==
  \/ SStart \/ SCall \/ SReturn \/ SSettle \/ SPulse \/ SMove \/ SMeasure

SNext ==
  \/ LoopTurn
  \/ StopTask
  \/ \E c \in Clients \ {Train} : Before(c)

\* Both tasks sleep in every turn of their loops and are always woken again.
SSpec ==
  /\ SInit /\ [][SNext]_svars
  /\ WF_svars(LoopTurn) /\ WF_svars(StopTask)

-----------------------------------------------------------------------------
Creeping == {"pulse", "moving", "measure"}

\* The types of stop_task's variables; outside its own pulses nobody drives
\* the motor while it creeps.
StopTypeOK ==
  /\ spc \in Creeping \cup {"start", "setMotDir", "setRPM", "disable",
                            "settle", "arrived", "enable", "report"}
  /\ stopDistance \in {0, White, Black} /\ near \in BOOLEAN
  /\ dist \in Nat /\ failed \in BOOLEAN /\ turns \in 0..2
  /\ spc = "moving" => duty = SlowDuty

(* When stop_task reports, the train has not passed the signal, although a  *)
(* failed reading makes the average too small and can end the first loop   *)
(* too soon; if none failed, the train is near enough, too.                *)
StopsInFront ==
  spc = "report" =>
    dist > 0 /\ (failed \/ Unit * dist <= stopDistance)

(* With the PI loop switched on again the train stays where it is: neither *)
(* the loop's leftovers (integral, an iteration in flight) nor the last    *)
(* pulse drive it.                                                         *)
RestAfterStop == spc \in {"arrived", "enable", "report"} => duty = 0

(* Once the pulses drive it forward, the train arrives, for both kinds of  *)
(* signal and also when measurements fail.                                 *)
CreepArrives ==
  (spc \in Creeping /\ <<pinF, pinR>> = Forward /\ dist > 0)
    ~> (spc = "report")
=============================================================================
