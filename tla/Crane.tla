------------------------------- MODULE Crane -------------------------------
(***************************************************************************)
(* The crane between the winch orders of a mission: crane_init turns the   *)
(* servo to its retracted angle, crane_set_position turns it degree by     *)
(* degree from where the last call said it is (src/src/crane.c, servo.c),  *)
(* and crane_task and unload_task say where to (src/src/cyrill_test.c).    *)
(*                                                                         *)
(* The code's idea of the position is one static variable, kept from one   *)
(* mission to the next, and nothing reads it back from the servo.          *)
(***************************************************************************)
EXTENDS WinchTravel

CONSTANTS
  Extended, PartExtended, Retracted, Locked, \* CRANE_POSITION_..., degrees
  After     \* After[m]: missions that are over before m is started

ASSUME CraneAssumption ==
  /\ {Extended, PartExtended, Retracted, Locked} \subseteq Nat
  /\ After \in [Missions -> SUBSET Missions]

VARIABLES
  angle,    \* what the servo was told last
  current_crane_position,
  begun,    \* per mission: crane_init was called
  todo,     \* per mission: positions to set before its next order
  sweep     \* per mission: the next angle of crane_set_position's loop, or Out

servo == <<angle, current_crane_position>>
calls == <<begun, todo, sweep>>
cvars == <<tvars, servo, calls>>

Out == -1

\* What a mission sets before each of its orders, and after the last.
CraneMoves  == <<<<Extended>>, <<Locked, Retracted>>, <<Locked>>,
                 <<PartExtended>>, <<Locked>>, <<>>>>
UnloadMoves == <<<<Locked>>, <<PartExtended>>, <<Locked>>, <<Retracted>>,
                 <<Extended>>, <<Retracted>>>>
Moves(m) == (IF Kind[m] = "crane_task" THEN CraneMoves ELSE UnloadMoves)[seg[m] + 1]

CInit ==
  /\ TInit
  /\ angle = Retracted /\ current_crane_position = Retracted
  /\ begun = [m \in Missions |-> FALSE]
  /\ todo = [m \in Missions |-> <<>>]
  /\ sweep = [m \in Missions |-> Out]

-----------------------------------------------------------------------------
\* servo_set_angle: the pulse grows by 10 or 11 us with every degree, so the
\* servo can tell all angles apart.
ServoSetAngle(a) == angle' = a

\* crane_init; current_crane_position stays as it is.
CraneInit(m) ==
  /\ ~begun[m] /\ \A n \in After[m] : mpc[n] = "done" /\ todo[n] = <<>>
  /\ begun' = [begun EXCEPT ![m] = TRUE]
  /\ todo' = [todo EXCEPT ![m] = Moves(m)]
  /\ ServoSetAngle(Retracted)
  /\ UNCHANGED <<tvars, current_crane_position, sweep>>

Target(m) == Head(todo[m])

\* A call that turns one way only.
SetPositionMutant(m) ==
  /\ todo[m] # <<>> /\ sweep[m] = Out
  /\ sweep' = [sweep EXCEPT ![m] =
       IF Target(m) < current_crane_position THEN current_crane_position ELSE Target(m)]
  /\ UNCHANGED <<tvars, servo, begun, todo>>

\* crane_set_position: where the loop starts; it is empty if the position is
\* said to be the right one.
SetPosition(m) ==
  /\ todo[m] # <<>> /\ sweep[m] = Out
  /\ sweep' = [sweep EXCEPT ![m] = current_crane_position]
  /\ UNCHANGED <<tvars, servo, begun, todo>>

\* One turn of the loop: the angle before the step, so that the last one is
\* a degree short.
Turn(m) ==
  /\ sweep[m] # Out /\ sweep[m] # Target(m)
  /\ ServoSetAngle(sweep[m])
  /\ sweep' = [sweep EXCEPT ![m] = IF @ > Target(m) THEN @ - 1 ELSE @ + 1]
  /\ UNCHANGED <<tvars, current_crane_position, begun, todo>>

\* A call that does not record where it went.
ReturnMutant(m) ==
  /\ todo[m] # <<>> /\ sweep[m] = Target(m)
  /\ sweep' = [sweep EXCEPT ![m] = Out]
  /\ todo' = [todo EXCEPT ![m] = Tail(@)]
  /\ UNCHANGED <<tvars, servo, begun>>

\* current_crane_position=position_degree
Arrive(m) ==
  /\ todo[m] # <<>> /\ sweep[m] = Target(m)
  /\ current_crane_position' = Target(m)
  /\ sweep' = [sweep EXCEPT ![m] = Out]
  /\ todo' = [todo EXCEPT ![m] = Tail(@)]
  /\ UNCHANGED <<tvars, angle, begun>>

CraneMove(m) == CraneInit(m) \/ SetPosition(m) \/ Turn(m) \/ Arrive(m)

\* The winch and the orders: a mission orders steps when it has moved the
\* crane, and its next movements are due when it has waited.
Ordered(m) == mpc[m] = "crane" /\ mpc'[m] = "store"
Waited(m)  == mpc[m] = "wait" /\ mpc'[m] # "wait"

WinchStep ==
  /\ TNext
  /\ \A m \in Missions : Ordered(m) => begun[m] /\ todo[m] = <<>>
  /\ todo' = [m \in Missions |-> IF Waited(m) THEN Moves(m) ELSE todo[m]]
  /\ UNCHANGED <<servo, begun, sweep>>

CNext == WinchStep \/ \E m \in Missions : CraneMove(m)

CSpec == CInit /\ [][CNext]_cvars

-----------------------------------------------------------------------------
(* When crane_set_position returns, the servo stands where the call was    *)
(* asked to put it, to a degree, whatever crane_init did in between.       *)
ServoFollows ==
  [][\A m \in Missions :
       todo[m] # <<>> /\ todo'[m] = Tail(todo[m])
         => angle' \in (Target(m) - 1)..(Target(m) + 1)]_cvars

(* The crane, which may carry the payload, is never turned by more than a  *)
(* degree at once, although every loop ends one degree short of the place  *)
(* at which the next one starts; crane_init excepted.                      *)
Smooth ==
  [][begun' = begun => angle' \in (angle - 1)..(angle + 1)]_cvars
=============================================================================
