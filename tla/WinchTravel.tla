---------------------------- MODULE WinchTravel ----------------------------
(***************************************************************************)
(* Winch together with the stepper behind it: how far the stepper moved,   *)
(* compared with how far it was told to.  One step is made on every rising *)
(* edge of P_WINCH, towards the level of P_WINCHDIR; winch_steps says "how *)
(* many steps to take" (src/src/tasks.c:157).  Bluetooth winch commands,   *)
(* which replace an order instead of adding one, are left to Winch.        *)
(***************************************************************************)
EXTENDS Winch

VARIABLES
  pos,    \* net steps the stepper was moved, down is positive
  asked,  \* net steps that were ordered
  owed    \* the step counted in this turn of winchTask and not yet pulsed

travel == <<pos, asked, owed>>
tvars  == <<vars, travel>>

TInit == Init /\ pos = 0 /\ asked = 0 /\ owed = 0

\* The turn ends without a pulse.
Swallow ==
  /\ WCheckZero
  /\ owed' = IF wpc' = "test" THEN 0 ELSE owed
  /\ UNCHANGED <<pos, asked>>

Move ==
  /\ WPulseHigh
  /\ pos' = IF dirPin = 1 THEN pos + 1 ELSE pos - 1
  /\ owed' = 0
  /\ UNCHANGED asked

TNext ==
  \/ /\ WTestPositive \/ WReload \/ WTestNegative \/ WSetDirection \/ WPulseLow
     /\ UNCHANGED travel
  \/ WDecrement /\ owed' = 1 /\ UNCHANGED <<pos, asked>>
  \/ WIncrement /\ owed' = -1 /\ UNCHANGED <<pos, asked>>
  \/ Swallow
  \/ Move
  \/ \E m \in Missions :
       \/ (MLoad(m) \/ MWait(m)) /\ UNCHANGED travel
       \/ MStore(m) /\ asked' = asked + Order(m) /\ UNCHANGED <<pos, owed>>

TSpec == TInit /\ [][TNext]_tvars

-----------------------------------------------------------------------------
\* The values of the travel counters.
TravelTypeOK == pos \in Int /\ asked \in Int /\ owed \in {-1, 0, 1}

(* The stepper is never further from the ordered position than two steps   *)
(* per order: one for the step winchTask counts and does not pulse, one    *)
(* for a pulse it makes without counting.  One mission.                    *)
Drift == asked - winch_steps - pos - owed

DriftBounded ==
  \A m \in Missions : Drift \in -(2 * seg[m])..(2 * seg[m])
=============================================================================
