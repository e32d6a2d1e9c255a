---------------------------- MODULE WinchProofs ----------------------------
(***************************************************************************)
(* Proofs about Winch, WinchTravel and Crane.  The types are proved for    *)
(* any number of missions and Bluetooth commands; that winch and crane are *)
(* kept apart, how far the stepper can be off and where the servo turns,   *)
(* for one mission of either kind, any step counts and any angles.         *)
(***************************************************************************)
EXTENDS Crane, TLAPS

\* An order is a number of steps, and never zero.
LEMMA OrderNonZero ==
  ASSUME NEW m \in Missions, seg[m] \in 0..4
  PROVE  Order(m) \in Int \ {0}
<1>1. seg[m] + 1 \in 1..5
  OBVIOUS
<1>2. \A i \in 1..5 : CranePlan[i] \in Int \ {0}
  BY WinchAssumption DEF CranePlan
<1>3. \A i \in 1..5 : UnloadPlan[i] \in Int \ {0}
  BY WinchAssumption DEF UnloadPlan
<1>. QED  BY <1>1, <1>2, <1>3 DEF Order, Plan

\* A plan has five orders.
LEMMA PlanLength == \A m \in Missions : Len(Plan(m)) = 5
  BY DEF Plan, CranePlan, UnloadPlan

-----------------------------------------------------------------------------
LEMMA TypeStep ==
  ASSUME TypeOK, [Next]_vars  PROVE TypeOK'
<1>. USE DEF TypeOK
<1>1. CASE WTestPositive
  BY <1>1 DEF WTestPositive, missionVars
<1>2. CASE WReload
  BY <1>2 DEF WReload, missionVars
<1>3. CASE WTestNegative
  BY <1>3 DEF WTestNegative, missionVars
<1>4. CASE WDecrement
  BY <1>4 DEF WDecrement, missionVars
<1>5. CASE WIncrement
  BY <1>5 DEF WIncrement, missionVars
<1>6. CASE WSetDirection
  BY <1>6 DEF WSetDirection, missionVars
<1>7. CASE WCheckZero
  BY <1>7 DEF WCheckZero, missionVars
<1>8. CASE WPulseHigh
  BY <1>8 DEF WPulseHigh, missionVars
<1>9. CASE WPulseLow
  BY <1>9 DEF WPulseLow, missionVars
<1>10. ASSUME NEW m \in Missions, MLoad(m)  PROVE TypeOK'
  BY <1>10 DEF MLoad, winchVars
<1>11. ASSUME NEW m \in Missions, MStore(m)  PROVE TypeOK'
  <2>1. seg[m] \in 0..4 /\ mreg[m] \in Int
    BY <1>11 DEF MStore
  <2>2. winch_steps' \in Int
    BY <1>11, <2>1, OrderNonZero DEF MStore
  <2>. QED  BY <1>11, <2>1, <2>2 DEF MStore, winchVars
<1>12. ASSUME NEW m \in Missions, MWait(m)  PROVE TypeOK'
  <2>1. /\ AfterWait(m) \in {"done", "crane"}
        /\ AfterWait(m) = "crane" => seg[m] # 5
    BY PlanLength DEF AfterWait
  <2>2. mpc' \in [Missions -> {"crane", "store", "wait", "done"}]
    BY <1>12, <2>1 DEF MWait
  <2>3. \A n \in Missions : mpc'[n] \in {"crane", "store"} => seg[n] < 5
    BY <1>12, <2>1 DEF MWait
  <2>. QED  BY <1>12, <2>2, <2>3 DEF MWait, winchVars
<1>13. ASSUME NEW order \in BtOrders, BtWinch(order)  PROVE TypeOK'
  BY <1>13, WinchAssumption DEF BtWinch, BtOrders, winchVars, missionVars
<1>14. CASE UNCHANGED vars
  BY <1>14 DEF vars, winchVars, missionVars
<1>. QED
  BY <1>1, <1>2, <1>3, <1>4, <1>5, <1>6, <1>7, <1>8, <1>9, <1>10, <1>11,
     <1>12, <1>13, <1>14 DEF Next, WinchTask, Mission

\* The shared variables and every task's registers keep their types, whatever
\* missions run and whatever Bluetooth sends, and no mission reaches for a
\* sixth order.
THEOREM TypeCorrect == Spec => []TypeOK
<1>1. Init => TypeOK
  BY WinchAssumption DEF Init, TypeOK
<1>2. TypeOK /\ [Next]_vars => TypeOK'
  BY TypeStep
<1>. QED  BY <1>1, <1>2, PTL DEF Spec

-----------------------------------------------------------------------------
(* One mission.  Where winchTask stands tells what it knows of winch_steps *)
(* and where the mission stands tells whether winch_steps is zero.         *)

RegisterFits ==
  /\ wpc = "dec" => reg = winch_steps /\ winch_steps > 0
  /\ wpc = "inc" => reg = winch_steps /\ winch_steps < 0
  /\ wpc \in {"testneg", "check"} => reg \in {0, winch_steps}

PulseMeansPending ==
  /\ wpc \in {"high", "low"} => winch_steps # 0
  /\ stepPin = 1 <=> wpc = "low"

ZeroOutsideWait ==
  \A m \in Missions :
    /\ mpc[m] # "wait" => winch_steps = 0
    /\ mreg[m] = 0

StillInv ==
  /\ TypeOK
  /\ btLeft = 0
  /\ RegisterFits /\ PulseMeansPending /\ ZeroOutsideWait

LEMMA StillInvStep ==
  ASSUME NEW m0, Missions = {m0}, StillInv, [Next]_vars, TypeOK'
  PROVE  StillInv'
<1>. USE DEF StillInv, RegisterFits, PulseMeansPending, ZeroOutsideWait
<1>1. CASE WTestPositive
  BY <1>1 DEF WTestPositive, missionVars, TypeOK
<1>2. CASE WReload
  BY <1>2 DEF WReload, missionVars, TypeOK
<1>3. CASE WTestNegative
  BY <1>3 DEF WTestNegative, missionVars, TypeOK
<1>4. CASE WDecrement
  BY <1>4 DEF WDecrement, missionVars, TypeOK
<1>5. CASE WIncrement
  BY <1>5 DEF WIncrement, missionVars, TypeOK
<1>6. CASE WSetDirection
  BY <1>6 DEF WSetDirection, missionVars, TypeOK
<1>7. CASE WCheckZero
  BY <1>7 DEF WCheckZero, missionVars, TypeOK
<1>8. CASE WPulseHigh
  BY <1>8 DEF WPulseHigh, missionVars, TypeOK
<1>9. CASE WPulseLow
  BY <1>9 DEF WPulseLow, missionVars, TypeOK
<1>10. ASSUME NEW m \in Missions, MLoad(m)  PROVE StillInv'
  BY <1>10 DEF MLoad, winchVars, TypeOK
<1>11. ASSUME NEW m \in Missions, MStore(m)  PROVE StillInv'
  <2>1. winch_steps = 0 /\ mreg[m] = 0 /\ seg[m] \in 0..4
    BY <1>11 DEF MStore, TypeOK
  <2>2. winch_steps' \in Int \ {0}
    BY <1>11, <2>1, OrderNonZero DEF MStore
  <2>3. RegisterFits' /\ PulseMeansPending'
    BY <1>11, <2>1, <2>2 DEF MStore, winchVars
  <2>4. ZeroOutsideWait'
    BY <1>11 DEF MStore, TypeOK
  <2>. QED  BY <1>11, <2>3, <2>4 DEF MStore
<1>12. ASSUME NEW m \in Missions, MWait(m)  PROVE StillInv'
  BY <1>12 DEF MWait, winchVars, TypeOK
<1>13. ASSUME NEW order \in BtOrders, BtWinch(order)  PROVE StillInv'
  BY <1>13 DEF BtWinch
<1>14. CASE UNCHANGED vars
  BY <1>14 DEF vars, winchVars, missionVars, TypeOK
<1>. QED
  BY <1>1, <1>2, <1>3, <1>4, <1>5, <1>6, <1>7, <1>8, <1>9, <1>10, <1>11,
     <1>12, <1>13, <1>14 DEF Next, WinchTask, Mission

LEMMA StillInvInit ==
  ASSUME BtBudget = 0, Init  PROVE StillInv
BY WinchAssumption
   DEF Init, StillInv, TypeOK, RegisterFits, PulseMeansPending, ZeroOutsideWait

\* With one mission and no Bluetooth winch command the invariant holds.
LEMMA StillInvHolds ==
  ASSUME NEW CONSTANT m0, Missions = {m0}, BtBudget = 0
  PROVE  Spec => []StillInv
<1>1. Init => StillInv
  BY StillInvInit
<1>2. StillInv /\ TypeOK' /\ [Next]_vars => StillInv'
  BY StillInvStep
<1>. QED  BY <1>1, <1>2, TypeCorrect, PTL DEF Spec

\* While the mission moves the crane no winch pulse is under way or about to
\* start, for every plan and every number of steps.
THEOREM CraneWaitsForWinch ==
  ASSUME NEW CONSTANT m0, Missions = {m0}, BtBudget = 0
  PROVE  Spec => []CraneOnlyWhenWinchStill
<1>1. StillInv => CraneOnlyWhenWinchStill
  BY DEF StillInv, TypeOK, RegisterFits, PulseMeansPending, ZeroOutsideWait,
         CraneOnlyWhenWinchStill
<1>. QED  BY <1>1, StillInvHolds, PTL

-----------------------------------------------------------------------------
(* How far the stepper can be off.  Every order lets winchTask lose one    *)
(* step (it counts to zero and then does not pulse) and make one too many  *)
(* (the order arrives behind the counting, in front of the pulse).  What   *)
(* an order can still do wrong is Pending, and Drift plus Pending is never *)
(* more than two per order.                                                *)

Bit(b) == IF b THEN 1 ELSE 0

\* The step counted in this turn emptied the counter and may get no pulse.
MayLose ==
  \/ wpc = "dirDown" /\ reg = 1
  \/ wpc = "dirUp" /\ reg = -1
  \/ wpc = "check" /\ reg = 0 /\ owed # 0

\* This turn may pulse although it counted nothing.
MayAdd ==
  /\ winch_steps # 0 /\ owed = 0
  /\ \/ wpc = "testneg" /\ ~(reg = winch_steps /\ reg < 0)
     \/ wpc \in {"check", "high"}

Pending == Bit(winch_steps # 0) + Bit(MayLose) + Bit(MayAdd)

CountedAndOwed ==
  /\ wpc \in {"dirDown", "dirUp"} => owed # 0
  /\ owed = 1 => wpc \in {"dirDown", "check", "high"}
  /\ owed = -1 => wpc \in {"dirUp", "check", "high"}
  /\ wpc = "dirDown" => reg > 0 /\ (reg > 1 => winch_steps = reg - 1)
  /\ wpc = "dirUp" => reg < 0 /\ (reg < -1 => winch_steps = reg + 1)

PinFitsCount ==
  wpc \in {"check", "high"} =>
    /\ owed = 1 => dirPin = 1
    /\ owed = -1 => dirPin = 0

DriftInv ==
  \A m \in Missions :
    Drift + Pending <= 2 * seg[m] /\ -Drift + Pending <= 2 * seg[m]

TravelInv == TravelTypeOK /\ CountedAndOwed /\ PinFitsCount /\ DriftInv

LEMMA TravelInvStep ==
  ASSUME NEW m0, Missions = {m0}, StillInv, TravelInv, [TNext]_tvars, StillInv'
  PROVE  TravelInv'
<1>. USE DEF TravelInv, TravelTypeOK, CountedAndOwed, PinFitsCount, DriftInv,
             Drift, Pending, Bit, MayLose, MayAdd
<1>. TypeOK /\ RegisterFits /\ PulseMeansPending /\ ZeroOutsideWait
  BY DEF StillInv
<1>1. CASE WTestPositive /\ UNCHANGED travel
  BY <1>1 DEF WTestPositive, missionVars, travel, TypeOK
<1>2. CASE WReload /\ UNCHANGED travel
  BY <1>2 DEF WReload, missionVars, travel, TypeOK, RegisterFits
<1>3. CASE WTestNegative /\ UNCHANGED travel
  BY <1>3 DEF WTestNegative, missionVars, travel, TypeOK, RegisterFits
<1>4. CASE WSetDirection /\ UNCHANGED travel
  BY <1>4 DEF WSetDirection, missionVars, travel, TypeOK
<1>5. CASE WPulseLow /\ UNCHANGED travel
  BY <1>5 DEF WPulseLow, missionVars, travel, TypeOK
<1>6. CASE WDecrement /\ owed' = 1 /\ UNCHANGED <<pos, asked>>
  BY <1>6 DEF WDecrement, missionVars, TypeOK, RegisterFits
<1>7. CASE WIncrement /\ owed' = -1 /\ UNCHANGED <<pos, asked>>
  BY <1>7 DEF WIncrement, missionVars, TypeOK, RegisterFits
<1>8. CASE Swallow
  BY <1>8 DEF Swallow, WCheckZero, missionVars, TypeOK
<1>9. CASE Move
  <2>1. TravelTypeOK' /\ CountedAndOwed' /\ PinFitsCount'
    BY <1>9 DEF Move, WPulseHigh, missionVars, TypeOK
  <2>2. wpc = "high" /\ winch_steps # 0
    BY <1>9 DEF Move, WPulseHigh, PulseMeansPending
  <2>3. Pending = 1 + Bit(owed = 0) /\ Pending' = 1
    BY <1>9, <2>2 DEF Move, WPulseHigh, missionVars
  <2>4. CASE owed = 0
    <3>1. Drift' = Drift - 1 \/ Drift' = Drift + 1
      BY <1>9, <2>4 DEF Move, WPulseHigh, TypeOK
    <3>. QED
      BY <1>9, <2>1, <2>3, <2>4, <3>1 DEF Move, WPulseHigh, missionVars, TypeOK
  <2>5. CASE owed # 0
    <3>1. Drift' = Drift
      BY <1>9, <2>2, <2>5 DEF Move, WPulseHigh, TypeOK
    <3>. QED
      BY <1>9, <2>1, <2>3, <2>5, <3>1 DEF Move, WPulseHigh, missionVars, TypeOK
  <2>. QED  BY <2>4, <2>5
<1>10. ASSUME NEW m \in Missions, (MLoad(m) \/ MWait(m)) /\ UNCHANGED travel
       PROVE  TravelInv'
  BY <1>10 DEF MLoad, MWait, winchVars, travel, TypeOK
<1>11. ASSUME NEW m \in Missions,
              MStore(m), asked' = asked + Order(m), UNCHANGED <<pos, owed>>
       PROVE  TravelInv'
  <2>1. winch_steps = 0 /\ mreg[m] = 0 /\ seg[m] \in 0..4
    BY <1>11 DEF MStore, TypeOK, ZeroOutsideWait
  <2>2. Order(m) \in Int \ {0}
    BY <2>1, OrderNonZero
  <2>3. winch_steps' = Order(m) /\ asked' = asked + Order(m)
    BY <1>11, <2>1, <2>2 DEF MStore
  <2>4. seg'[m] = seg[m] + 1
    BY <1>11 DEF MStore, TypeOK
  <2>5. Drift' = Drift
    BY <1>11, <2>1, <2>2, <2>3 DEF TypeOK
  <2>6. CountedAndOwed' /\ PinFitsCount' /\ TravelTypeOK'
    BY <1>11, <2>1, <2>2, <2>3 DEF MStore, winchVars, TypeOK
  <2>7. Pending' <= Pending + 2
    BY <1>11, <2>1, <2>2, <2>3 DEF MStore, winchVars, TypeOK
  <2>. HIDE DEF Drift, Pending
  <2>8. Drift \in Int /\ Pending \in Int /\ Pending' \in Int
    BY DEF Drift, Pending, TypeOK
  <2>9. DriftInv'
    BY <2>1, <2>4, <2>5, <2>7, <2>8
  <2>. QED  BY <2>6, <2>9
<1>12. CASE UNCHANGED tvars
  BY <1>12 DEF tvars, vars, winchVars, missionVars, travel
<1>. HIDE DEF TravelInv
<1>. QED
  BY <1>1, <1>2, <1>3, <1>4, <1>5, <1>6, <1>7, <1>8, <1>9, <1>10, <1>11,
     <1>12 DEF TNext

\* Every step of the winch with its stepper is a step of the winch.
LEMMA TravelRefinesWinch == TInit => Init
  BY DEF TInit

LEMMA TravelStepIsWinchStep == [TNext]_tvars => [Next]_vars
  BY DEF TNext, tvars, Next, WinchTask, Mission, Swallow, Move

\* With one mission the stepper is never off by more than two steps for every
\* order issued, for every plan and every number of steps.
THEOREM DriftIsBounded ==
  ASSUME NEW CONSTANT m0, Missions = {m0}, BtBudget = 0
  PROVE  TSpec => []DriftBounded
<1>1. TInit => StillInv /\ TravelInv
  BY StillInvInit, WinchAssumption
     DEF TInit, Init, TravelInv, TravelTypeOK, CountedAndOwed, PinFitsCount,
         DriftInv, Drift, Pending, Bit, MayLose, MayAdd
<1>2. StillInv /\ TravelInv /\ [TNext]_tvars => (StillInv /\ TravelInv)'
  BY TravelStepIsWinchStep, TypeStep, StillInvStep, TravelInvStep DEF StillInv
<1>3. StillInv /\ TravelInv => DriftBounded
  <2>. SUFFICES ASSUME StillInv, TravelInv, NEW m \in Missions
                PROVE  Drift \in -(2 * seg[m])..(2 * seg[m])
    BY DEF DriftBounded
  <2>1. Drift \in Int /\ Pending \in Nat /\ seg[m] \in Int
    BY DEF StillInv, TypeOK, TravelInv, TravelTypeOK, Drift, Pending, Bit
  <2>2. Drift + Pending <= 2 * seg[m] /\ -Drift + Pending <= 2 * seg[m]
    BY DEF TravelInv, DriftInv
  <2>. QED  BY <2>1, <2>2
<1>. QED  BY <1>1, <1>2, <1>3, PTL DEF TSpec

-----------------------------------------------------------------------------
(* The crane, for the first mission after a start of the program.          *)

\* The crane only adds to the winch: whatever holds of TSpec holds of CSpec.
THEOREM CraneRefinesTravel == CSpec => TSpec
<1>1. CInit => TInit
  BY DEF CInit
<1>2. [CNext]_cvars => [TNext]_tvars
  BY DEF CNext, WinchStep, CraneMove, CraneInit, SetPosition, Turn, Arrive,
         cvars
<1>. QED  BY <1>1, <1>2, PTL DEF CSpec, TSpec

\* Two angles a degree apart at most.
Close(a, b) == a \in (b - 1)..(b + 1)

CraneTypes ==
  /\ angle \in Nat /\ current_crane_position \in Nat
  /\ begun \in [Missions -> BOOLEAN]
  /\ todo \in [Missions -> Seq(Nat)]
  /\ sweep \in [Missions -> Nat \cup {Out}]

\* A mission has called crane_init before it moves the crane or orders steps,
\* and while it orders and waits it does not move the crane.
CraneOrder ==
  \A m \in Missions :
    /\ ~begun[m] => /\ mpc[m] = "crane" /\ todo[m] = <<>>
                    /\ current_crane_position = Retracted
    /\ mpc[m] \in {"store", "wait"} => todo[m] = <<>>
    /\ todo[m] = <<>> => sweep[m] = Out

\* The servo is a degree at most from where the program takes it to be: the
\* loop's angle in a call, current_crane_position between calls.
CraneClose ==
  \A m \in Missions :
    Close(angle, IF sweep[m] = Out THEN current_crane_position ELSE sweep[m])

CraneInv == TypeOK /\ CraneTypes /\ CraneOrder /\ CraneClose

\* The positions a mission sets are angles.
LEMMA MovesType ==
  ASSUME NEW m \in Missions, seg[m] \in 0..5  PROVE Moves(m) \in Seq(Nat)
<1>1. seg[m] + 1 \in 1..6
  OBVIOUS
<1>2. \A a, b \in Nat : {<<>>, <<a>>, <<a, b>>} \subseteq Seq(Nat)
  OBVIOUS
<1>3. \A i \in 1..6 :
        CraneMoves[i] \in {<<>>, <<Extended>>, <<Locked, Retracted>>, <<Locked>>,
                          <<PartExtended>>}
  BY DEF CraneMoves
<1>4. \A i \in 1..6 :
        UnloadMoves[i] \in {<<Extended>>, <<Retracted>>, <<Locked>>, <<PartExtended>>}
  BY DEF UnloadMoves
<1>5. {<<>>, <<Extended>>, <<Retracted>>, <<Locked>>, <<PartExtended>>,
       <<Locked, Retracted>>} \subseteq Seq(Nat)
  BY <1>2, CraneAssumption
<1>. QED  BY <1>1, <1>3, <1>4, <1>5 DEF Moves

LEMMA CraneTypesStep ==
  ASSUME TypeOK, CraneTypes, CraneOrder, [CNext]_cvars  PROVE CraneTypes'
<1>. USE DEF CraneTypes
<1>1. CASE WinchStep
  <2>1. \A m \in Missions : Moves(m) \in Seq(Nat)
    BY MovesType DEF TypeOK
  <2>. QED  BY <1>1, <2>1 DEF WinchStep, servo
<1>2. ASSUME NEW m \in Missions, CraneInit(m)  PROVE CraneTypes'
  <2>1. Moves(m) \in Seq(Nat)
    BY MovesType DEF TypeOK
  <2>2. angle' \in Nat
    BY <1>2, CraneAssumption DEF CraneInit, ServoSetAngle
  <2>3. begun' \in [Missions -> BOOLEAN]
    BY <1>2 DEF CraneInit
  <2>. QED  BY <1>2, <2>1, <2>2, <2>3 DEF CraneInit
<1>3. ASSUME NEW m \in Missions, SetPosition(m)  PROVE CraneTypes'
  BY <1>3 DEF SetPosition, servo
<1>4. ASSUME NEW m \in Missions, Turn(m)  PROVE CraneTypes'
  <2>1. sweep[m] \in Nat /\ todo[m] # <<>> /\ todo[m] \in Seq(Nat)
    BY <1>4 DEF Turn, CraneOrder
  <2>2. Target(m) \in Nat
    BY <2>1 DEF Target
  <2>. QED  BY <1>4, <2>1, <2>2 DEF Turn, ServoSetAngle
<1>5. ASSUME NEW m \in Missions, Arrive(m)  PROVE CraneTypes'
  <2>1. todo[m] # <<>> /\ todo[m] \in Seq(Nat)
    BY <1>5 DEF Arrive
  <2>2. Target(m) \in Nat /\ Tail(todo[m]) \in Seq(Nat)
    BY <2>1 DEF Target
  <2>. QED  BY <1>5, <2>2 DEF Arrive
<1>6. CASE UNCHANGED cvars
  BY <1>6 DEF cvars, servo, calls
<1>. QED  BY <1>1, <1>2, <1>3, <1>4, <1>5, <1>6 DEF CNext, CraneMove

LEMMA CraneOrderStep ==
  ASSUME NEW m0, Missions = {m0}, TypeOK, CraneTypes, CraneOrder,
         [CNext]_cvars
  PROVE  CraneOrder'
<1>. USE DEF CraneOrder
<1>1. CASE WinchStep
  <2>1. UNCHANGED <<current_crane_position, begun, sweep>>
    BY <1>1 DEF WinchStep, servo
  <2>2. \/ mpc'[m0] = mpc[m0]
        \/ mpc[m0] = "crane" /\ mpc'[m0] = "store"
        \/ mpc[m0] = "store" /\ mpc'[m0] = "wait"
        \/ mpc[m0] = "wait" /\ mpc'[m0] \in {"done", "crane"}
    BY <1>1 DEF WinchStep, TNext, Swallow, Move, WTestPositive, WReload,
       WTestNegative, WSetDirection, WPulseLow, WDecrement, WIncrement,
       WCheckZero, WPulseHigh, MLoad, MStore, MWait, AfterWait, missionVars,
       TypeOK
  <2>3. CASE mpc[m0] = "crane" /\ mpc'[m0] = "store"
    BY <1>1, <2>1, <2>3 DEF WinchStep, Ordered, Waited
  <2>4. CASE mpc[m0] = "wait" /\ mpc'[m0] \in {"done", "crane"}
    BY <1>1, <2>1, <2>4 DEF WinchStep, Waited
  <2>5. CASE mpc'[m0] = mpc[m0] \/ (mpc[m0] = "store" /\ mpc'[m0] = "wait")
    <3>1. ~Waited(m0)
      BY <2>5 DEF Waited
    <3>2. todo'[m0] = todo[m0]
      BY <1>1, <3>1 DEF WinchStep
    <3>. QED  BY <2>1, <2>5, <3>2
  <2>. QED  BY <2>2, <2>3, <2>4, <2>5
<1>2. ASSUME NEW m \in Missions, CraneInit(m)  PROVE CraneOrder'
  BY <1>2 DEF CraneInit, tvars, vars, missionVars, CraneTypes
<1>3. ASSUME NEW m \in Missions, SetPosition(m)  PROVE CraneOrder'
  BY <1>3 DEF SetPosition, tvars, vars, missionVars, CraneTypes, servo
<1>4. ASSUME NEW m \in Missions, Turn(m)  PROVE CraneOrder'
  BY <1>4 DEF Turn, tvars, vars, missionVars, CraneTypes
<1>5. ASSUME NEW m \in Missions, Arrive(m)  PROVE CraneOrder'
  BY <1>5 DEF Arrive, tvars, vars, missionVars, CraneTypes
<1>6. CASE UNCHANGED cvars
  BY <1>6 DEF cvars, tvars, vars, missionVars, servo, calls
<1>. QED  BY <1>1, <1>2, <1>3, <1>4, <1>5, <1>6 DEF CNext, CraneMove

LEMMA CraneCloseStep ==
  ASSUME NEW m0, Missions = {m0}, CraneTypes, CraneOrder, CraneClose,
         [CNext]_cvars
  PROVE  CraneClose'
<1>. USE DEF CraneClose, Close, CraneTypes, Out
<1>1. CASE WinchStep
  BY <1>1 DEF WinchStep, servo
<1>2. ASSUME NEW m \in Missions, CraneInit(m)  PROVE CraneClose'
  BY <1>2 DEF CraneInit, ServoSetAngle, CraneOrder
<1>3. ASSUME NEW m \in Missions, SetPosition(m)  PROVE CraneClose'
  BY <1>3 DEF SetPosition, servo
<1>4. ASSUME NEW m \in Missions, Turn(m)  PROVE CraneClose'
  <2>1. sweep[m] \in Nat /\ angle' = sweep[m]
    BY <1>4 DEF Turn, ServoSetAngle
  <2>2. Target(m) \in Nat
    BY <1>4 DEF Turn, Target, CraneOrder
  <2>3. sweep'[m] = IF sweep[m] > Target(m) THEN sweep[m] - 1 ELSE sweep[m] + 1
    BY <1>4 DEF Turn
  <2>. QED  BY <2>1, <2>2, <2>3
<1>5. ASSUME NEW m \in Missions, Arrive(m)  PROVE CraneClose'
  <2>1. Target(m) \in Nat /\ sweep[m] = Target(m)
    BY <1>5 DEF Arrive, Target
  <2>2. angle \in (Target(m) - 1)..(Target(m) + 1)
    BY <2>1
  <2>3. /\ angle' = angle /\ current_crane_position' = Target(m)
        /\ sweep' = [sweep EXCEPT ![m] = Out]
    BY <1>5 DEF Arrive
  <2>. QED  BY <2>2, <2>3
<1>6. CASE UNCHANGED cvars
  BY <1>6 DEF cvars, servo, calls
<1>. QED  BY <1>1, <1>2, <1>3, <1>4, <1>5, <1>6 DEF CNext, CraneMove

LEMMA CraneInvHolds ==
  ASSUME NEW CONSTANT m0, Missions = {m0}  PROVE CSpec => []CraneInv
<1>1. CInit => CraneInv
  BY WinchAssumption, CraneAssumption
     DEF CInit, TInit, Init, TypeOK, CraneInv, CraneTypes, CraneOrder,
         CraneClose, Close
<1>2. [CNext]_cvars => [Next]_vars
  BY TravelStepIsWinchStep
     DEF CNext, WinchStep, CraneMove, CraneInit, SetPosition, Turn, Arrive,
         cvars, tvars
<1>3. CraneInv /\ [CNext]_cvars => CraneInv'
  <2>. SUFFICES ASSUME CraneInv, [CNext]_cvars  PROVE CraneInv'
    OBVIOUS
  <2>1. TypeOK'
    BY <1>2, TypeStep DEF CraneInv
  <2>2. CraneTypes' /\ CraneOrder' /\ CraneClose'
    BY CraneTypesStep, CraneOrderStep, CraneCloseStep DEF CraneInv
  <2>. QED  BY <2>1, <2>2 DEF CraneInv
<1>. QED  BY <1>1, <1>3, PTL DEF CSpec

\* In the first mission the servo never turns by more than a degree at once.
THEOREM CraneTurnsSmoothly ==
  ASSUME NEW CONSTANT m0, Missions = {m0}  PROVE CSpec => Smooth
<1>1. CraneInv /\ [CNext]_cvars =>
        [begun' = begun => angle' \in (angle - 1)..(angle + 1)]_cvars
  <2>. SUFFICES ASSUME CraneInv, CNext, begun' = begun
                PROVE  angle' \in (angle - 1)..(angle + 1)
    OBVIOUS
  <2>1. angle \in Nat
    BY DEF CraneInv, CraneTypes
  <2>2. ASSUME NEW m \in Missions, CraneInit(m)  PROVE FALSE
    BY <2>2 DEF CraneInit, CraneInv, CraneTypes
  <2>3. ASSUME NEW m \in Missions, Turn(m)
        PROVE  angle' \in (angle - 1)..(angle + 1)
    BY <2>3 DEF Turn, ServoSetAngle, CraneInv, CraneClose, Close, CraneTypes
  <2>4. CASE angle' = angle
    BY <2>1, <2>4
  <2>. QED
    BY <2>2, <2>3, <2>4
       DEF CNext, CraneMove, WinchStep, SetPosition, Arrive, servo
<1>. QED  BY <1>1, CraneInvHolds, PTL DEF CSpec, Smooth

\* In the first mission crane_set_position leaves the servo where it was asked
\* to, to a degree, for any angles and any order of them.
THEOREM CraneIsFollowed ==
  ASSUME NEW CONSTANT m0, Missions = {m0}  PROVE CSpec => ServoFollows
<1>. DEFINE Returned == \A m \in Missions :
               todo[m] # <<>> /\ todo'[m] = Tail(todo[m])
                 => angle' \in (Target(m) - 1)..(Target(m) + 1)
<1>1. CraneInv /\ [CNext]_cvars => [Returned]_cvars
  <2>. SUFFICES ASSUME CraneInv, CNext, NEW m \in Missions,
                       todo[m] # <<>>, todo'[m] = Tail(todo[m])
                PROVE  angle' \in (Target(m) - 1)..(Target(m) + 1)
    OBVIOUS
  <2>1. todo'[m] # todo[m]
    BY DEF CraneInv, CraneTypes
  <2>2. CASE WinchStep
    BY <2>1, <2>2 DEF WinchStep, Waited, CraneInv, CraneOrder
  <2>3. ASSUME CraneInit(m)  PROVE FALSE
    BY <2>3 DEF CraneInit, CraneInv, CraneOrder
  <2>4. CASE Arrive(m)
    <3>1. Target(m) \in Nat /\ sweep[m] = Target(m) /\ angle' = angle
      BY <2>4 DEF Arrive, Target, CraneInv, CraneTypes
    <3>. QED  BY <3>1 DEF CraneInv, CraneClose, Close, Out
  <2>5. CASE SetPosition(m) \/ Turn(m)
    BY <2>1, <2>5 DEF SetPosition, Turn
  <2>. QED  BY <2>2, <2>3, <2>4, <2>5 DEF CNext, CraneMove
<1>. QED  BY <1>1, CraneInvHolds, PTL DEF CSpec, ServoFollows
=============================================================================
