--------------------------- MODULE CommandsProofs ---------------------------
(***************************************************************************)
(* What holds of Commands for any signals, any number of control blocks    *)
(* and any number of messages.                                             *)
(***************************************************************************)
EXTENDS Commands, FiniteSetTheorems, TLAPS

\* The parts of TypeOK.
Flags ==
  /\ blockFlag \in BOOLEAN /\ stopFlag \in BOOLEAN /\ notified \in BOOLEAN
  /\ btAlive \in BOOLEAN /\ undefined \in BOOLEAN

Numbers ==
  /\ cube \in {0, 1} /\ stopsignal \in Signals \cup {0}
  /\ signalno \in Signals \cup {0} /\ ping \in Signals \cup {0}
  /\ directionno \in 0..2
  /\ upc \in {"update", "cube", "stop", "signal", "direction"}
  /\ ppc \in {"test", "publish", "reset"} /\ pong \in Signals \cup {0}
  /\ due \in Signals \cup {0}
  /\ note \in Nat /\ lastNote \in Nat
  /\ bpc \in {"boot", "loop"} /\ numtobeep \in Nat /\ heard \in Nat

Control ==
  /\ task \in [Blocks -> Missions \cup {"free"}]
  /\ handle \in [Missions -> Blocks \cup {Null, Stray}]
  /\ teleLeft \in 0..TeleBudget /\ btLeft \in 0..BtBudget
  /\ fresh \in [Missions -> BOOLEAN] /\ asked \in [Missions -> Nat]

LEMMA TypeParts == TypeOK <=> Flags /\ Numbers /\ Control
  BY Zenon DEF TypeOK, Flags, Numbers, Control

LEMMA TypesInit == Init => TypeOK
<1>1. Init => Flags
  BY Zenon DEF Init, Flags
<1>2. Init => Numbers
  BY DEF Init, Numbers
<1>3. Init => Control
  BY CommandsAssumption DEF Init, Control
<1> QED
  BY <1>1, <1>2, <1>3, TypeParts

-----------------------------------------------------------------------------
LEMMA FlagsStep == Flags /\ [Next]_vars => Flags'
<1> SUFFICES ASSUME Flags, [Next]_vars PROVE Flags'
  OBVIOUS
<1> USE DEF Flags, attachedVars, update, pinging, beeping, control, budgets
<1>1. CASE Receive
  BY <1>1, Zenon DEF Receive
<1>2. CASE UpdateEnds
  BY <1>2, Zenon DEF UpdateEnds
<1>3. CASE StartCube
  BY <1>3, Zenon DEF StartCube, UGoto, Notify
<1>4. CASE StartStop
  BY <1>4, Zenon DEF StartStop, UGoto, Notify
<1>5. CASE Signal
  BY <1>5, Zenon DEF Signal, UGoto, Notify
<1>6. CASE Direction
  BY <1>6, Zenon DEF Direction, UGoto, Notify
<1>7. CASE PingTask
  BY <1>7, Zenon DEF PingTask, PingTest, PingPublish, PingReset
<1>8. CASE BeepTask
  BY <1>8, Zenon DEF BeepTask, BeepBoot, Beep, BeepWait
<1>9. ASSUME NEW m \in Missions, BtStart(m)  PROVE Flags'
  BY <1>9, Zenon DEF BtStart, BtCommand
<1>10. ASSUME NEW m \in Missions, BtStop(m)  PROVE Flags'
  BY <1>10, Zenon DEF BtStop, BtCommand
<1>11. ASSUME NEW v \in Signals \cup {0}, BtBeep(v)  PROVE Flags'
  BY <1>11, Zenon DEF BtBeep, BtCommand, Notify
<1>12. ASSUME NEW b \in Blocks, MissionEnds(b)  PROVE Flags'
  BY <1>12, Zenon DEF MissionEnds
<1>13. CASE UNCHANGED vars
  BY <1>13, Zenon DEF vars
<1> QED
  BY <1>1, <1>2, <1>3, <1>4, <1>5, <1>6, <1>7, <1>8, <1>9, <1>10, <1>11, <1>12,
     <1>13, Zenon DEF Next, TeleUpdate

LEMMA NumbersStep == Numbers /\ [Next]_vars => Numbers'
<1> SUFFICES ASSUME Numbers, [Next]_vars PROVE Numbers'
  OBVIOUS
<1> USE CommandsAssumption
    DEF Numbers, attachedVars, update, pinging, beeping, control, budgets
<1>1. CASE Receive
  BY <1>1 DEF Receive
<1>2. CASE TeleUpdate
  BY <1>2 DEF TeleUpdate, UpdateEnds, StartCube, StartStop, Signal, Direction,
              UGoto, Notify
<1>3. CASE PingTask
  BY <1>3 DEF PingTask, PingTest, PingPublish, PingReset
<1>4. CASE BeepTask
  BY <1>4 DEF BeepTask, BeepBoot, Beep, BeepWait
<1>5. ASSUME NEW m \in Missions, BtStart(m) \/ BtStop(m)  PROVE Numbers'
  BY <1>5 DEF BtStart, BtStop, BtCommand
<1>6. ASSUME NEW v \in Signals \cup {0}, BtBeep(v)  PROVE Numbers'
  BY <1>6 DEF BtBeep, BtCommand, Notify
<1>7. ASSUME NEW b \in Blocks, MissionEnds(b)  PROVE Numbers'
  BY <1>7 DEF MissionEnds
<1>8. CASE UNCHANGED vars
  BY <1>8 DEF vars
<1> QED
  BY <1>1, <1>2, <1>3, <1>4, <1>5, <1>6, <1>7, <1>8 DEF Next

LEMMA ControlStep == Numbers /\ Control /\ [Next]_vars => Control'
<1> SUFFICES ASSUME Numbers, Control, [Next]_vars PROVE Control'
  OBVIOUS
<1> USE CommandsAssumption DEF Control, control, budgets
<1>1. CASE Receive
  BY <1>1 DEF Receive, Numbers, Missions
<1>2. ASSUME NEW m \in Missions, Create(m) \/ UNCHANGED task,
             UNCHANGED <<handle, btAlive, undefined, fresh, asked, budgets>>
      PROVE Control'
  BY <1>2 DEF Create, Free
<1>3. CASE StartCube \/ StartStop
  BY <1>2, <1>3 DEF StartCube, StartStop, Missions
<1>4. CASE UpdateEnds \/ Signal \/ Direction \/ PingTask \/ BeepTask
  BY <1>4 DEF UpdateEnds, Signal, Direction, PingTask, PingTest, PingPublish,
              PingReset, BeepTask, BeepBoot, Beep, BeepWait
<1>5. ASSUME NEW m \in Missions, BtStart(m)  PROVE Control'
  <2>1. teleLeft' \in 0..TeleBudget /\ btLeft' \in 0..BtBudget
    BY <1>5 DEF BtStart, BtCommand
  <2>2. asked' \in [Missions -> Nat]
    BY <1>5 DEF BtStart
  <2>3. CASE UNCHANGED <<task, handle, fresh>>
    BY <2>1, <2>2, <2>3
  <2>4. ASSUME NEW b \in Free,
               task' = [task EXCEPT ![b] = m],
               handle' = [handle EXCEPT ![m] = b],
               fresh' = [fresh EXCEPT ![m] = TRUE]
        PROVE Control'
    <3>1. b \in Blocks
      BY DEF Free
    <3>2. task' \in [Blocks -> Missions \cup {"free"}]
      BY <2>4, <3>1
    <3>3. handle' \in [Missions -> Blocks \cup {Null, Stray}]
      BY <2>4, <3>1
    <3>4. fresh' \in [Missions -> BOOLEAN]
      BY <2>4
    <3> QED
      BY <2>1, <2>2, <3>2, <3>3, <3>4
  <2> QED
    BY <1>5, <2>3, <2>4 DEF BtStart
<1>6. ASSUME NEW m \in Missions, BtStop(m)  PROVE Control'
  <2>1. teleLeft' \in 0..TeleBudget /\ btLeft' \in 0..BtBudget
    BY <1>6 DEF BtStop, BtCommand
  <2>2. handle' = handle /\ asked' = asked
    BY <1>6 DEF BtStop
  <2>3. CASE UNCHANGED <<task, fresh>>
    BY <2>1, <2>2, <2>3
  <2>4. CASE Ends(handle[m])
    <3>1. task' \in [Blocks -> Missions \cup {"free"}]
      BY <2>4 DEF Ends
    <3>2. fresh' \in [Missions -> BOOLEAN]
      BY <2>4 DEF Ends
    <3> QED
      BY <2>1, <2>2, <3>1, <3>2
  <2> QED
    BY <1>6, <2>3, <2>4 DEF BtStop
<1>7. ASSUME NEW v \in Signals \cup {0}, BtBeep(v)  PROVE Control'
  BY <1>7 DEF BtBeep, BtCommand
<1>8. ASSUME NEW b \in Blocks, MissionEnds(b)  PROVE Control'
  BY <1>8 DEF MissionEnds, Ends
<1>9. CASE UNCHANGED vars
  BY <1>9 DEF vars
<1> QED
  BY <1>1, <1>3, <1>4, <1>5, <1>6, <1>7, <1>8, <1>9 DEF Next, TeleUpdate

(* The types of every variable, through every command and every message.   *)
THEOREM CommandsTypeCorrect == Spec => []TypeOK
  BY TypesInit, TypeParts, FlagsStep, NumbersStep, ControlStep, PTL DEF Spec

-----------------------------------------------------------------------------
(* The task last started by Bluetooth is the one its handle names: a block *)
(* is handed out only when free, and what ends is no longer fresh.         *)
THEOREM HandlesAreFresh == Spec => []FreshHandle
<1>1. Init => FreshHandle
  BY DEF Init, FreshHandle
<1>2. TypeOK /\ FreshHandle /\ [Next]_vars => FreshHandle'
  <2> SUFFICES ASSUME TypeOK, FreshHandle, [Next]_vars PROVE FreshHandle'
    OBVIOUS
  <2> USE DEF FreshHandle
  <2>1. ASSUME NEW m \in Missions, Create(m), UNCHANGED <<handle, fresh>>
        PROVE FreshHandle'
    BY <2>1 DEF Create, Free, TypeOK, Missions
  <2>2. ASSUME UNCHANGED <<task, handle, fresh>> PROVE FreshHandle'
    BY <2>2
  <2>3. ASSUME NEW b \in Blocks, Ends(b), UNCHANGED handle PROVE FreshHandle'
    BY <2>3 DEF Ends, TypeOK
  <2>4. CASE StartCube
    BY <2>1, <2>2, <2>4 DEF StartCube, Missions
  <2>5. CASE StartStop
    BY <2>1, <2>2, <2>5 DEF StartStop, Missions
  <2>6. ASSUME NEW m \in Missions, BtStart(m) PROVE FreshHandle'
    <3>1. CASE UNCHANGED <<task, handle, fresh>>
      BY <2>2, <3>1
    <3>2. ASSUME NEW b \in Free,
                 task' = [task EXCEPT ![b] = m],
                 handle' = [handle EXCEPT ![m] = b],
                 fresh' = [fresh EXCEPT ![m] = TRUE]
          PROVE FreshHandle'
      BY <3>2 DEF Free, TypeOK, Missions
    <3> QED
      BY <2>6, <3>1, <3>2 DEF BtStart
  <2>7. ASSUME NEW m \in Missions, BtStop(m) PROVE FreshHandle'
    BY <2>2, <2>3, <2>7 DEF BtStop
  <2>8. ASSUME NEW b \in Blocks, MissionEnds(b) PROVE FreshHandle'
    BY <2>3, <2>8 DEF MissionEnds
  <2>9. CASE Receive \/ UpdateEnds \/ Signal \/ Direction \/ PingTask \/ BeepTask
    BY <2>2, <2>9 DEF Receive, UpdateEnds, Signal, Direction, PingTask, PingTest,
                      PingPublish, PingReset, BeepTask, BeepBoot, Beep, BeepWait,
                      control
  <2>10. ASSUME NEW v \in Signals \cup {0}, BtBeep(v) PROVE FreshHandle'
    BY <2>2, <2>10 DEF BtBeep, control
  <2>11. CASE UNCHANGED vars
    BY <2>2, <2>11 DEF vars, control
  <2> QED
    BY <2>4, <2>5, <2>6, <2>7, <2>8, <2>9, <2>10, <2>11 DEF Next, TeleUpdate
<1> QED
  BY <1>1, <1>2, CommandsTypeCorrect, PTL DEF Spec

-----------------------------------------------------------------------------
\* Between its test and its reset pingTask holds a ping that was sent.
PingHeld ==
  /\ ppc \in {"publish", "reset"} => ping \in Signals
  /\ PongIsPing

(* pingTask never publishes the zero it stores itself.                     *)
THEOREM PongIsSent == Spec => []PongIsPing
<1>1. Init => PingHeld
  BY DEF Init, PingHeld, PongIsPing
<1>2. Numbers /\ PingHeld /\ [Next]_vars => PingHeld'
  <2> SUFFICES ASSUME Numbers, PingHeld, [Next]_vars PROVE PingHeld'
    OBVIOUS
  <2> USE DEF PingHeld, PongIsPing
  <2>1. CASE Receive
    BY <2>1 DEF Receive
  <2>2. CASE PingTask
    BY <2>2, CommandsAssumption
       DEF PingTask, PingTest, PingPublish, PingReset, Numbers, attachedVars
  <2>3. CASE TeleUpdate
    BY <2>3 DEF TeleUpdate, UpdateEnds, StartCube, StartStop, Signal, Direction,
                attachedVars, pinging
  <2>4. CASE BeepTask
    BY <2>4 DEF BeepTask, BeepBoot, Beep, BeepWait, attachedVars, pinging
  <2>5. ASSUME NEW m \in Missions, BtStart(m) \/ BtStop(m) PROVE PingHeld'
    BY <2>5 DEF BtStart, BtStop, BtCommand, attachedVars, pinging
  <2>6. ASSUME NEW v \in Signals \cup {0}, BtBeep(v) PROVE PingHeld'
    BY <2>6 DEF BtBeep, BtCommand, attachedVars, pinging
  <2>7. ASSUME NEW b \in Blocks, MissionEnds(b) PROVE PingHeld'
    BY <2>7 DEF MissionEnds, attachedVars, pinging
  <2>8. CASE UNCHANGED vars
    BY <2>8 DEF vars, attachedVars, pinging
  <2> QED
    BY <2>1, <2>2, <2>3, <2>4, <2>5, <2>6, <2>7, <2>8 DEF Next
<1>3. PingHeld => PongIsPing
  BY DEF PingHeld
<1> QED
  BY <1>1, <1>2, <1>3, TypeParts, CommandsTypeCorrect, PTL DEF Spec

-----------------------------------------------------------------------------
Running(m) == {b \in Blocks : task[b] = m}

\* A start that teleUpdateTask has been asked for and still owes.
Owed(m) ==
  IF \/ m = "crane_task" /\ cube = 1 /\ blockFlag = FALSE
     \/ m = "stop_task" /\ stopsignal >= 1 /\ stopFlag = FALSE
  THEN 1 ELSE 0

StartInv == \A m \in Missions : Cardinality(Running(m)) + Owed(m) <= asked[m]

LEMMA RunningFinite ==
  ASSUME NEW m \in Missions
  PROVE  IsFiniteSet(Running(m)) /\ Cardinality(Running(m)) \in Nat
  BY CommandsAssumption, FS_Subset, FS_CardinalityType DEF Running

\* One block more for the mission that is started, none for the others.
LEMMA OneMore ==
  ASSUME Control, NEW m \in Missions, NEW b \in Free,
         task' = [task EXCEPT ![b] = m], NEW k \in Missions
  PROVE  /\ Cardinality(Running(k))' \in Nat
         /\ Cardinality(Running(k))'
              <= Cardinality(Running(k)) + (IF k = m THEN 1 ELSE 0)
<1>1. Running(k)' = IF k = m THEN Running(k) \cup {b} ELSE Running(k)
  BY DEF Running, Free, Control, Missions
<1>2. IsFiniteSet(Running(k)) /\ Cardinality(Running(k)) \in Nat
  BY RunningFinite
<1>3. CASE k = m
  <2>1. Cardinality(Running(k) \cup {b}) =
          IF b \in Running(k) THEN Cardinality(Running(k))
                              ELSE Cardinality(Running(k)) + 1
    BY <1>2, FS_AddElement
  <2> QED
    BY <1>1, <1>2, <1>3, <2>1
<1>4. CASE k # m
  BY <1>1, <1>2, <1>4
<1> QED
  BY <1>3, <1>4

\* A task that ends makes no count larger.
LEMMA NoneMore ==
  ASSUME Control, NEW b \in Blocks, Ends(b) \/ UNCHANGED task, NEW k \in Missions
  PROVE  /\ Cardinality(Running(k))' \in Nat
         /\ Cardinality(Running(k))' <= Cardinality(Running(k))
<1>1. Running(k)' \in SUBSET Running(k)
  BY DEF Running, Ends, Control, Missions
<1> QED
  BY <1>1, RunningFinite, FS_Subset, FS_CardinalityType

(* No more missions run than Bluetooth and telemetry asked for: what        *)
(* teleUpdateTask owes is counted, and its latch is set when it is paid.    *)
THEOREM StartsAreAsked == Spec => []StartsAsAsked
<1>1. Init => StartInv
  <2> SUFFICES ASSUME Init, NEW m \in Missions
               PROVE Cardinality(Running(m)) + Owed(m) <= asked[m]
    BY DEF StartInv
  <2>1. Running(m) = {}
    BY DEF Init, Running, Missions
  <2>2. Owed(m) = 0
    BY DEF Init, Owed
  <2> QED
    BY <2>1, <2>2, FS_EmptySet DEF Init
<1>2. Numbers /\ Control /\ StartInv /\ [Next]_vars => StartInv'
  <2> SUFFICES ASSUME Numbers, Control, StartInv, [Next]_vars,
                      NEW k \in Missions
               PROVE (Cardinality(Running(k)) + Owed(k) <= asked[k])'
    BY DEF StartInv
  <2>1. /\ Cardinality(Running(k)) \in Nat
        /\ asked[k] \in Nat
        /\ Cardinality(Running(k)) + Owed(k) <= asked[k]
    BY RunningFinite DEF StartInv, Control
  <2>2. Owed(k) \in {0, 1} /\ Owed(k)' \in {0, 1}
    BY DEF Owed
  <2>3. ASSUME UNCHANGED <<task, asked, cube, stopsignal, blockFlag, stopFlag>>
        PROVE (Cardinality(Running(k)) + Owed(k) <= asked[k])'
    BY <2>1, <2>3 DEF Running, Owed
  <2>4. ASSUME NEW m \in Missions, Create(m), k = m => Owed(k) = 1 /\ Owed(k)' = 0,
               k # m => Owed(k)' = Owed(k), asked' = asked
        PROVE (Cardinality(Running(k)) + Owed(k) <= asked[k])'
    <3>1. CASE UNCHANGED task
      <4>1. Cardinality(Running(k))' = Cardinality(Running(k))
        BY <3>1 DEF Running
      <4> QED
        BY <2>1, <2>2, <2>4, <4>1
    <3>2. ASSUME NEW b \in Free, task' = [task EXCEPT ![b] = m]
          PROVE (Cardinality(Running(k)) + Owed(k) <= asked[k])'
      <4>1. /\ Cardinality(Running(k))' \in Nat
            /\ Cardinality(Running(k))'
                 <= Cardinality(Running(k)) + (IF k = m THEN 1 ELSE 0)
        BY <3>2, OneMore
      <4> QED
        BY <2>1, <2>2, <2>4, <4>1
    <3> QED
      BY <2>4, <3>1, <3>2 DEF Create
  <2>5. CASE StartCube
    <3>1. CASE cube = 1 /\ ~blockFlag
      <4>1. /\ Create("crane_task") /\ blockFlag' = TRUE
            /\ UNCHANGED <<cube, stopsignal, stopFlag, asked>>
        BY <2>5, <3>1 DEF StartCube, attachedVars
      <4>2. /\ k = "crane_task" => Owed(k) = 1 /\ Owed(k)' = 0
            /\ k # "crane_task" => Owed(k)' = Owed(k)
        BY <3>1, <4>1 DEF Owed
      <4> QED
        BY <2>4, <4>1, <4>2 DEF Missions
    <3>2. CASE ~(cube = 1 /\ ~blockFlag)
      BY <2>3, <2>5, <3>2 DEF StartCube, attachedVars
    <3> QED
      BY <3>1, <3>2
  <2>6. CASE StartStop
    <3>1. CASE stopsignal >= 1 /\ ~stopFlag
      <4>1. /\ Create("stop_task") /\ stopFlag' = TRUE
            /\ UNCHANGED <<cube, stopsignal, blockFlag, asked>>
        BY <2>6, <3>1 DEF StartStop, attachedVars
      <4>2. /\ k = "stop_task" => Owed(k) = 1 /\ Owed(k)' = 0
            /\ k # "stop_task" => Owed(k)' = Owed(k)
        BY <3>1, <4>1 DEF Owed
      <4> QED
        BY <2>4, <4>1, <4>2 DEF Missions
    <3>2. CASE ~(stopsignal >= 1 /\ ~stopFlag)
      BY <2>3, <2>6, <3>2 DEF StartStop, attachedVars
    <3> QED
      BY <3>1, <3>2
  <2>7. CASE Receive
    <3>1. /\ UNCHANGED <<task, blockFlag, stopFlag>>
          /\ Cardinality(Running(k))' = Cardinality(Running(k))
      BY <2>7 DEF Receive, update, Running
    <3>2. CASE cube' = 1 /\ asked' = [asked EXCEPT !["crane_task"] = @ + (1 - cube)]
               /\ UNCHANGED stopsignal
      <4>1. CASE k = "crane_task"
        <5>1. cube \in {0, 1} /\ asked'[k] = asked[k] + (1 - cube)
          BY <3>2, <4>1 DEF Numbers, Control
        <5>2. CASE cube = 0
          BY <2>1, <2>2, <3>1, <5>1, <5>2
        <5>3. CASE cube = 1
          BY <2>1, <3>1, <3>2, <4>1, <5>1, <5>3 DEF Owed
        <5> QED
          BY <5>1, <5>2, <5>3
      <4>2. CASE k # "crane_task"
        BY <2>1, <3>1, <3>2, <4>2 DEF Owed, Control
      <4> QED
        BY <4>1, <4>2
    <3>3. CASE /\ stopsignal' \in Signals /\ UNCHANGED cube
               /\ asked' = [asked EXCEPT !["stop_task"] =
                              IF stopsignal = 0 THEN @ + 1 ELSE @]
      <4>1. CASE k = "stop_task" /\ stopsignal = 0
        BY <2>1, <2>2, <3>1, <3>3, <4>1 DEF Control
      <4>2. CASE k = "stop_task" /\ stopsignal # 0
        <5>1. stopsignal >= 1 /\ asked'[k] = asked[k]
          BY <3>3, <4>2, CommandsAssumption DEF Numbers, Control
        <5> QED
          BY <2>1, <3>1, <4>2, <5>1 DEF Owed
      <4>3. CASE k # "stop_task"
        BY <2>1, <3>1, <3>3, <4>3 DEF Owed, Control
      <4> QED
        BY <4>1, <4>2, <4>3
    <3>4. CASE UNCHANGED <<cube, stopsignal, asked>>
      BY <2>3, <3>1, <3>4
    <3> QED
      BY <2>7, <3>2, <3>3, <3>4 DEF Receive
  <2>8. ASSUME NEW m \in Missions, BtStart(m)
        PROVE (Cardinality(Running(k)) + Owed(k) <= asked[k])'
    <3>1. /\ Owed(k)' = Owed(k) /\ asked' = [asked EXCEPT ![m] = @ + 1]
      BY <2>8 DEF BtStart, BtCommand, attachedVars, update, Owed
    <3>2. CASE UNCHANGED task
      BY <2>1, <2>2, <3>1, <3>2 DEF Running, Control
    <3>3. ASSUME NEW b \in Free, task' = [task EXCEPT ![b] = m]
          PROVE (Cardinality(Running(k)) + Owed(k) <= asked[k])'
      <4>1. /\ Cardinality(Running(k))' \in Nat
            /\ Cardinality(Running(k))'
                 <= Cardinality(Running(k)) + (IF k = m THEN 1 ELSE 0)
        BY <3>3, OneMore
      <4>2. asked'[k] = asked[k] + (IF k = m THEN 1 ELSE 0)
        BY <3>1 DEF Control
      <4> QED
        BY <2>1, <2>2, <3>1, <4>1, <4>2
    <3> QED
      BY <2>8, <3>2, <3>3 DEF BtStart
  <2>9. ASSUME NEW b \in Blocks, Ends(b), Owed(k)' = Owed(k), asked' = asked
        PROVE (Cardinality(Running(k)) + Owed(k) <= asked[k])'
    BY <2>1, <2>2, <2>9, NoneMore
  <2>10. ASSUME NEW m \in Missions, BtStop(m)
         PROVE (Cardinality(Running(k)) + Owed(k) <= asked[k])'
    <3>1. /\ UNCHANGED <<cube, stopsignal, blockFlag, stopFlag, asked>>
          /\ Owed(k)' = Owed(k)
      BY <2>10 DEF BtStop, BtCommand, attachedVars, update, Owed
    <3>2. CASE UNCHANGED task
      BY <2>3, <3>1, <3>2
    <3>3. CASE handle[m] \in Blocks /\ Ends(handle[m])
      BY <2>9, <3>1, <3>3
    <3> QED
      BY <2>10, <3>2, <3>3 DEF BtStop
  <2>11. ASSUME NEW b \in Blocks, MissionEnds(b)
         PROVE (Cardinality(Running(k)) + Owed(k) <= asked[k])'
    <3>1. Ends(b) /\ Owed(k)' = Owed(k) /\ asked' = asked
      BY <2>11 DEF MissionEnds, attachedVars, update, Owed
    <3> QED
      BY <2>9, <3>1
  <2>12. CASE UpdateEnds \/ Signal \/ Direction \/ PingTask \/ BeepTask
    BY <2>3, <2>12 DEF UpdateEnds, Signal, Direction, PingTask, PingTest,
         PingPublish, PingReset, BeepTask, BeepBoot, Beep, BeepWait,
         attachedVars, update, control
  <2>13. ASSUME NEW v \in Signals \cup {0}, BtBeep(v)
         PROVE (Cardinality(Running(k)) + Owed(k) <= asked[k])'
    BY <2>3, <2>13 DEF BtBeep, BtCommand, attachedVars, update, control
  <2>14. CASE UNCHANGED vars
    BY <2>3, <2>14 DEF vars, attachedVars, update, control
  <2> QED
    BY <2>5, <2>6, <2>7, <2>8, <2>10, <2>11, <2>12, <2>13, <2>14
       DEF Next, TeleUpdate
<1>3. Numbers /\ Control /\ StartInv => StartsAsAsked
  <2> SUFFICES ASSUME Control, StartInv, NEW m \in Missions
               PROVE Cardinality(Running(m)) <= asked[m]
    BY DEF StartsAsAsked, Running
  <2>1. Owed(m) \in {0, 1}
    BY DEF Owed
  <2> QED
    BY <2>1, RunningFinite DEF StartInv, Control
<1> QED
  BY <1>1, <1>2, <1>3, TypeParts, CommandsTypeCorrect, PTL DEF Spec
=============================================================================
