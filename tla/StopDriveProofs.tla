-------------------------- MODULE StopDriveProofs --------------------------
(***************************************************************************)
(* Proofs about StopDrive: stop_task at work on the motor controller, for  *)
(* any other clients before it, any gains and speeds, any distances and    *)
(* any pulse that is short enough for the limits of the source.            *)
(***************************************************************************)
EXTENDS StopDrive, MotorControlProofs, FiniteSetTheorems

\* What holds from a statement of stop_task on.
Creep      == Creeping \cup {"arrived", "enable", "report"}
Disabled   == Creep \cup {"settle"}
TargetZero == Disabled \cup {"disable"}

StopTypes ==
  /\ spc \in TargetZero \cup {"start", "setMotDir", "setRPM"}
  /\ stopDistance \in {0, White, Black} /\ near \in BOOLEAN
  /\ dist \in Nat /\ failed \in BOOLEAN /\ turns \in 0..2

\* stop_task's own calls: they have returned when the creeping begins, the
\* target is zero from its setRPM on, and control is off until it has arrived.
CallsInv ==
  /\ spc \in Creep => cpc[Train] = "idle"
  /\ spc \in TargetZero => targetRPM = 0
  /\ spc \in Disabled \ {"report"} => controlEnable = 0

\* The iteration in flight when control went off is over.
Off == spc \in Creep \/ (spc = "settle" /\ turns >= 1)

\* So is the first one that began with control off.
Settled ==
  \/ spc \in Creep
  \/ spc = "settle" /\ (turns = 2 \/ (turns = 1 /\ lpc = "accumulate"))

\* The loop has nothing left from before: no duty to write, and no target
\* above zero once a ramp began after control went off.
QuietInv ==
  /\ Off =>
       /\ lpc \notin Driving \/ spc = "report"
       /\ lpc = "ramp" /\ same => pidTarget = targetRPM
       /\ lpc \in {"control", "accumulate"} => pidTarget <= 0
  /\ Settled => ~missed /\ pidTarget <= 0

DutyInv ==
  /\ spc = "moving" => duty = SlowDuty
  /\ spc \in {"measure", "arrived", "enable", "report"} => duty = 0

\* Nothing but a pulse moves the train: it is a pulse away from the signal
\* before each one, and further in the first loop.
WayInv ==
  /\ spc # "start" => stopDistance \in {White, Black}
  /\ spc \in {"pulse", "moving"} =>
       /\ Unit * dist > Unit * Pulse + Blur
       /\ ~near => Unit * dist > Far
  /\ spc = "measure" =>
       /\ Unit * dist > Blur
       /\ ~near => Unit * dist > Unit * Pulse + Blur
  /\ spc \in {"arrived", "enable", "report"} =>
       dist > 0 /\ (failed \/ Unit * dist <= stopDistance)

DriveInv ==
  TypeOK /\ WindInv /\ StopTypes /\ CallsInv /\ QuietInv

-----------------------------------------------------------------------------
(* The motor controller under stop_task: its own steps, and a duty that    *)
(* stop_task writes itself.                                                *)
LEMMA MotorStep ==
  ASSUME TypeOK, WindInv, [SNext]_svars  PROVE TypeOK' /\ WindInv'
<1>1. ASSUME [Next]_vars  PROVE TypeOK' /\ WindInv'
  BY <1>1, TypeStep, WindInvStep
<1>2. ASSUME NEW d \in 0..MaxPwm, SetDuty(d)  PROVE TypeOK' /\ WindInv'
  <2>1. UNCHANGED <<globals, pinF, pinR, loop, clients, history>> /\ duty' \in 0..MaxPwm
    BY <1>2 DEF SetDuty
  <2>2. TypeOK'
    BY <2>1 DEF TypeOK, globals, loop, clients, history
  <2>3. WindInv'
    BY <2>1 DEF WindInv, ZeroTargetNoDrive, loop, history
  <2>. QED  BY <2>2, <2>3
<1>3. CASE LoopTurn
  BY <1>1, <1>3 DEF LoopTurn, Next
<1>4. ASSUME NEW c \in Clients, Before(c)  PROVE TypeOK' /\ WindInv'
  BY <1>1, <1>4 DEF Before, Next
<1>5. CASE SCall
  <2>1. Client(Train)
    BY <1>5 DEF SCall, Client
  <2>. QED  BY <1>1, <2>1, StopAssumption DEF Next
<1>6. CASE SReturn
  <2>1. Client(Train)
    BY <1>6 DEF SReturn, Client
  <2>. QED  BY <1>1, <2>1, StopAssumption DEF Next
<1>7. CASE SPulse
  BY <1>2, <1>7, StopAssumption DEF SPulse
<1>8. CASE SMove
  BY <1>2, <1>8, MotorAssumption DEF SMove
<1>9. CASE SStart \/ SSettle \/ SMeasure
  BY <1>1, <1>9 DEF SStart, SSettle, SMeasure
<1>10. CASE UNCHANGED svars
  BY <1>1, <1>10 DEF svars
<1>. QED
  BY <1>3, <1>4, <1>5, <1>6, <1>7, <1>8, <1>9, <1>10 DEF SNext, StopTask

LEMMA StopTypesStep ==
  ASSUME StopTypes, [SNext]_svars  PROVE StopTypes'
<1>. USE DEF StopTypes, TargetZero, Disabled, Creep, Creeping
<1>1. CASE LoopTurn
  BY <1>1 DEF LoopTurn, Least
<1>2. ASSUME NEW c \in Clients, Before(c)  PROVE StopTypes'
  BY <1>2 DEF Before, stop
<1>3. CASE SStart
  BY <1>3 DEF SStart, Goto
<1>4. CASE SCall
  BY <1>4 DEF SCall, Goto
<1>5. CASE SReturn
  BY <1>5 DEF SReturn, stop
<1>6. CASE SSettle
  BY <1>6, StopAssumption DEF SSettle, Goto
<1>7. CASE SPulse
  BY <1>7 DEF SPulse, Goto
<1>8. CASE SMove
  <2>1. dist' \in Nat
    BY <1>8, StopAssumption DEF SMove, Moved
  <2>. QED  BY <1>8, <2>1 DEF SMove, Goto
<1>9. CASE SMeasure
  <2>1. failed' \in BOOLEAN /\ near' \in BOOLEAN
    BY <1>9 DEF SMeasure
  <2>2. spc' \in {"pulse", "arrived"} /\ turns' = 0
    BY <1>9 DEF SMeasure, Goto
  <2>. QED  BY <1>9, <2>1, <2>2 DEF SMeasure
<1>10. CASE UNCHANGED svars
  BY <1>10 DEF svars, stop
<1>. QED
  BY <1>1, <1>2, <1>3, <1>4, <1>5, <1>6, <1>7, <1>8, <1>9, <1>10
     DEF SNext, StopTask

LEMMA CallsStep ==
  ASSUME TypeOK, StopTypes, CallsInv, [SNext]_svars  PROVE CallsInv'
<1>. USE DEF CallsInv, TargetZero, Disabled, Creep, Creeping
<1>1. CASE LoopTurn
  <2>1. UNCHANGED <<targetRPM, controlEnable, cpc>>
    BY <1>1 DEF LoopTurn, MotCntrlTask, LBoot, LCompare, LRamp, LControl,
       LDirection, LPin1, LPin2, LDuty, LAccumulate, globals, clients
  <2>. QED  BY <1>1, <2>1 DEF LoopTurn
<1>2. ASSUME NEW c \in Clients, Before(c)  PROVE CallsInv'
  BY <1>2 DEF Before, stop
<1>3. CASE SStart
  BY <1>3 DEF SStart, Goto
<1>4. CASE SCall
  <2>1. CASE spc = "setMotDir"
    BY <1>4, <2>1 DEF SCall, Goto
  <2>2. CASE spc = "setRPM"
    BY <1>4, <2>2 DEF SCall, Goto
  <2>3. CASE spc = "disable"
    BY <1>4, <2>3 DEF SCall, Goto, DisableMotorControl
  <2>4. CASE spc = "arrived"
    BY <1>4, <2>4 DEF SCall, Goto, SetRPM
  <2>5. CASE spc = "enable"
    BY <1>4, <2>5 DEF SCall, Goto, EnableMotorControl
  <2>. QED  BY <1>4, <2>1, <2>2, <2>3, <2>4, <2>5 DEF SCall
<1>5. CASE SReturn
  <2>1. UNCHANGED <<targetRPM, controlEnable, spc>> /\ cpc[Train] # "idle"
    BY <1>5 DEF SReturn, Return, DirPin1, DirPin2, DutyOff, globals, stop
  <2>. QED  BY <2>1
<1>6. CASE SSettle
  BY <1>6 DEF SSettle, Goto, vars, globals, clients
<1>7. CASE SPulse \/ SMove
  BY <1>7 DEF SPulse, SMove, SetDuty, Goto, globals, clients
<1>8. CASE SMeasure
  <2>1. spc' \in {"pulse", "arrived"}
    BY <1>8 DEF SMeasure, Goto
  <2>. QED  BY <1>8, <2>1 DEF SMeasure, vars, globals, clients
<1>9. CASE UNCHANGED svars
  BY <1>9 DEF svars, stop, vars, globals, clients
<1>. QED
  BY <1>1, <1>2, <1>3, <1>4, <1>5, <1>6, <1>7, <1>8, <1>9
     DEF SNext, StopTask

LEMMA QuietStep ==
  ASSUME TypeOK, StopTypes, CallsInv, QuietInv, [SNext]_svars
  PROVE  QuietInv'
<1>. USE DEF Off, Settled, Driving, Creep, Creeping
<1>1. CASE LoopTurn
  <2>. USE <1>1 DEF LoopTurn
  <2>0. spc' = spc /\ targetRPM' = targetRPM
    BY DEF MotCntrlTask, LBoot, LCompare, LRamp, LControl,
       LDirection, LPin1, LPin2, LDuty, LAccumulate, globals
  <2>1. CASE ~Off
    <3>1. CASE spc = "settle" /\ lpc = "accumulate"
      <4>1. lpc' = "compare" /\ turns' = 1
        BY <2>1, <3>1 DEF MotCntrlTask, LBoot, LCompare, LRamp, LControl,
           LDirection, LPin1, LPin2, LDuty, LAccumulate, Least, StopTypes
      <4>. QED  BY <2>0, <3>1, <4>1 DEF QuietInv
    <3>2. CASE ~(spc = "settle" /\ lpc = "accumulate")
      <4>1. ~Off' /\ ~Settled'
        BY <2>0, <2>1, <3>2 DEF StopTypes
      <4>. QED  BY <4>1 DEF QuietInv
    <3>. QED  BY <3>1, <3>2
  <2>2. CASE Off
    <3>1. targetRPM = 0 /\ (spc # "report" => controlEnable = 0)
      BY <2>2 DEF CallsInv, TargetZero, Disabled
    <3>2. CASE LBoot
      BY <2>0, <2>2, <3>2 DEF LBoot, QuietInv, history
    <3>3. CASE LCompare
      <4>1. lpc = "compare" /\ lpc' = "ramp" /\ pidTarget' = pidTarget
        BY <3>3 DEF LCompare
      <4>2. same' => pidTarget = targetRPM
        BY <3>3 DEF LCompare
      <4>3. ~missed => ~missed'
        BY <3>3 DEF LCompare
      <4>4. Settled' => Settled
        BY <2>0, <4>1
      <4>. QED  BY <2>0, <2>2, <4>1, <4>2, <4>3, <4>4 DEF QuietInv
    <3>4. CASE LRamp
      <4>1. lpc = "ramp" /\ lpc' = "control" /\ pidTarget' <= 0
        BY <3>1, <3>4 DEF LRamp, Least, TypeOK
      <4>2. (same => pidTarget = targetRPM) => (~missed => ~missed')
        BY <3>4 DEF LRamp
      <4>3. Settled' => Settled
        BY <2>0, <4>1
      <4>. QED  BY <2>0, <2>2, <4>1, <4>2, <4>3 DEF QuietInv
    <3>5. CASE LControl
      <4>1. pidTarget <= 0 /\ pidTarget' = pidTarget
        BY <2>2, <3>5 DEF LControl, QuietInv
      <4>2. CASE spc # "report"
        <5>1. lpc' = "accumulate" /\ ~missed'
          BY <3>1, <3>5, <4>2 DEF LControl
        <5>. QED  BY <2>0, <4>1, <4>2, <5>1 DEF QuietInv
      <4>3. CASE spc = "report"
        <5>1. lpc' \in Driving \cup {"accumulate"} /\ (~missed => ~missed')
          BY <3>5 DEF LControl
        <5>. QED  BY <2>0, <2>2, <4>1, <4>3, <5>1 DEF QuietInv
      <4>. QED  BY <4>2, <4>3
    <3>6. CASE LDirection \/ LPin1 \/ LPin2 \/ LDuty
      <4>1. lpc \in Driving /\ UNCHANGED <<pidTarget, missed>>
        BY <3>6 DEF LDirection, LPin1, LPin2, LDuty, history
      <4>2. spc = "report"
        BY <2>2, <4>1 DEF QuietInv
      <4>3. pidTarget <= 0 /\ ~missed
        BY <4>2 DEF QuietInv
      <4>4. lpc' # "ramp"
        BY <3>6 DEF LDirection, LPin1, LPin2, LDuty
      <4>. QED  BY <2>0, <4>1, <4>2, <4>3, <4>4 DEF QuietInv
    <3>7. CASE LAccumulate
      <4>1. /\ lpc = "accumulate" /\ lpc' = "compare"
            /\ UNCHANGED <<pidTarget, missed>> /\ pidTarget <= 0
        BY <2>2, <3>7 DEF LAccumulate, history, QuietInv
      <4>2. Settled
        BY <2>2, <4>1 DEF StopTypes
      <4>. QED  BY <2>0, <4>1, <4>2 DEF QuietInv
    <3>. QED  BY <3>2, <3>3, <3>4, <3>5, <3>6, <3>7 DEF MotCntrlTask
  <2>. QED  BY <2>1, <2>2
<1>2. ASSUME NEW c \in Clients, Before(c)  PROVE QuietInv'
  BY <1>2 DEF Before, stop, QuietInv
<1>3. CASE SStart
  BY <1>3 DEF SStart, Goto, QuietInv
<1>4. CASE SCall
  <2>1. UNCHANGED loop /\ UNCHANGED missed
    BY <1>4 DEF SCall, SetMotDir, SetRPM, EnableMotorControl,
       DisableMotorControl, history
  <2>2. CASE spc \in {"setMotDir", "setRPM", "disable"}
    BY <1>4, <2>2 DEF SCall, Goto, QuietInv
  <2>3. CASE spc \in {"arrived", "enable"}
    <3>1. targetRPM' = targetRPM
      BY <1>4, <2>3 DEF SCall, EnableMotorControl, CallsInv, TargetZero, Disabled
    <3>. QED  BY <1>4, <2>1, <2>3, <3>1 DEF SCall, Goto, QuietInv, loop
  <2>. QED  BY <1>4, <2>2, <2>3 DEF SCall
<1>5. CASE SReturn
  BY <1>5 DEF SReturn, Return, DirPin1, DirPin2, DutyOff, globals, loop,
     history, stop, QuietInv
<1>6. CASE SSettle
  BY <1>6 DEF SSettle, Goto, vars, globals, loop, history, QuietInv
<1>7. CASE SPulse \/ SMove
  BY <1>7 DEF SPulse, SMove, SetDuty, Goto, globals, loop, history, QuietInv
<1>8. CASE SMeasure
  <2>1. spc' \in {"pulse", "arrived"} /\ spc = "measure"
    BY <1>8 DEF SMeasure, Goto
  <2>. QED  BY <1>8, <2>1 DEF SMeasure, vars, globals, loop, history, QuietInv
<1>9. CASE UNCHANGED svars
  BY <1>9 DEF svars, stop, vars, globals, loop, history, QuietInv
<1>. QED
  BY <1>1, <1>2, <1>3, <1>4, <1>5, <1>6, <1>7, <1>8, <1>9
     DEF SNext, StopTask

LEMMA DutyStep ==
  ASSUME DriveInv, DutyInv, [SNext]_svars  PROVE DutyInv'
<1>. USE DEF DutyInv
<1>1. CASE LoopTurn
  <2>1. spc' = spc
    BY <1>1 DEF LoopTurn
  <2>2. CASE LDuty
    <3>1. duty' = pwm /\ lpc \in Driving
      BY <2>2 DEF LDuty, Driving
    <3>2. spc \in Creep => spc = "report" /\ pwm = 0
      BY <3>1 DEF DriveInv, QuietInv, Off, Settled, Creep, WindInv,
         ZeroTargetNoDrive
    <3>. QED  BY <2>1, <3>1, <3>2 DEF Creep, Creeping
  <2>3. CASE ~LDuty
    <3>1. duty' = duty
      BY <1>1, <2>3 DEF LoopTurn, MotCntrlTask, LBoot, LCompare, LRamp,
         LControl, LDirection, LPin1, LPin2, LAccumulate, outputs
    <3>. QED  BY <2>1, <3>1
  <2>. QED  BY <2>2, <2>3
<1>2. ASSUME NEW c \in Clients, Before(c)  PROVE DutyInv'
  BY <1>2 DEF Before, stop
<1>3. CASE SStart \/ SSettle
  BY <1>3 DEF SStart, SSettle, Goto
<1>4. CASE SCall
  <2>1. CASE spc \in {"setMotDir", "setRPM", "disable"}
    BY <1>4, <2>1 DEF SCall, Goto
  <2>2. CASE spc \in {"arrived", "enable"}
    BY <1>4, <2>2 DEF SCall, Goto, SetRPM, EnableMotorControl, outputs
  <2>. QED  BY <1>4, <2>1, <2>2 DEF SCall
<1>5. CASE SReturn
  <2>1. cpc[Train] # "idle" /\ spc' = spc
    BY <1>5 DEF SReturn, Return, DirPin1, DirPin2, DutyOff, stop
  <2>. QED  BY <2>1 DEF DriveInv, CallsInv, Creep, Creeping
<1>6. CASE SPulse \/ SMove
  BY <1>6 DEF SPulse, SMove, SetDuty, Goto
<1>7. CASE SMeasure
  <2>1. spc' \in {"pulse", "arrived"} /\ spc = "measure" /\ duty' = duty
    BY <1>7 DEF SMeasure, Goto, vars, outputs
  <2>. QED  BY <2>1
<1>8. CASE UNCHANGED svars
  BY <1>8 DEF svars, stop, vars, outputs
<1>. QED
  BY <1>1, <1>2, <1>3, <1>4, <1>5, <1>6, <1>7, <1>8 DEF SNext, StopTask

LEMMA StopInit ==
  ASSUME SInit  PROVE DriveInv /\ DutyInv /\ WayInv
<1>1. Init
  BY DEF SInit
<1>2. TypeOK
  BY <1>1, MotorInitType
<1>3. WindInv
  BY <1>1 DEF Init, WindInv, ZeroTargetNoDrive, Driving
<1>4. near \in BOOLEAN /\ failed \in BOOLEAN
  BY DEF SInit
<1>5. StopTypes
  BY <1>4 DEF SInit, StopTypes
<1>6. CallsInv /\ QuietInv /\ DutyInv /\ WayInv
  BY DEF SInit, CallsInv, QuietInv, DutyInv, WayInv, Off, Settled, Creep,
     Creeping, Disabled, TargetZero
<1>. QED  BY <1>2, <1>3, <1>5, <1>6 DEF DriveInv

LEMMA DriveStep ==
  ASSUME DriveInv, [SNext]_svars  PROVE DriveInv'
<1>1. TypeOK /\ WindInv /\ StopTypes /\ CallsInv /\ QuietInv
  BY DEF DriveInv
<1>2. TypeOK' /\ WindInv'
  BY <1>1, MotorStep
<1>3. StopTypes' /\ CallsInv'
  BY <1>1, StopTypesStep, CallsStep
<1>4. QuietInv'
  BY <1>1, QuietStep
<1>. QED  BY <1>2, <1>3, <1>4 DEF DriveInv

\* The types of stop_task's variables, and that its pulse of the slow duty is
\* not overwritten by the loop (whose iteration in flight has ended).
THEOREM StopTypeCorrect == SSpec => []StopTypeOK
<1>1. SInit => DriveInv /\ DutyInv
  BY StopInit
<1>2. DriveInv /\ DutyInv /\ [SNext]_svars => DriveInv' /\ DutyInv'
  BY DriveStep, DutyStep
<1>3. DriveInv /\ DutyInv => StopTypeOK
  BY DEF DriveInv, DutyInv, StopTypes, StopTypeOK, TargetZero, Disabled, Creep
<1>. QED  BY <1>1, <1>2, <1>3, PTL DEF SSpec

\* Switched on again after the arrival, the PI loop leaves the train at rest:
\* for any gains, any history of the integral and any iteration in flight.
THEOREM RestsAfterStop == SSpec => []RestAfterStop
<1>1. SInit => DriveInv /\ DutyInv
  BY StopInit
<1>2. DriveInv /\ DutyInv /\ [SNext]_svars => DriveInv' /\ DutyInv'
  BY DriveStep, DutyStep
<1>3. DriveInv /\ DutyInv => RestAfterStop
  BY DEF DutyInv, RestAfterStop
<1>. QED  BY <1>1, <1>2, <1>3, PTL DEF SSpec

-----------------------------------------------------------------------------
(* The average of three readings.                                          *)

LEMMA SumOfThree ==
  ASSUME NEW r \in [1..3 -> Int]
  PROVE  FoldFunction(+, 0, r) = r[1] + r[2] + r[3]
<1>. DEFINE pick(s) == CHOOSE x \in s : TRUE
            iter[s \in SUBSET (1..3)] ==
              IF s = {} THEN 0 ELSE r[pick(s)] + iter[s \ {pick(s)}]
            step(g) == [s \in SUBSET (1..3) |->
              IF s = {} THEN 0 ELSE r[pick(s)] + g[s \ {pick(s)}]]
            part(i, s) == IF i \in s THEN r[i] ELSE 0
            total == [s \in SUBSET (1..3) |-> part(1, s) + part(2, s) + part(3, s)]
<1>1. DOMAIN r = 1..3 /\ r[1] \in Int /\ r[2] \in Int /\ r[3] \in Int
  OBVIOUS
<1>2. FoldFunction(+, 0, r) = iter[1..3]
  BY <1>1 DEF FoldFunction, FoldFunctionOnSet, MapThenFoldSet
<1>3. total = step(total)
  <2>1. ASSUME NEW s \in SUBSET (1..3), s # {}
        PROVE  pick(s) \in s
    BY <2>1
  <2>2. ASSUME NEW s \in SUBSET (1..3), NEW i \in s
        PROVE  total[s] = r[i] + total[s \ {i}]
    <3>1. i \in 1..3 /\ s \ {i} \in SUBSET (1..3)
      OBVIOUS
    <3>2. part(i, s) = r[i] /\ part(i, s \ {i}) = 0
      OBVIOUS
    <3>3. /\ \A j \in (1..3) \ {i} : part(j, s) = part(j, s \ {i})
          /\ part(1, s) \in Int /\ part(2, s) \in Int /\ part(3, s) \in Int
      OBVIOUS
    <3>4. r[i] \in Int
      BY <3>1
    <3>a. /\ total[s] = part(1, s) + part(2, s) + part(3, s)
          /\ total[s \ {i}] =
               part(1, s \ {i}) + part(2, s \ {i}) + part(3, s \ {i})
      BY <3>1
    <3>. HIDE DEF part, total
    <3>5. CASE i = 1
      BY <3>a, <3>2, <3>3, <3>4, <3>5
    <3>6. CASE i = 2
      BY <3>a, <3>2, <3>3, <3>4, <3>6
    <3>7. CASE i = 3
      BY <3>a, <3>2, <3>3, <3>4, <3>7
    <3>. QED  BY <3>1, <3>5, <3>6, <3>7
  <2>3. \A s \in SUBSET (1..3) : total[s] =
          IF s = {} THEN 0 ELSE r[pick(s)] + total[s \ {pick(s)}]
    <3>1. total[{}] = 0
      OBVIOUS
    <3>. HIDE DEF total, pick
    <3>. QED  BY <2>1, <2>2, <3>1
  <2>. QED  BY <2>3
<1>4. iter = step(iter)
  <2>. DEFINE fix == CHOOSE g : g = step(g)
  <2>1. fix = step(fix)
    BY <1>3
  <2>. QED  BY <2>1
<1>5. ASSUME NEW s \in SUBSET (1..3), s # {}
      PROVE  \E i \in s : iter[s] = r[i] + iter[s \ {i}]
  <2>. HIDE DEF iter
  <2>1. pick(s) \in s
    BY <1>5
  <2>. QED  BY <1>4, <1>5, <2>1
<1>6. iter[{}] = 0
  <2>. HIDE DEF iter
  <2>. QED  BY <1>4
<1>. HIDE DEF iter
<1>7. iter[{1}] = r[1] /\ iter[{2}] = r[2] /\ iter[{3}] = r[3]
  <2>1. \A i \in 1..3 : {i} \ {i} = {} /\ {i} \in SUBSET (1..3) /\ {i} # {}
    OBVIOUS
  <2>2. ASSUME NEW i \in 1..3  PROVE iter[{i}] = r[i] + iter[{}]
    BY <1>5, <2>1
  <2>. QED  BY <1>1, <1>6, <2>2
<1>8. ASSUME NEW i \in 1..3, NEW j \in 1..3, i # j
      PROVE  iter[{i, j}] = r[i] + r[j]
  <2>1. {i, j} \ {i} = {j} /\ {i, j} \ {j} = {i} /\ {i, j} \in SUBSET (1..3)
    BY <1>8
  <2>2. iter[{i, j}] = r[i] + iter[{j}] \/ iter[{i, j}] = r[j] + iter[{i}]
    BY <1>5, <2>1
  <2>3. iter[{i}] = r[i] /\ iter[{j}] = r[j]
    BY <1>7
  <2>. QED  BY <2>2, <2>3
<1>9. iter[1..3] = r[1] + r[2] + r[3]
  <2>. DEFINE rest(i) == iter[(1..3) \ {i}]
  <2>1. \E i \in 1..3 : iter[1..3] = r[i] + rest(i)
    BY <1>5
  <2>2. /\ (1..3) \ {1} = {2, 3}
        /\ (1..3) \ {2} = {1, 3}
        /\ (1..3) \ {3} = {1, 2}
    OBVIOUS
  <2>3. /\ rest(1) = r[2] + r[3]
        /\ rest(2) = r[1] + r[3]
        /\ rest(3) = r[1] + r[2]
    BY <1>8, <2>2
  <2>. HIDE DEF rest
  <2>4. \/ iter[1..3] = r[1] + rest(1)
        \/ iter[1..3] = r[2] + rest(2)
        \/ iter[1..3] = r[3] + rest(3)
    <3>1. \A i \in 1..3 : i = 1 \/ i = 2 \/ i = 3
      OBVIOUS
    <3>. QED  BY <2>1, <3>1, Zenon
  <2>. QED  BY <1>1, <2>3, <2>4
<1>. QED  BY <1>2, <1>9

\* The average of three readings of a distance, some of them failed: never
\* more than the distance, and 0 for what is a few millimetres away only.
LEMMA AverageOfThree ==
  ASSUME NEW d \in Nat, d > 0, NEW r \in [1..3 -> {d, -1}]
  PROVE  /\ Average(r) \in Int /\ Average(r) <= d
         /\ d > Blur => Average(r) # 0
         /\ ~Fails(r) => Average(r) = d
<1>. DEFINE none == Cardinality({i \in DOMAIN r : r[i] = 0})
            sum  == FoldFunction(+, 0, r)
<1>1. Len(r) = 3 /\ DOMAIN r = 1..3
  OBVIOUS
<1>2. Average(r) =
        IF none > 3 \div 2 THEN 0
        ELSE IF sum >= 0 THEN sum \div (3 - none) ELSE -((-sum) \div (3 - none))
  BY <1>1 DEF Average
<1>3. sum = r[1] + r[2] + r[3]
  <2>1. r \in [1..3 -> Int]
    OBVIOUS
  <2>. QED  BY <2>1, SumOfThree
<1>4. none = 0
  <2>1. {i \in DOMAIN r : r[i] = 0} = {}
    BY <1>1
  <2>. QED  BY <2>1, FS_EmptySet
<1>5. /\ r[1] = d \/ r[1] = -1
      /\ r[2] = d \/ r[2] = -1
      /\ r[3] = d \/ r[3] = -1
  OBVIOUS
<1>6. ~Fails(r) => r[1] = d /\ r[2] = d /\ r[3] = d
  BY <1>1, <1>5 DEF Fails
<1>. HIDE DEF none, sum
<1>7. Average(r) = IF sum >= 0 THEN sum \div 3 ELSE -((-sum) \div 3)
  BY <1>2, <1>4
<1>8. Average(r) \in Int /\ Average(r) <= d /\ (d > 4 => Average(r) # 0)
  <2>1. sum \in {3 * d, 2 * d - 1, d - 2, -3}
    BY <1>3, <1>5
  <2>2. CASE sum = 3 * d
    BY <1>7, <2>2
  <2>3. CASE sum = 2 * d - 1
    BY <1>7, <2>3
  <2>4. CASE sum = d - 2
    BY <1>7, <2>4
  <2>5. CASE sum = -3
    BY <1>7, <2>5
  <2>. QED  BY <2>1, <2>2, <2>3, <2>4, <2>5
<1>9. ASSUME ~Fails(r)  PROVE Average(r) = d
  <2>1. sum = 3 * d
    BY <1>3, <1>6, <1>9
  <2>. QED  BY <1>7, <2>1
<1>. QED  BY <1>8, <1>9 DEF Blur

\* What a distance loses in a pulse.
LEMMA UnitProducts ==
  ASSUME NEW n \in Nat, NEW d \in Nat
  PROVE  /\ Unit * n \in Nat /\ (n = 0 => Unit * n = 0)
         /\ d < n => Unit * (n - d) = Unit * n - Unit * d
         /\ d <= Pulse => Unit * d <= Unit * Pulse
<1>1. Unit \in Nat /\ Pulse \in Nat
  BY StopAssumption
<1>2. d < n => Unit * (n - d) = Unit * n - Unit * d
  BY <1>1
<1>3. ASSUME d <= Pulse  PROVE Unit * d <= Unit * Pulse
  <2>1. Unit * Pulse = Unit * d + Unit * (Pulse - d)
    BY <1>1
  <2>2. Unit * (Pulse - d) \in Nat
    <3>1. Pulse - d \in Nat
      BY <1>1, <1>3
    <3>2. \A a \in Nat, b \in Nat : a * b \in Nat
      OBVIOUS
    <3>. QED  BY <1>1, <3>1, <3>2
  <2>. QED  BY <1>1, <2>1, <2>2
<1>. QED  BY <1>1, <1>2, <1>3

\* What a measurement of a signal in front of the train decides.
LEMMA MeasureCases ==
  ASSUME SMeasure, dist \in Nat, Unit * dist > Blur, stopDistance \in Nat
  PROVE  /\ spc = "measure" /\ UNCHANGED <<stopDistance, dist>>
         /\ \/ spc' = "pulse" /\ Unit * dist > Limit /\ near' = near
            \/ spc' = "pulse" /\ ~near /\ near'
            \/ /\ spc' = "arrived" /\ near
               /\ failed' \/ Unit * dist <= Limit
<1>1. PICK r \in Readings :
        /\ failed' = (failed \/ Fails(r))
        /\ \/ (Average(r) = 0 \/ Average(r) > Limit) /\ Goto("pulse")
              /\ UNCHANGED near
           \/ Average(r) # 0 /\ Average(r) <= Limit /\ ~near
              /\ Goto("pulse") /\ near' = TRUE
           \/ Average(r) # 0 /\ Average(r) <= Limit /\ near
              /\ Goto("arrived") /\ UNCHANGED near
  BY DEF SMeasure
<1>2. /\ Average(r) \in Int /\ Average(r) <= Unit * dist
      /\ Average(r) # 0
      /\ ~Fails(r) => Average(r) = Unit * dist
  <2>1. Unit * dist \in Nat /\ Unit * dist > 0
    BY UnitProducts, StopAssumption DEF Blur
  <2>. QED  BY <2>1, AverageOfThree DEF Readings
<1>3. Limit \in Int /\ Unit * dist \in Int
  BY UnitProducts, StopAssumption DEF Limit
<1>4. spc = "measure" /\ UNCHANGED <<stopDistance, dist>>
  BY DEF SMeasure
<1>5. CASE Average(r) > Limit /\ Goto("pulse") /\ UNCHANGED near
  <2>1. Unit * dist > Limit
    BY <1>2, <1>3, <1>5
  <2>. QED  BY <1>4, <1>5, <2>1 DEF Goto
<1>6. CASE ~near /\ Goto("pulse") /\ near' = TRUE
  BY <1>4, <1>6 DEF Goto
<1>7. CASE Average(r) <= Limit /\ near /\ Goto("arrived") /\ UNCHANGED near
  <2>1. Fails(r) => failed'
    BY <1>1
  <2>2. ~Fails(r) => Unit * dist <= Limit
    BY <1>2, <1>7
  <2>. QED  BY <1>4, <1>7, <2>1, <2>2 DEF Goto
<1>. QED  BY <1>1, <1>2, <1>5, <1>6, <1>7

LEMMA WayStep ==
  ASSUME StopSignal \in {1, 2}, StopTypes, WayInv, [SNext]_svars
  PROVE  WayInv'
<1>. USE DEF Creeping
<1>1. CASE LoopTurn
  BY <1>1 DEF LoopTurn, WayInv
<1>2. ASSUME NEW c \in Clients, Before(c)  PROVE WayInv'
  BY <1>2 DEF Before, stop, WayInv
<1>3. CASE SStart
  <2>1. spc' = "setMotDir" /\ stopDistance' \in {White, Black}
    BY <1>3 DEF SStart, Goto
  <2>. QED  BY <2>1 DEF WayInv
<1>4. CASE SCall
  <2>1. UNCHANGED <<stopDistance, near, dist, failed>>
    BY <1>4 DEF SCall
  <2>2. \/ spc # "start" /\ spc' \in {"setRPM", "disable", "settle"}
        \/ spc \in {"arrived", "enable"} /\ spc' \in {"enable", "report"}
    BY <1>4 DEF SCall, Goto
  <2>. QED  BY <2>1, <2>2 DEF WayInv
<1>5. CASE SReturn
  BY <1>5 DEF SReturn, stop, WayInv
<1>6. CASE SSettle
  <2>1. dist' \in Nat /\ Unit * dist' > Far
    BY <1>6, StopAssumption DEF SSettle
  <2>2. Far > Unit * Pulse + Blur
    <3>1. Unit * Pulse \in Nat
      BY StopAssumption, UnitProducts
    <3>. QED  BY <3>1, StopAssumption DEF Blur
  <2>3. spc' = "pulse" /\ spc = "settle" /\ UNCHANGED stopDistance
    BY <1>6 DEF SSettle, Goto
  <2>4. Unit * dist' > Unit * Pulse + Blur
    <3>1. Unit * dist' \in Nat /\ Unit * Pulse \in Nat
      BY <2>1, UnitProducts, StopAssumption
    <3>. QED  BY <2>1, <2>2, <3>1, StopAssumption DEF Blur
  <2>. QED  BY <2>1, <2>3, <2>4 DEF WayInv
<1>7. CASE SPulse
  BY <1>7 DEF SPulse, Goto, WayInv
<1>8. CASE SMove
  <2>1. /\ spc = "moving" /\ spc' = "measure"
        /\ UNCHANGED <<stopDistance, near>>
    BY <1>8 DEF SMove, Goto
  <2>2. PICK d \in 0..Pulse : dist' = IF d < dist THEN dist - d ELSE 0
    BY <1>8, StopAssumption DEF SMove, Moved
  <2>3. d \in Nat /\ dist \in Nat /\ Pulse \in Nat /\ Unit * Pulse \in Nat
    BY UnitProducts, StopAssumption DEF StopTypes
  <2>4. Unit * d \in Nat /\ Unit * dist \in Nat /\ Unit * d <= Unit * Pulse
    BY <2>2, <2>3, UnitProducts
  <2>5. Unit * dist > Unit * Pulse + Blur /\ (~near => Unit * dist > Far)
    BY <2>1 DEF WayInv
  <2>6. d < dist
    <3>1. SUFFICES ASSUME dist <= d  PROVE FALSE
      BY <2>3
    <3>2. dist <= Pulse
      BY <2>2, <2>3, <3>1
    <3>3. Unit * dist <= Unit * Pulse
      BY <2>3, <3>2, UnitProducts
    <3>. QED  BY <2>3, <2>4, <2>5, <3>3 DEF Blur
  <2>7. Unit * dist' = Unit * dist - Unit * d
    BY <2>2, <2>3, <2>6, UnitProducts
  <2>8. Far >= 2 * (Unit * Pulse) + Blur
    BY StopAssumption
  <2>9. /\ Unit * dist' > Blur
        /\ ~near => Unit * dist' > Unit * Pulse + Blur
    BY <2>3, <2>4, <2>5, <2>7, <2>8, StopAssumption DEF Blur
  <2>. QED  BY <2>1, <2>9 DEF WayInv
<1>9. CASE SMeasure
  <2>1. /\ spc = "measure" /\ UNCHANGED <<stopDistance, dist>>
        /\ stopDistance \in {White, Black}
        /\ Unit * dist > Blur
        /\ ~near => Unit * dist > Unit * Pulse + Blur
    BY <1>9 DEF SMeasure, WayInv
  <2>2. dist \in Nat /\ stopDistance \in Nat /\ Unit * dist \in Nat
    BY <2>1, UnitProducts, StopAssumption DEF StopTypes
  <2>3. Unit * Pulse \in Nat /\ stopDistance >= Unit * Pulse + Blur
    <3>1. Unit * Pulse \in Nat
      BY UnitProducts, StopAssumption
    <3>2. Unit * Pulse + Blur <= White /\ White < Black
          /\ White \in Nat /\ Black \in Nat
      BY StopAssumption
    <3>3. Black >= Unit * Pulse + Blur
      BY <3>1, <3>2 DEF Blur
    <3>. QED  BY <2>1, <3>1, <3>2, <3>3
  <2>4. \/ spc' = "pulse" /\ Unit * dist > Limit /\ near' = near
        \/ spc' = "pulse" /\ ~near /\ near'
        \/ spc' = "arrived" /\ near /\ (failed' \/ Unit * dist <= Limit)
    BY <1>9, <2>1, <2>2, MeasureCases
  <2>5. CASE spc' = "pulse" /\ Unit * dist > Limit /\ near' = near
    <3>1. Unit * dist > Unit * Pulse + Blur /\ (~near => Unit * dist > Far)
      BY <2>1, <2>2, <2>3, <2>5, StopAssumption DEF Limit, Blur
    <3>. QED  BY <2>1, <2>5, <3>1 DEF WayInv
  <2>6. CASE spc' = "pulse" /\ ~near /\ near'
    BY <2>1, <2>6 DEF WayInv
  <2>7. CASE spc' = "arrived" /\ near /\ (failed' \/ Unit * dist <= Limit)
    <3>1. dist > 0
      <4>1. dist # 0
        BY <2>1, <2>2, UnitProducts DEF Blur
      <4>. QED  BY <2>2, <4>1
    <3>2. Limit = stopDistance
      BY <2>7 DEF Limit
    <3>. QED  BY <2>1, <2>7, <3>1, <3>2 DEF WayInv
  <2>. QED  BY <2>4, <2>5, <2>6, <2>7
<1>10. CASE UNCHANGED svars
  BY <1>10 DEF svars, stop, WayInv
<1>. QED
  BY <1>1, <1>2, <1>3, <1>4, <1>5, <1>6, <1>7, <1>8, <1>9, <1>10
     DEF SNext, StopTask

\* A white or a black signal is not passed, whatever readings fail, if the
\* pulses are short enough for the limits; and the train stops near enough
\* unless a reading failed.
THEOREM StopsInFrontOfSignal ==
  ASSUME StopSignal \in {1, 2}  PROVE SSpec => []StopsInFront
<1>1. SInit => StopTypes /\ WayInv
  BY StopInit DEF DriveInv
<1>2. StopTypes /\ WayInv /\ [SNext]_svars => StopTypes' /\ WayInv'
  BY StopTypesStep, WayStep
<1>3. WayInv => StopsInFront
  BY DEF WayInv, StopsInFront
<1>. QED  BY <1>1, <1>2, <1>3, PTL DEF SSpec
=============================================================================
