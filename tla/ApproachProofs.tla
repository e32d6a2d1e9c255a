--------------------------- MODULE ApproachProofs ---------------------------
(***************************************************************************)
(* Proofs about Approach: for any distances, any number of retries and of  *)
(* requests the Arduino owes, any window and any starting points.          *)
(*                                                                         *)
(* First the types, then what the queues of the UART can hold, then the    *)
(* way of the train.                                                       *)
(***************************************************************************)
EXTENDS Approach, FiniteSetTheorems, TLAPS

\* The messages of the two directions, and the queues of them.
Requests == [what : {"init", "distance"}, new : BOOLEAN]
Answers  == [what : {"ok", "fail", "distance"}, value : Distances, new : BOOLEAN]

QueuesOK == asked \in Seq(Requests) /\ replies \in Seq(Answers)

-----------------------------------------------------------------------------
\* Making a queue's messages old keeps everything else about them.
LEMMA OutdatedRequests ==
  ASSUME NEW q \in Seq(Requests)
  PROVE  /\ Outdated(q) \in Seq(Requests) /\ Len(Outdated(q)) = Len(q)
         /\ DOMAIN Outdated(q) = DOMAIN q
         /\ \A i \in DOMAIN q : Outdated(q)[i].what = q[i].what /\ ~Outdated(q)[i].new
<1>. DEFINE aged(m) == [m EXCEPT !.new = FALSE]
<1>1. ASSUME NEW m \in Requests
      PROVE  aged(m) \in Requests /\ aged(m).what = m.what /\ aged(m).new = FALSE
  BY Zenon DEF Requests
<1>2. Outdated(q) = [i \in DOMAIN q |-> aged(q[i])]
  BY DEF Outdated
<1>. HIDE DEF aged
<1>3. DOMAIN q = 1..Len(q) /\ Len(q) \in Nat /\ \A i \in DOMAIN q : q[i] \in Requests
  OBVIOUS
<1>4. Outdated(q) \in [1..Len(q) -> Requests]
  BY <1>1, <1>2, <1>3
<1>5. \A i \in DOMAIN q : Outdated(q)[i] = aged(q[i])
  BY <1>2
<1>6. \A i \in DOMAIN q : Outdated(q)[i].what = q[i].what /\ ~Outdated(q)[i].new
  BY <1>1, <1>3, <1>5, Zenon
<1>7. Outdated(q) \in Seq(Requests) /\ Len(Outdated(q)) = Len(q)
  BY <1>3, <1>4
<1>. QED  BY <1>3, <1>4, <1>6, <1>7

\* The same for answers.
LEMMA OutdatedAnswers ==
  ASSUME NEW q \in Seq(Answers)
  PROVE  /\ Outdated(q) \in Seq(Answers) /\ Len(Outdated(q)) = Len(q)
         /\ DOMAIN Outdated(q) = DOMAIN q
         /\ \A i \in DOMAIN q : /\ Outdated(q)[i].what = q[i].what
                                /\ Outdated(q)[i].value = q[i].value
                                /\ ~Outdated(q)[i].new
<1>. DEFINE aged(m) == [m EXCEPT !.new = FALSE]
<1>1. ASSUME NEW m \in Answers
      PROVE  aged(m) \in Answers /\ aged(m).what = m.what /\ aged(m).value = m.value
             /\ aged(m).new = FALSE
  BY Zenon DEF Answers
<1>2. Outdated(q) = [i \in DOMAIN q |-> aged(q[i])]
  BY DEF Outdated
<1>. HIDE DEF aged
<1>3. DOMAIN q = 1..Len(q) /\ Len(q) \in Nat /\ \A i \in DOMAIN q : q[i] \in Answers
  OBVIOUS
<1>4. Outdated(q) \in [1..Len(q) -> Answers]
  BY <1>1, <1>2, <1>3
<1>5. \A i \in DOMAIN q : Outdated(q)[i] = aged(q[i])
  BY <1>2
<1>6. \A i \in DOMAIN q : /\ Outdated(q)[i].what = q[i].what
                          /\ Outdated(q)[i].value = q[i].value
                          /\ ~Outdated(q)[i].new
  BY <1>1, <1>3, <1>5, Zenon
<1>7. Outdated(q) \in Seq(Answers) /\ Len(Outdated(q)) = Len(q)
  BY <1>3, <1>4
<1>. QED  BY <1>3, <1>4, <1>6, <1>7

\* What uart_write_bytes leaves in the queues.
LEMMA WriteQueues ==
  ASSUME QueuesOK, NEW what \in {"init", "distance"}, Write(what)
  PROVE  QueuesOK'
<1>1. CASE installed
  <2>1. [what |-> what, new |-> what = "distance"] \in Requests
    BY DEF Requests
  <2>2. Outdated(asked) \in Seq(Requests) /\ Outdated(replies) \in Seq(Answers)
    BY OutdatedRequests, OutdatedAnswers DEF QueuesOK
  <2>3. /\ asked' = Append(Outdated(asked), [what |-> what, new |-> what = "distance"])
        /\ replies' = Outdated(replies)
    BY <1>1 DEF Write
  <2>. QED
    BY <2>1, <2>2, <2>3 DEF QueuesOK
<1>2. CASE ~installed
  BY <1>2 DEF Write, QueuesOK
<1>. QED  BY <1>1, <1>2

\* The queues hold requests and answers only.
LEMMA QueueStep ==
  ASSUME QueuesOK, [Next]_vars  PROVE QueuesOK'
<1>1. CASE Arduino
  <2>1. CASE Lose
    BY <2>1 DEF Lose, QueuesOK
  <2>2. ASSUME NEW what \in {"ok", "fail", "distance"}, NEW value \in Distances,
               Answer(what, value)
        PROVE  QueuesOK'
    <3>1. Head(asked) \in Requests /\ Tail(asked) \in Seq(Requests)
      BY <2>2 DEF Answer, QueuesOK
    <3>2. [what |-> what, value |-> value, new |-> Head(asked).new] \in Answers
      BY <3>1 DEF Requests, Answers
    <3>. QED  BY <2>2, <3>1, <3>2 DEF Answer, QueuesOK
  <2>. QED  BY <1>1, <2>1, <2>2, ApproachAssumption DEF Arduino, InSight
<1>2. CASE Move \/ Push \/ Time \/ MotCntrlTask \/ TimerInitTask
  BY <1>2 DEF Move, Push, Time, MotCntrlTask, TimerInitTask, svars, uart, QueuesOK
<1>3. CASE AppMain
  <2>1. CASE BHello
    BY <2>1, WriteQueues DEF BHello
  <2>2. CASE BInstall
    BY <2>2 DEF BInstall, QueuesOK
  <2>3. CASE BAwait
    BY <2>3 DEF BAwait, ReadAll, QueuesOK
  <2>4. CASE BTest \/ BStart
    BY <2>4 DEF BTest, BStart, uart, QueuesOK
  <2>. QED  BY <1>3, <2>1, <2>2, <2>3, <2>4 DEF AppMain
<1>4. CASE BRestart
  BY <1>4, OutdatedRequests DEF BRestart, SRestart, QueuesOK
<1>5. CASE Telemetry
  BY <1>5 DEF Telemetry, Launch, uart, QueuesOK
<1>6. CASE CraneTask
  <2>1. CASE Request
    BY <2>1, WriteQueues DEF Request
  <2>2. CASE Read
    BY <2>2 DEF Read, ReadAll, QueuesOK
  <2>3. CASE UNCHANGED uart
    BY <2>3 DEF uart, QueuesOK
  <2>4. CASE CDepart \/ CTest \/ CStop \/ CLower
    BY <2>4 DEF CDepart, CTest, CStop, CLower, uart, QueuesOK
  <2>. QED  BY <1>6, <2>1, <2>2, <2>3, <2>4 DEF CraneTask, CMeasure
<1>7. CASE UNCHANGED vars
  BY <1>7 DEF vars, svars, uart, QueuesOK
<1>. QED
  BY <1>1, <1>2, <1>3, <1>4, <1>5, <1>6, <1>7 DEF Next

-----------------------------------------------------------------------------
\* The variables of tof_get_distance.
MeasureOK ==
  /\ tpc \in {"idle", "ask", "read", "done"} /\ tries \in 0..Retries
  /\ distance \in Distances \cup {-1, Garbage}
  /\ missed \in BOOLEAN

\* The number taken from an answer is one of those a sensor gives.
LEMMA NumberOfAnswers ==
  ASSUME QueuesOK, replies # <<>>
  PROVE  /\ Number \in Distances \cup {Garbage}
         /\ OnlyNumbers => /\ Number = replies[Len(replies)].value
                           /\ Number \in Distances
                           /\ replies[Len(replies)].what = "distance"
                           /\ Len(replies) \in DOMAIN replies
<1>1. Len(replies) \in DOMAIN replies /\ replies[Len(replies)] \in Answers
  BY DEF QueuesOK
<1>2. replies[Len(replies)].value \in Distances
  BY <1>1 DEF Answers
<1>. QED  BY <1>1, <1>2 DEF Number, OnlyNumbers, Last

\* tof_get_distance counts no further than it may and returns a distance of
\* the sensor, a failure or garbage.
LEMMA MeasureStep ==
  ASSUME QueuesOK, MeasureOK, [Next]_vars  PROVE MeasureOK'
<1>1. ASSUME NEW d \in Distances \cup {-1, Garbage}, AfterRead(d)
      PROVE  /\ tpc' \in {"ask", "done"} /\ tries' \in 0..Retries
             /\ distance' \in Distances \cup {-1, Garbage}
  BY <1>1, SensorsAssumption DEF AfterRead, MeasureOK
<1>2. CASE UNCHANGED measure
  BY <1>2 DEF measure, MeasureOK
<1>3. CASE Begin
  BY <1>3, SensorsAssumption, ApproachAssumption DEF Begin, MeasureOK
<1>4. CASE Request
  BY <1>4 DEF Request, MeasureOK
<1>5. CASE Read
  <2>1. missed' \in BOOLEAN
    BY <1>5 DEF Read
  <2>2. CASE replies = <<>>
    BY <1>1, <1>5, <2>1, <2>2 DEF Read, MeasureOK
  <2>3. CASE replies # <<>>
    BY <1>1, <1>5, <2>1, <2>3, NumberOfAnswers DEF Read, MeasureOK
  <2>. QED  BY <2>2, <2>3
<1>6. CASE BRestart
  <2>1. missed' \in BOOLEAN
    BY <1>6 DEF BRestart, MeasureOK
  <2>. QED
    BY <1>6, <2>1, SensorsAssumption, ApproachAssumption DEF BRestart, SRestart, MeasureOK
<1>7. CASE CTest
  <2>1. CASE tpc' = "idle" /\ UNCHANGED <<tries, distance, missed>>
    BY <2>1 DEF MeasureOK
  <2>. QED  BY <1>3, <1>7, <2>1 DEF CTest, DriveOnPast
<1>. QED
  BY <1>2, <1>3, <1>4, <1>5, <1>6, <1>7
     DEF Next, Arduino, Lose, Answer, Move, Push, Time, MotCntrlTask, AppMain,
         TimerInitTask, Telemetry, Launch, CraneTask, CDepart, CMeasure, CStop,
         CLower, svars, vars

\* The Arduino owes no more than it may: only Write makes it owe more.
LEMMA OwedStep ==
  ASSUME QueuesOK, Len(asked) <= Owed, [Next]_vars
  PROVE  Len(asked') <= Owed
<1>1. Len(asked) \in Nat /\ Owed \in Nat
  BY SensorsAssumption DEF QueuesOK
<1>2. CASE UNCHANGED asked
  BY <1>2
<1>3. CASE asked # <<>> /\ asked' = Tail(asked)
  BY <1>1, <1>3 DEF QueuesOK
<1>4. CASE asked' = Outdated(asked)
  BY <1>4, OutdatedRequests DEF QueuesOK
<1>5. ASSUME NEW what \in {"init", "distance"}, Write(what)
      PROVE  Len(asked') <= Owed
  <2>1. CASE installed
    <3>1. Len(asked) < Owed
          /\ asked' = Append(Outdated(asked), [what |-> what, new |-> what = "distance"])
      BY <1>5, <2>1 DEF Write
    <3>2. Outdated(asked) \in Seq(Requests) /\ Len(Outdated(asked)) = Len(asked)
      BY OutdatedRequests DEF QueuesOK
    <3>3. [what |-> what, new |-> what = "distance"] \in Requests
      BY DEF Requests
    <3>4. Len(asked') = Len(asked) + 1
      BY <3>1, <3>2, <3>3
    <3>. QED  BY <1>1, <3>1, <3>4
  <2>2. CASE ~installed
    BY <1>5, <2>2, <1>2 DEF Write
  <2>. QED  BY <2>1, <2>2
<1>6. CASE AppMain
  BY <1>2, <1>5, <1>6 DEF AppMain, BInstall, BHello, BAwait, BTest, BStart, uart
<1>7. CASE CraneTask
  BY <1>2, <1>5, <1>7
     DEF CraneTask, CDepart, CMeasure, CTest, CStop, CLower, Request, Read, uart
<1>. QED
  BY <1>2, <1>3, <1>4, <1>6, <1>7
     DEF Next, Arduino, Lose, Answer, Move, Push, Time, MotCntrlTask, BRestart,
         SRestart, TimerInitTask, Telemetry, Launch, svars, uart, vars

\* Where the tasks stand; the driver is there once app_main installed it.
PlacesOK ==
  /\ installed \in BOOLEAN /\ data0 \in {"ok", "other"}
  /\ bpc \in {"init", "hello", "await", "test", "bt_start", "timerInitTask",
              "winchTask", "up"}
  /\ mpc \in {"off", "extend", "approach", "near", "lower", "grip"}
  /\ bpc # "init" <=> installed

\* app_main and crane_task go the ways they have.
LEMMA PlacesStep ==
  ASSUME PlacesOK, [Next]_vars  PROVE PlacesOK'
<1>. USE DEF PlacesOK
<1>1. CASE UNCHANGED <<installed, data0, bpc, mpc>>
  BY <1>1
<1>2. CASE AppMain
  <2>1. ReadAll => data0' \in {"ok", "other"}
    BY DEF ReadAll
  <2>2. CASE BInstall
    BY <1>2, <2>2 DEF AppMain, BInstall, BGoto
  <2>3. CASE BHello
    BY <1>2, <2>3 DEF AppMain, BHello, BGoto
  <2>4. CASE BAwait
    BY <1>2, <2>1, <2>4 DEF AppMain, BAwait, BGoto
  <2>5. CASE BTest
    BY <1>2, <2>5 DEF AppMain, BTest, BGoto, uart
  <2>6. CASE BStart
    BY <1>2, <2>6 DEF AppMain, BStart, BGoto, uart
  <2>. QED  BY <1>2, <2>2, <2>3, <2>4, <2>5, <2>6 DEF AppMain
<1>3. CASE BRestart
  BY <1>3 DEF BRestart, SRestart, BGoto, Memory
<1>4. CASE Telemetry
  BY <1>4 DEF Telemetry, Launch, uart
<1>5. CASE CraneTask
  <2>1. CASE CDepart
    BY <1>5, <2>1 DEF CraneTask, CDepart, uart
  <2>2. CASE CMeasure /\ Request
    BY <1>5, <2>2 DEF CraneTask, CMeasure, Request
  <2>3. CASE CMeasure /\ Read
    BY <1>5, <2>3 DEF CraneTask, CMeasure, Read, ReadAll
  <2>4. CASE CTest
    BY <1>5, <2>4 DEF CraneTask, CTest, DriveOnPast, uart
  <2>5. CASE CStop \/ CLower
    BY <1>5, <2>5 DEF CraneTask, CStop, CLower, uart
  <2>. QED  BY <1>5, <2>1, <2>2, <2>3, <2>4, <2>5 DEF CraneTask, CMeasure
<1>. QED
  BY <1>1, <1>2, <1>3, <1>4, <1>5
     DEF Next, Arduino, Lose, Answer, Move, Push, Time, MotCntrlTask,
         TimerInitTask, svars, uart, vars

\* The train and its controller.
TrainOK ==
  /\ way \in Nat /\ left \in Nat
  /\ {targetRPM, pidTarget} \subseteq {0, Cruise}
  /\ {drive, wound, early} \subseteq BOOLEAN
  /\ SenseTypeOK

\* The train, its controller and the measurement of its speed.
LEMMA TrainStep ==
  ASSUME TrainOK, [Next]_vars  PROVE TrainOK'
<1>. USE DEF TrainOK, SenseTypeOK
<1>1. CASE UNCHANGED <<sense, train, ctrl, early>>
  BY <1>1 DEF sense, train, ctrl
<1>2. CASE Move
  <2>1. period' \in {"pulse", "zero"} /\ old' = FALSE
    BY <1>2 DEF Move, SenseISR
  <2>2. way' \in Nat /\ left' \in Nat
    BY <1>2 DEF Move
  <2>. QED  BY <1>2, <2>1, <2>2 DEF Move, SenseISR, ctrl
<1>3. CASE Push
  BY <1>3 DEF Push, SenseISR, train, ctrl
<1>4. CASE Time
  BY <1>4 DEF Time, Expire, train, ctrl
<1>5. CASE MotCntrlTask
  <2>1. CASE Turn
    <3>1. wound' \in BOOLEAN
      BY <2>1, Zenon DEF Turn
    <3>2. drive' \in BOOLEAN
      BY <2>1 DEF Turn
    <3>3. left' \in Nat
      BY <2>1, ApproachAssumption DEF Turn
    <3>. QED  BY <1>5, <2>1, <3>1, <3>2, <3>3 DEF MotCntrlTask, Turn
  <2>2. CASE (Sample \/ Store) /\ UNCHANGED <<ctrl, left>>
    BY <1>5, <2>2 DEF MotCntrlTask, Sample, Store, ctrl
  <2>. QED  BY <1>5, <2>1, <2>2 DEF MotCntrlTask
<1>6. CASE BRestart
  <2>1. /\ running' = FALSE /\ period' = "initial" /\ old' = FALSE /\ lpc' = "turn"
        /\ left' = 0 /\ way' = way /\ targetRPM' = 0 /\ pidTarget' = 0
        /\ drive' = FALSE /\ wound' = FALSE /\ early' = FALSE
    BY <1>6, Zenon DEF BRestart, SenseRestart
  <2>. QED  BY <2>1
<1>7. CASE TimerInitTask
  BY <1>7 DEF TimerInitTask, TimerInit, train, ctrl
<1>8. CASE Telemetry
  BY <1>8 DEF Telemetry, Launch, sense
<1>9. CASE CraneTask
  <2>1. CASE CDepart
    <3>1. early' \in BOOLEAN
      BY <2>1 DEF CDepart
    <3>. QED  BY <1>9, <2>1, <3>1 DEF CraneTask, CDepart, sense
  <2>2. CASE CMeasure /\ UNCHANGED early
    BY <1>9, <2>2 DEF CraneTask, CMeasure, sense
  <2>3. CASE CTest /\ UNCHANGED early
    <3>1. left' \in Nat
      BY <2>3, ApproachAssumption DEF CTest, DriveOnPast
    <3>. QED  BY <1>9, <2>3, <3>1 DEF CraneTask, CTest, sense
  <2>4. CASE (CStop \/ CLower) /\ UNCHANGED early
    <3>1. left' \in Nat
      BY <2>4, ApproachAssumption DEF CStop, CLower
    <3>. QED  BY <1>9, <2>4, <3>1 DEF CraneTask, CStop, CLower, sense
  <2>. QED  BY <1>9, <2>1, <2>2, <2>3, <2>4 DEF CraneTask
<1>. QED
  BY <1>1, <1>2, <1>3, <1>4, <1>5, <1>6, <1>7, <1>8, <1>9
     DEF Next, Arduino, AppMain, vars

TypeInv ==
  QueuesOK /\ Len(asked) <= Owed /\ MeasureOK /\ PlacesOK /\ TrainOK

\* All of it together is inductive.
LEMMA TypeInvHolds == Spec => []TypeInv
<1>1. Init => TypeInv
  <2>. SUFFICES ASSUME Init  PROVE TypeInv
    OBVIOUS
  <2>1. QueuesOK /\ Len(asked) <= Owed
    BY SensorsAssumption DEF Init, SInit, QueuesOK
  <2>2. MeasureOK
    <3>1. missed \in BOOLEAN
      BY DEF Init, SInit
    <3>. QED  BY <3>1, SensorsAssumption, ApproachAssumption DEF Init, SInit, MeasureOK
  <2>3. PlacesOK
    BY DEF Init, SInit, PlacesOK, Memory
  <2>4. TrainOK
    BY ApproachAssumption DEF Init, SenseInit, TrainOK, SenseTypeOK
  <2>. QED  BY <2>1, <2>2, <2>3, <2>4 DEF TypeInv
<1>2. TypeInv /\ [Next]_vars => TypeInv'
  BY QueueStep, OwedStep, MeasureStep, PlacesStep, TrainStep DEF TypeInv
<1>. QED  BY <1>1, <1>2, PTL DEF Spec

\* And it is what TypeOK says.
LEMMA TypeInvImpliesType == TypeInv => TypeOK
<1>. SUFFICES ASSUME TypeInv  PROVE TypeOK
  OBVIOUS
<1>1. /\ \A i \in DOMAIN asked : asked[i] \in Requests
      /\ \A i \in DOMAIN replies : replies[i] \in Answers
  BY DEF TypeInv, QueuesOK
<1>2. SensorsTypeOK
  BY <1>1 DEF TypeInv, SensorsTypeOK, MeasureOK, PlacesOK, Requests, Answers
<1>. QED  BY <1>2 DEF TypeInv, TypeOK, PlacesOK, TrainOK

\* The types of the firmware from power-on to the cube, for any number of
\* retries, distances and answers, restarts included.
THEOREM ApproachTypeCorrect == Spec => []TypeOK
BY TypeInvHolds, TypeInvImpliesType, PTL

-----------------------------------------------------------------------------
\* What uart_write_bytes does to the messages in the queues.
LEMMA WriteMessages ==
  ASSUME QueuesOK, NEW what \in {"init", "distance"}, Write(what)
  PROVE  \/ UNCHANGED <<asked, replies>>
         \/ /\ DOMAIN replies' = DOMAIN replies
            /\ \A i \in DOMAIN replies : /\ replies'[i].what = replies[i].what
                                         /\ replies'[i].value = replies[i].value
                                         /\ ~replies'[i].new
            /\ Len(asked') = Len(asked) + 1 /\ DOMAIN asked' = 1..Len(asked')
            /\ \A i \in DOMAIN asked : /\ i \in DOMAIN asked'
                                       /\ asked'[i].what = asked[i].what
                                       /\ ~asked'[i].new
            /\ asked'[Len(asked')].what = what
            /\ \A i \in DOMAIN asked' : i # Len(asked') => i \in DOMAIN asked
<1>1. CASE installed
  <2>. DEFINE m == [what |-> what, new |-> what = "distance"]
  <2>1. m \in Requests /\ m.what = what
    BY DEF Requests
  <2>2. asked' = Append(Outdated(asked), m) /\ replies' = Outdated(replies)
    BY <1>1 DEF Write
  <2>. HIDE DEF m
  <2>3. /\ Outdated(asked) \in Seq(Requests)
        /\ Len(Outdated(asked)) = Len(asked) /\ DOMAIN Outdated(asked) = DOMAIN asked
        /\ \A i \in DOMAIN asked :
             Outdated(asked)[i].what = asked[i].what /\ ~Outdated(asked)[i].new
    BY OutdatedRequests DEF QueuesOK
  <2>4. /\ Len(asked') = Len(asked) + 1 /\ DOMAIN asked' = 1..Len(asked')
        /\ DOMAIN asked = 1..Len(asked) /\ Len(asked) \in Nat
        /\ \A i \in DOMAIN asked : asked'[i] = Outdated(asked)[i]
        /\ asked'[Len(asked')] = m
    BY <2>1, <2>2, <2>3 DEF QueuesOK
  <2>5. \A i \in DOMAIN asked : asked'[i].what = asked[i].what /\ ~asked'[i].new
    BY <2>3, <2>4, Zenon
  <2>6. DOMAIN replies' = DOMAIN replies
        /\ \A i \in DOMAIN replies : /\ replies'[i].what = replies[i].what
                                     /\ replies'[i].value = replies[i].value
                                     /\ ~replies'[i].new
    BY <2>2, OutdatedAnswers DEF QueuesOK
  <2>7. \A i \in DOMAIN asked' : i # Len(asked') => i \in DOMAIN asked
    BY <2>4
  <2>8. \A i \in DOMAIN asked : i \in DOMAIN asked'
    BY <2>4
  <2>. QED  BY <2>1, <2>4, <2>5, <2>6, <2>7, <2>8
<1>2. CASE ~installed
  BY <1>2 DEF Write
<1>. QED  BY <1>1, <1>2

\* The fields of an answer.
LEMMA AnswerFields ==
  ASSUME NEW r, NEW w, NEW v, NEW n, r = [what |-> w, value |-> v, new |-> n]
  PROVE  r.what = w /\ r.value = v /\ r.new = n
OBVIOUS

\* What an answer does to them.
LEMMA AnswerMessages ==
  ASSUME QueuesOK, NEW what \in {"ok", "fail", "distance"}, NEW value \in Distances,
         Answer(what, value)
  PROVE  /\ Len(asked) > 0 /\ 1 \in DOMAIN asked
         /\ DOMAIN asked' = 1..(Len(asked) - 1) /\ Len(asked') = Len(asked) - 1
         /\ \A i \in DOMAIN asked' : i + 1 \in DOMAIN asked /\ asked'[i] = asked[i + 1]
         /\ DOMAIN replies' = 1..(Len(replies) + 1) /\ Len(replies') = Len(replies) + 1
         /\ \A i \in DOMAIN replies : i \in DOMAIN replies' /\ replies'[i] = replies[i]
         /\ \A i \in DOMAIN replies' : i # Len(replies') => i \in DOMAIN replies
         /\ replies'[Len(replies')].what = what
         /\ replies'[Len(replies')].value = value
         /\ replies'[Len(replies')].new = asked[1].new
<1>. DEFINE m == [what |-> what, value |-> value, new |-> asked[1].new]
<1>1. asked # <<>> /\ asked \in Seq(Requests) /\ asked[1] = Head(asked)
  BY DEF Answer, QueuesOK
<1>2. m \in Answers
  <2>1. asked[1] \in Requests
    BY <1>1
  <2>2. asked[1].new \in BOOLEAN
    BY <2>1 DEF Requests
  <2>. QED  BY <2>2 DEF Answers
<1>3. replies' = Append(replies, m) /\ asked' = Tail(asked)
  BY <1>1 DEF Answer
<1>7. m.what = what /\ m.value = value /\ m.new = asked[1].new
  BY AnswerFields
<1>. HIDE DEF m
<1>4. Len(asked) \in Nat /\ Len(asked) > 0 /\ DOMAIN asked = 1..Len(asked)
  BY <1>1
<1>5. /\ DOMAIN asked' = 1..(Len(asked) - 1) /\ Len(asked') = Len(asked) - 1
      /\ \A i \in DOMAIN asked' : i + 1 \in DOMAIN asked /\ asked'[i] = asked[i + 1]
  BY <1>1, <1>3, <1>4
<1>6. /\ DOMAIN replies' = 1..(Len(replies) + 1) /\ Len(replies') = Len(replies) + 1
      /\ \A i \in DOMAIN replies : i \in DOMAIN replies' /\ replies'[i] = replies[i]
      /\ \A i \in DOMAIN replies' : i # Len(replies') => i \in DOMAIN replies
      /\ replies'[Len(replies')] = m
  BY <1>2, <1>3 DEF QueuesOK
<1>8. 1 \in DOMAIN asked
  BY <1>4
<1>. QED  BY <1>4, <1>5, <1>6, <1>7, <1>8, Zenon

\* What the loss of the oldest request does to them.
LEMMA LoseMessages ==
  ASSUME QueuesOK, asked # <<>>, asked' = Tail(asked)
  PROVE  /\ Len(asked) \in Nat /\ Len(asked') = Len(asked) - 1
         /\ \A i \in DOMAIN asked' : i + 1 \in DOMAIN asked /\ asked'[i] = asked[i + 1]
BY DEF QueuesOK

\* The ways a step can change the queues.
LEMMA QueueCases ==
  ASSUME [Next]_vars
  PROVE  \/ UNCHANGED <<asked, replies>>
         \/ asked # <<>> /\ asked' = Tail(asked) /\ UNCHANGED replies
         \/ \E what \in {"ok", "fail", "distance"}, value \in Distances : Answer(what, value)
         \/ \E what \in {"init", "distance"} : Write(what)
         \/ replies' = <<>> /\ UNCHANGED asked
         \/ replies' = <<>> /\ asked' = Outdated(asked)
<1>1. CASE Arduino
  <2>1. CASE Lose
    BY <2>1 DEF Lose
  <2>2. CASE Answer("ok", 0) \/ Answer("fail", 0)
    BY <2>2, ApproachAssumption
  <2>3. ASSUME NEW mm \in InSight, Answer("distance", mm)
        PROVE  \E value \in Distances : Answer("distance", value)
    BY <2>3 DEF InSight
  <2>. QED  BY <1>1, <2>1, <2>2, <2>3 DEF Arduino
<1>2. CASE AppMain
  BY <1>2 DEF AppMain, BInstall, BHello, BAwait, BTest, BStart, ReadAll, uart
<1>3. CASE BRestart
  BY <1>3 DEF BRestart, SRestart
<1>4. CASE CraneTask
  <2>1. CASE Request
    BY <2>1 DEF Request
  <2>2. CASE Read
    BY <2>2 DEF Read, ReadAll
  <2>3. CASE UNCHANGED uart
    BY <2>3 DEF uart
  <2>. QED  BY <1>4, <2>1, <2>2, <2>3 DEF CraneTask, CDepart, CMeasure, CTest, CStop, CLower
<1>. QED
  BY <1>1, <1>2, <1>3, <1>4
     DEF Next, Move, Push, Time, MotCntrlTask, TimerInitTask, Telemetry, Launch,
         svars, uart, vars

\* The task's last question is the last one asked, its answer the last one
\* received, with nothing left to come behind it.
FreshIsLast ==
  /\ \A i \in DOMAIN asked : asked[i].new => i = Len(asked)
  /\ \A i \in DOMAIN replies : replies[i].new => i = Len(replies) /\ asked = <<>>

LEMMA FreshStep ==
  ASSUME QueuesOK, FreshIsLast, [Next]_vars  PROVE FreshIsLast'
<1>0. /\ Len(asked) \in Nat /\ DOMAIN asked = 1..Len(asked)
      /\ Len(replies) \in Nat /\ DOMAIN replies = 1..Len(replies)
  BY DEF QueuesOK
<1>1. CASE UNCHANGED <<asked, replies>>
  BY <1>1 DEF FreshIsLast
<1>2. CASE asked # <<>> /\ asked' = Tail(asked) /\ UNCHANGED replies
  <2>1. \A i \in DOMAIN asked' : asked'[i].new => i = Len(asked')
    BY <1>0, <1>2, LoseMessages DEF FreshIsLast
  <2>. QED  BY <1>2, <2>1 DEF FreshIsLast
<1>3. ASSUME NEW what \in {"ok", "fail", "distance"}, NEW value \in Distances,
             Answer(what, value)
      PROVE  FreshIsLast'
  <2>1. asked # <<>>
    BY <1>3 DEF Answer
  <2>2. \A i \in DOMAIN asked' : asked'[i].new => i = Len(asked')
    <3>1. asked' = Tail(asked)
      BY <1>3 DEF Answer
    <3>. QED  BY <1>0, <2>1, <3>1, LoseMessages DEF FreshIsLast
  <2>3. \A i \in DOMAIN replies : ~replies[i].new
    BY <2>1 DEF FreshIsLast
  <2>4. \A i \in DOMAIN replies' : replies'[i].new => i = Len(replies')
    BY <1>3, <2>3, AnswerMessages
  <2>5. asked[1].new => asked' = <<>>
    <3>1. asked[1].new => Len(asked) = 1
      BY <1>3, AnswerMessages DEF FreshIsLast
    <3>2. asked' = Tail(asked)
      BY <1>3 DEF Answer
    <3>. QED  BY <2>1, <3>1, <3>2 DEF QueuesOK
  <2>6. \A i \in DOMAIN replies' : replies'[i].new => asked[1].new
    <3>1. replies'[Len(replies')].new = asked[1].new
      BY <1>3, AnswerMessages, Zenon
    <3>. QED  BY <2>4, <3>1, Zenon
  <2>. QED  BY <2>2, <2>4, <2>5, <2>6 DEF FreshIsLast
<1>4. ASSUME NEW what \in {"init", "distance"}, Write(what)  PROVE FreshIsLast'
  <2>1. CASE UNCHANGED <<asked, replies>>
    BY <1>1, <2>1
  <2>2. CASE ~UNCHANGED <<asked, replies>>
    <3>1. \A i \in DOMAIN replies' : ~replies'[i].new
      BY <1>4, <2>2, WriteMessages
    <3>2. \A i \in DOMAIN asked' : asked'[i].new => i = Len(asked')
      BY <1>4, <2>2, WriteMessages
    <3>. QED  BY <3>1, <3>2 DEF FreshIsLast
  <2>. QED  BY <2>1, <2>2
<1>5. CASE replies' = <<>> /\ UNCHANGED asked
  BY <1>5 DEF FreshIsLast
<1>6. CASE replies' = <<>> /\ asked' = Outdated(asked)
  BY <1>6, OutdatedRequests DEF FreshIsLast, QueuesOK
<1>. QED  BY <1>1, <1>2, <1>3, <1>4, <1>5, <1>6, QueueCases

\* So it is at every time.
LEMMA FreshHolds == Spec => []FreshIsLast
<1>1. Init => FreshIsLast
  BY DEF Init, SInit, FreshIsLast
<1>2. TypeInv /\ FreshIsLast /\ [Next]_vars => FreshIsLast'
  BY FreshStep DEF TypeInv
<1>. QED  BY <1>1, <1>2, TypeInvHolds, PTL DEF Spec

\* Only the read of the task takes a measurement from "read" to "done".
LEMMA OnlyReadEnds ==
  ASSUME [Next]_vars, tpc = "read", tpc' = "done"  PROVE Read
BY DEF Next, Arduino, Lose, Answer, Move, Push, Time, MotCntrlTask, AppMain,
       BRestart, SRestart, TimerInitTask, Telemetry, Launch, CraneTask, CDepart,
       CMeasure, CTest, DriveOnPast, CStop, CLower, Begin, Request, svars, measure, vars

\* The answer to a request, if it is there when it is read, is the one taken,
\* however many late ones lie before it.
THEOREM OwnAnswerIsTaken == Spec => TakesOwnAnswer
<1>. DEFINE Takes ==
       \A i \in DOMAIN replies :
         tpc = "read" /\ tpc' = "done" /\ replies[i].new /\ tries < Retries
         /\ OnlyNumbers => distance' = replies[i].value
<1>1. TypeInv /\ FreshIsLast /\ [Next]_vars => [Takes]_svars
  <2>. SUFFICES ASSUME TypeInv, FreshIsLast, [Next]_vars,
                       NEW i \in DOMAIN replies, tpc = "read", tpc' = "done",
                       replies[i].new, tries < Retries, OnlyNumbers
                PROVE  distance' = replies[i].value
    OBVIOUS
  <2>1. Read
    BY OnlyReadEnds
  <2>2. i = Len(replies) /\ replies # <<>>
    BY DEF FreshIsLast, TypeInv, QueuesOK
  <2>3. AfterRead(Number) /\ Number = replies[i].value
    BY <2>1, <2>2, NumberOfAnswers DEF Read, TypeInv
  <2>. QED  BY <2>3, SensorsAssumption DEF AfterRead, TypeInv, MeasureOK
<1>. QED  BY <1>1, TypeInvHolds, FreshHolds, PTL DEF Spec, TakesOwnAnswer

-----------------------------------------------------------------------------
\* What stops the train, and which of the Arduino's answers are distances.
Near(d) == d \in 1..Limit
IsDistance(m) == m.what = "distance"

\* FoldFunction is a fixed point over the subsets of the domain; total is one.
LEMMA SumOfOne ==
  ASSUME NEW d \in Int  PROVE FoldFunction(+, 0, <<d>>) = d
<1>. DEFINE r == <<d>>
            pick(s) == CHOOSE x \in s : TRUE
            iter[s \in SUBSET {1}] ==
              IF s = {} THEN 0 ELSE r[pick(s)] + iter[s \ {pick(s)}]
            step(g) == [s \in SUBSET {1} |->
              IF s = {} THEN 0 ELSE r[pick(s)] + g[s \ {pick(s)}]]
            total == [s \in SUBSET {1} |-> IF s = {} THEN 0 ELSE d]
<1>1. DOMAIN r = {1} /\ r[1] = d
  OBVIOUS
<1>2. FoldFunction(+, 0, r) = iter[{1}]
  BY <1>1 DEF FoldFunction, FoldFunctionOnSet, MapThenFoldSet
<1>. HIDE DEF r
<1>3. total = step(total)
  <2>1. ASSUME NEW s \in SUBSET {1}, s # {}
        PROVE  s = {1} /\ pick(s) = 1 /\ s \ {pick(s)} = {}
    BY <2>1
  <2>2. \A s \in SUBSET {1} : total[s] =
          IF s = {} THEN 0 ELSE r[pick(s)] + total[s \ {pick(s)}]
    BY <1>1, <2>1
  <2>. QED  BY <2>2
<1>4. iter = step(iter)
  <2>. DEFINE fix == CHOOSE g : g = step(g)
  <2>1. fix = step(fix)
    BY <1>3
  <2>. QED  BY <2>1
<1>5. iter[{}] = 0
  BY <1>4
<1>6. iter[{1}] = r[1] + iter[{}]
  <2>. HIDE DEF iter
  <2>1. pick({1}) = 1 /\ {1} \ {1} = {}
    OBVIOUS
  <2>. QED  BY <1>4, <2>1
<1>. HIDE DEF iter
<1>7. iter[{1}] = d
  BY <1>1, <1>5, <1>6
<1>. QED  BY <1>2, <1>7 DEF r

\* The average of one distance is that distance.
LEMMA AverageOfOne ==
  ASSUME NEW d \in Int  PROVE Average(<<d>>) = d
<1>. DEFINE none == Cardinality({i \in DOMAIN <<d>> : <<d>>[i] = 0})
            sum  == FoldFunction(+, 0, <<d>>)
<1>1. Len(<<d>>) = 1 /\ DOMAIN <<d>> = {1} /\ <<d>>[1] = d
  OBVIOUS
<1>2. Average(<<d>>) =
        IF none > 1 \div 2 THEN 0
        ELSE IF sum >= 0 THEN sum \div (1 - none) ELSE -((-sum) \div (1 - none))
  BY <1>1 DEF Average
<1>3. sum = d
  BY SumOfOne
<1>4. none = IF d = 0 THEN 1 ELSE 0
  <2>1. {i \in DOMAIN <<d>> : <<d>>[i] = 0} = IF d = 0 THEN {1} ELSE {}
    BY <1>1
  <2>. QED  BY <2>1, FS_Singleton, FS_EmptySet
<1>. HIDE DEF none, sum
<1>. QED  BY <1>2, <1>3, <1>4

\* The ways out of crane_task's test of the distance.
LEMMA TestCases ==
  ASSUME MeasureOK, CTest
  PROVE  /\ mpc = "approach" /\ tpc = "done"
         /\ \/ /\ distance = 0 \/ distance > Limit \/ distance = Garbage
               /\ Begin /\ UNCHANGED <<mpc, left>>
            \/ /\ distance \in {-1, Garbage} \/ Near(distance)
               /\ DriveOnPast
         /\ UNCHANGED <<uart, targetRPM>>
<1>1. distance \in Int /\ (distance \in {-1, Garbage} \/ distance \in Nat)
  BY SensorsAssumption DEF MeasureOK, Garbage
<1>2. Average(<<distance>>) = distance
  BY <1>1, AverageOfOne
<1>. QED  BY <1>1, <1>2, ApproachAssumption DEF CTest, Near

\* What a read of the task makes of the answers.
LEMMA ReadCases ==
  ASSUME QueuesOK, MeasureOK, Read
  PROVE  /\ tpc = "read" /\ replies' = <<>> /\ UNCHANGED asked
         /\ tpc' \in {"ask", "done"}
         /\ \/ distance' = -1
            \/ distance' = Garbage /\ (replies = <<>> \/ ~OnlyNumbers)
            \/ /\ OnlyNumbers /\ Len(replies) \in DOMAIN replies
               /\ IsDistance(replies[Len(replies)])
               /\ distance' = replies[Len(replies)].value /\ tpc' = "done"
<1>1. CASE replies = <<>>
  BY <1>1 DEF Read, ReadAll, AfterRead
<1>2. CASE replies # <<>> /\ OnlyNumbers
  <2>1. AfterRead(Number) /\ Number \in Nat
    BY <1>2, NumberOfAnswers, SensorsAssumption DEF Read
  <2>. QED
    BY <1>2, <2>1, NumberOfAnswers DEF Read, ReadAll, AfterRead, IsDistance
<1>3. CASE replies # <<>> /\ ~OnlyNumbers
  BY <1>3 DEF Read, ReadAll, AfterRead, Number
<1>. QED  BY <1>1, <1>2, <1>3

\* A distance that stops the train was answered when the cube was in sight,
\* and what was in sight stays behind the window's beginning.
CauseInv ==
  /\ \A i \in DOMAIN replies :
       IsDistance(replies[i]) /\ Near(replies[i].value) => way <= Window
  /\ mpc = "approach" /\ Near(distance) => way <= Window
  /\ StopsForCause

LEMMA CauseStep ==
  ASSUME TypeInv, CauseInv, [Next]_vars  PROVE CauseInv'
<1>. USE DEF CauseInv, StopsForCause
<1>0. QueuesOK /\ MeasureOK /\ way \in Nat /\ Window \in Nat
  BY ApproachAssumption DEF TypeInv, TrainOK
<1>1. CASE UNCHANGED <<replies, way, mpc, distance>>
  BY <1>1
<1>2. CASE Arduino
  <2>1. CASE Lose
    BY <1>1, <1>2, <2>1 DEF Arduino, Lose, measure, train
  <2>2. ASSUME NEW what \in {"ok", "fail", "distance"}, NEW value \in Distances,
               Answer(what, value), what = "distance" /\ Near(value) => way <= Window
        PROVE  CauseInv'
    <3>1. UNCHANGED <<way, mpc, distance>>
      BY <1>2, <2>2 DEF Arduino, Answer, measure, train
    <3>2. \A i \in DOMAIN replies' :
            IsDistance(replies'[i]) /\ Near(replies'[i].value) => way <= Window
      BY <1>0, <2>2, AnswerMessages DEF IsDistance
    <3>. QED  BY <3>1, <3>2
  <2>3. CASE Answer("ok", 0) \/ Answer("fail", 0)
    BY <2>2, <2>3, ApproachAssumption
  <2>4. ASSUME NEW mm \in InSight, Answer("distance", mm)
        PROVE  CauseInv'
    <3>1. mm \in Distances /\ (Near(mm) => way <= Window)
      BY <1>0 DEF InSight, Near
    <3>. QED  BY <2>2, <2>4, <3>1
  <2>. QED  BY <1>2, <2>1, <2>3, <2>4 DEF Arduino
<1>3. CASE Move
  <2>1. way' \in Nat /\ way' <= way /\ UNCHANGED <<replies, mpc, distance>>
    BY <1>0, <1>3 DEF Move, svars, uart, measure
  <2>. QED  BY <1>0, <2>1
<1>4. ASSUME NEW what \in {"init", "distance"}, Write(what),
             UNCHANGED <<way, mpc, distance>>
      PROVE  CauseInv'
  <2>1. \A i \in DOMAIN replies' :
          /\ i \in DOMAIN replies
          /\ replies'[i].what = replies[i].what /\ replies'[i].value = replies[i].value
    BY <1>0, <1>4, WriteMessages
  <2>. QED  BY <1>4, <2>1 DEF IsDistance
<1>5. CASE AppMain
  <2>1. CASE BHello
    BY <1>4, <1>5, <2>1 DEF AppMain, BHello, measure, train
  <2>2. CASE BAwait
    BY <1>5, <2>2 DEF AppMain, BAwait, ReadAll, measure, train
  <2>3. CASE BInstall \/ BTest \/ BStart
    BY <1>5, <2>3 DEF AppMain, BInstall, BTest, BStart, uart, measure, train
  <2>. QED  BY <1>5, <2>1, <2>2, <2>3 DEF AppMain
<1>6. CASE BRestart
  BY <1>6 DEF BRestart, SRestart
<1>7. CASE Telemetry
  BY <1>7 DEF Telemetry, Launch, uart, measure
<1>8. CASE CraneTask
  <2>1. CASE CDepart
    BY <1>8, <2>1 DEF CraneTask, CDepart, Begin, uart, Near
  <2>2. CASE CMeasure /\ Request
    BY <1>4, <1>8, <2>2 DEF CraneTask, CMeasure, Request
  <2>3. CASE CMeasure /\ Read
    <3>1. UNCHANGED <<way, mpc>> /\ mpc = "approach"
      BY <1>8, <2>3 DEF CraneTask, CMeasure
    <3>2. replies' = <<>> /\ (Near(distance') => way <= Window)
      BY <1>0, <2>3, ReadCases DEF Near, Garbage
    <3>. QED  BY <3>1, <3>2
  <2>4. CASE CTest
    <3>1. UNCHANGED <<way, replies>>
      BY <1>8, <2>4 DEF CraneTask, CTest, uart
    <3>2. CASE Begin /\ UNCHANGED mpc
      BY <1>0, <2>4, <3>1, <3>2, TestCases DEF Begin, Near
    <3>. QED  BY <1>0, <2>4, <3>1, <3>2, TestCases DEF DriveOnPast
  <2>5. CASE CStop \/ CLower
    BY <1>8, <2>5 DEF CraneTask, CStop, CLower, uart, measure
  <2>. QED  BY <1>8, <2>1, <2>2, <2>3, <2>4, <2>5 DEF CraneTask, CMeasure
<1>. QED
  BY <1>1, <1>2, <1>3, <1>5, <1>6, <1>7, <1>8
     DEF Next, Push, Time, MotCntrlTask, TimerInitTask, svars, uart, measure,
         train, vars

\* Late answers included, the train stops because the cube has come into
\* sight, or because the sensor failed.
THEOREM StopsOnlyForCause == Spec => []StopsForCause
<1>1. Init => CauseInv
  BY DEF Init, SInit, CauseInv, StopsForCause
<1>2. TypeInv /\ CauseInv /\ [Next]_vars => CauseInv'
  BY CauseStep
<1>3. CauseInv => StopsForCause
  BY DEF CauseInv
<1>. QED  BY <1>1, <1>2, <1>3, TypeInvHolds, PTL DEF Spec

-----------------------------------------------------------------------------
(* The train does not pass the cube.  As long as nothing is missed there is *)
(* one question at a time on the UART, and every answer taken was given     *)
(* within the measurement.  From an answer that does not see the cube to    *)
(* the next one the train makes two steps at most; then come the time of    *)
(* the measurement, the 200 ms and the braking.                             *)

\* At most one request for a distance is under way, and none between two
\* measurements.
OneQuestion ==
  /\ \A i, j \in DOMAIN asked :
       IsDistance(asked[i]) /\ IsDistance(asked[j]) => i = j
  /\ (\E i \in DOMAIN replies : IsDistance(replies[i])) =>
       \A j \in DOMAIN asked : ~IsDistance(asked[j])
  /\ tpc # "read" =>
       /\ \A i \in DOMAIN asked : ~IsDistance(asked[i])
       /\ \A i \in DOMAIN replies : ~IsDistance(replies[i])

\* The way that is left even if the train makes every step it has time for.
Reach == way - left

\* How far the train still is from the end of sight at each point.
ReachOK ==
  /\ mpc \in {"off", "extend"} =>
       targetRPM = 0 /\ left = 0 /\ way > Window /\ tpc = "idle"
  /\ mpc = "approach" =>
       /\ tpc # "idle" /\ left <= 1
       /\ tpc \in {"ask", "read"} => Reach >= Window - 1
       /\ tpc = "read" => \A i \in DOMAIN replies :
            IsDistance(replies[i]) /\ ~Near(replies[i].value) => Reach >= Window
       /\ tpc = "done" =>
            /\ Reach >= Window - 2 /\ distance # Garbage
            /\ distance = 0 \/ distance > Limit => Reach >= Window - 1
  /\ mpc = "near" => Reach >= Window - 2 - DriveOn /\ tpc = "idle"
  /\ mpc \in {"lower", "grip"} =>
       targetRPM = 0 /\ Reach >= Window - 2 - DriveOn - Braking /\ tpc = "idle"

PassInv == ~missed => OneQuestion /\ ReachOK

\* What was missed stays missed.
LEMMA MissedStays ==
  ASSUME [Next]_vars, ~missed'  PROVE ~missed
<1>1. CASE UNCHANGED measure
  BY <1>1 DEF measure
<1>2. CASE Read
  BY <1>2, Zenon DEF Read
<1>3. CASE BRestart
  BY <1>3, Zenon DEF BRestart
<1>4. CASE UNCHANGED missed
  BY <1>4
<1>. QED
  BY <1>1, <1>2, <1>3, <1>4
     DEF Next, Arduino, Lose, Answer, Move, Push, Time, MotCntrlTask, AppMain,
         TimerInitTask, Telemetry, Launch, CraneTask, CDepart, CMeasure, CTest,
         DriveOnPast, CStop, CLower, Begin, Request, svars, vars

\* A read that misses nothing finds an answer to the one question.
LEMMA ReadMissesNothing ==
  ASSUME QueuesOK, OneQuestion, Read, ~missed'
  PROVE  \A j \in DOMAIN asked : ~IsDistance(asked[j])
<1>1. replies # <<>> /\ OnlyNumbers
  BY Zenon DEF Read
<1>2. 1 \in DOMAIN replies
  BY <1>1 DEF QueuesOK
<1>. QED  BY <1>1, <1>2 DEF OneQuestion, OnlyNumbers, IsDistance

\* There is no second question while nothing is missed.
LEMMA QuestionStep ==
  ASSUME TypeInv, OneQuestion, ReachOK, [Next]_vars, ~missed'
  PROVE  OneQuestion'
<1>. USE DEF OneQuestion
<1>0. QueuesOK /\ MeasureOK /\ DOMAIN asked = 1..Len(asked) /\ Len(asked) \in Nat
      /\ DOMAIN replies = 1..Len(replies)
  BY DEF TypeInv, QueuesOK
<1>1. CASE UNCHANGED <<asked, replies, tpc>>
  BY <1>1
<1>2. CASE Arduino
  <2>1. tpc' = tpc
    BY <1>2 DEF Arduino, Lose, Answer, measure
  <2>2. CASE Lose
    BY <1>0, <2>1, <2>2, LoseMessages DEF Lose
  <2>3. ASSUME NEW what \in {"ok", "fail", "distance"}, NEW value \in Distances,
               Answer(what, value), Head(asked).what = (IF what = "distance" THEN what ELSE "init")
        PROVE  OneQuestion'
    <3>1. asked # <<>> /\ 1 \in DOMAIN asked /\ asked[1] = Head(asked)
      BY <1>0, <2>3 DEF Answer
    <3>2. IsDistance(asked[1]) <=> what = "distance"
      BY <2>3, <3>1 DEF IsDistance
    <3>3. \A i \in DOMAIN asked' : i \in Int /\ i # 0 /\ i + 1 \in DOMAIN asked
                                    /\ asked'[i] = asked[i + 1]
      <4>1. /\ DOMAIN asked' = 1..(Len(asked) - 1)
            /\ \A i \in DOMAIN asked' :
                 i + 1 \in DOMAIN asked /\ asked'[i] = asked[i + 1]
        BY <1>0, <2>3, AnswerMessages
      <4>. QED  BY <1>0, <4>1
    <3>4. \A i \in DOMAIN replies' : IsDistance(replies'[i]) =>
            \/ i \in DOMAIN replies /\ IsDistance(replies[i])
            \/ IsDistance(asked[1])
      BY <1>0, <2>3, <3>2, AnswerMessages DEF IsDistance
    <3>5. IsDistance(asked[1]) => \A i \in DOMAIN asked' : ~IsDistance(asked'[i])
      <4>. SUFFICES ASSUME IsDistance(asked[1]), NEW i \in DOMAIN asked',
                           IsDistance(asked'[i])
                    PROVE  FALSE
        OBVIOUS
      <4>1. i + 1 = 1 /\ i \in Int /\ i # 0
        BY <3>1, <3>3
      <4>. QED  BY <4>1
    <3>6. \A i, j \in DOMAIN asked' : IsDistance(asked'[i]) /\ IsDistance(asked'[j]) => i = j
      <4>. SUFFICES ASSUME NEW i \in DOMAIN asked', NEW j \in DOMAIN asked',
                           IsDistance(asked'[i]), IsDistance(asked'[j])
                    PROVE  i = j
        OBVIOUS
      <4>1. i + 1 = j + 1
        BY <3>3
      <4>2. i \in Int /\ j \in Int
        BY <3>3
      <4>. QED  BY <4>1, <4>2
    <3>. QED  BY <2>1, <3>1, <3>3, <3>4, <3>5, <3>6
  <2>4. CASE (Answer("ok", 0) \/ Answer("fail", 0)) /\ Head(asked).what = "init"
    BY <2>3, <2>4, ApproachAssumption
  <2>5. ASSUME NEW mm \in InSight, Answer("distance", mm), Head(asked).what = "distance"
        PROVE  OneQuestion'
    BY <2>3, <2>5 DEF InSight
  <2>. QED  BY <1>2, <2>2, <2>4, <2>5 DEF Arduino
<1>3. CASE AppMain
  <2>1. tpc' = tpc
    BY <1>3 DEF AppMain, measure
  <2>2. CASE BHello
    <3>1. CASE UNCHANGED <<asked, replies>>
      BY <1>1, <2>1, <3>1
    <3>2. CASE ~UNCHANGED <<asked, replies>>
      <4>1. /\ \A i \in DOMAIN replies' : i \in DOMAIN replies
                                         /\ replies'[i].what = replies[i].what
            /\ \A i \in DOMAIN asked' : IsDistance(asked'[i]) =>
                 i \in DOMAIN asked /\ IsDistance(asked[i])
        BY <1>0, <2>2, <3>2, WriteMessages DEF BHello, IsDistance
      <4>. QED  BY <2>1, <4>1 DEF IsDistance
    <3>. QED  BY <3>1, <3>2
  <2>3. CASE BAwait
    BY <2>1, <2>3 DEF BAwait, ReadAll
  <2>4. CASE BInstall \/ BTest \/ BStart
    BY <1>1, <2>1, <2>4 DEF BInstall, BTest, BStart, uart
  <2>. QED  BY <1>3, <2>2, <2>3, <2>4 DEF AppMain
<1>4. CASE BRestart
  <2>1. mpc = "off"
    BY <1>4, Zenon DEF BRestart
  <2>2. tpc = "idle" /\ replies' = <<>> /\ asked' = Outdated(asked)
    BY <1>4, <2>1 DEF BRestart, SRestart, ReachOK
  <2>3. \A i \in DOMAIN asked' : ~IsDistance(asked'[i])
    BY <1>0, <2>2, OutdatedRequests DEF IsDistance, QueuesOK
  <2>. QED  BY <2>2, <2>3
<1>5. CASE Telemetry
  BY <1>1, <1>5 DEF Telemetry, Launch, measure, uart
<1>6. CASE CraneTask
  <2>1. CASE CDepart
    BY <2>1 DEF CDepart, Begin, uart, ReachOK
  <2>2. CASE Request
    <3>1. CASE UNCHANGED <<asked, replies>>
      BY <2>2, <3>1 DEF Request
    <3>2. CASE ~UNCHANGED <<asked, replies>>
      <4>1. tpc = "ask" /\ tpc' = "read"
        BY <2>2 DEF Request
      <4>2. /\ \A i \in DOMAIN replies' : i \in DOMAIN replies
                                         /\ replies'[i].what = replies[i].what
            /\ \A i \in DOMAIN asked' : i # Len(asked') =>
                 i \in DOMAIN asked /\ asked'[i].what = asked[i].what
        BY <1>0, <2>2, <3>2, WriteMessages DEF Request
      <4>. QED  BY <4>1, <4>2 DEF IsDistance
    <3>. QED  BY <3>1, <3>2
  <2>3. CASE Read
    <3>1. replies' = <<>> /\ asked' = asked
      BY <2>3 DEF Read, ReadAll
    <3>2. \A j \in DOMAIN asked : ~IsDistance(asked[j])
      BY <1>0, <2>3, ReadMissesNothing
    <3>. QED  BY <3>1, <3>2
  <2>4. CASE CTest
    BY <1>0, <2>4, TestCases DEF uart, Begin, DriveOnPast
  <2>5. CASE CStop \/ CLower
    BY <1>1, <2>5 DEF CStop, CLower, measure, uart
  <2>. QED  BY <1>6, <2>1, <2>2, <2>3, <2>4, <2>5 DEF CraneTask, CMeasure
<1>. QED
  BY <1>1, <1>2, <1>3, <1>4, <1>5, <1>6
     DEF Next, Move, Push, Time, MotCntrlTask, TimerInitTask, svars, uart,
         measure, vars

\* No step brings the train nearer to the end than its place allows.
LEMMA ReachStep ==
  ASSUME TypeInv, OneQuestion, ReachOK, [Next]_vars, ~missed'
  PROVE  ReachOK'
<1>. USE DEF ReachOK
<1>0. /\ QueuesOK /\ MeasureOK /\ way \in Nat /\ left \in Nat /\ Window \in Nat
      /\ DriveOn \in Nat /\ Braking \in Nat /\ Window > 2 + DriveOn + Braking
      /\ mpc \in {"off", "extend", "approach", "near", "lower", "grip"}
      /\ Distances \subseteq Nat /\ Limit \in Nat
  BY ApproachAssumption, SensorsAssumption DEF TypeInv, TrainOK, PlacesOK
<1>r. Reach \in Int /\ Reach = way - left /\ way >= Reach
  BY <1>0 DEF Reach
<1>1. ASSUME UNCHANGED <<mpc, tpc, distance, train, targetRPM>>,
             \A i \in DOMAIN replies' :
               \/ i \in DOMAIN replies /\ replies'[i].what = replies[i].what
                                       /\ replies'[i].value = replies[i].value
               \/ ~IsDistance(replies'[i])
               \/ Near(replies'[i].value)
               \/ way > Window
      PROVE  ReachOK'
  <2>1. Reach' = Reach /\ way' = way /\ left' = left
    BY <1>1 DEF Reach, train
  <2>3. mpc = "approach" /\ tpc = "read" =>
          \A i \in DOMAIN replies' :
            IsDistance(replies'[i]) /\ ~Near(replies'[i].value) => Reach' >= Window
    <3>. SUFFICES ASSUME mpc = "approach", tpc = "read", NEW i \in DOMAIN replies',
                         IsDistance(replies'[i]), ~Near(replies'[i].value)
                  PROVE  Reach >= Window
      BY <2>1
    <3>1. CASE way > Window
      BY <1>0, <1>r, <3>1
    <3>2. CASE i \in DOMAIN replies /\ replies'[i].what = replies[i].what
                                    /\ replies'[i].value = replies[i].value
      BY <3>2 DEF IsDistance
    <3>. QED  BY <1>1, <3>1, <3>2
  <2>. QED  BY <1>1, <2>1, <2>3
<1>2. CASE UNCHANGED <<replies, mpc, tpc, distance, train, targetRPM>>
  BY <1>1, <1>2
<1>3. CASE Arduino
  <2>0. UNCHANGED <<mpc, tpc, distance, train, targetRPM>>
    BY <1>3 DEF Arduino, Lose, Answer, measure, ctrl
  <2>1. CASE Lose
    BY <1>2, <2>0, <2>1 DEF Lose
  <2>2. ASSUME NEW what \in {"ok", "fail", "distance"}, NEW value \in Distances,
               Answer(what, value),
               what = "distance" => Near(value) \/ way > Window \/ tpc # "read"
                                    \/ mpc # "approach"
        PROVE  ReachOK'
    <3>1. \A i \in DOMAIN replies' :
            \/ i \in DOMAIN replies /\ replies'[i] = replies[i]
            \/ replies'[i].what = what /\ replies'[i].value = value
      BY <1>0, <2>2, AnswerMessages
    <3>2. CASE tpc = "read" /\ mpc = "approach"
      BY <1>1, <2>0, <2>2, <3>1, <3>2 DEF IsDistance
    <3>3. CASE ~(tpc = "read" /\ mpc = "approach")
      BY <2>0, <3>3 DEF Reach, train
    <3>. QED  BY <3>2, <3>3
  <2>3. CASE Answer("ok", 0) \/ Answer("fail", 0)
    BY <2>2, <2>3, ApproachAssumption
  <2>4. ASSUME NEW mm \in InSight, Answer("distance", mm)
        PROVE  ReachOK'
    <3>1. mm \in Distances /\ (Near(mm) \/ way \notin 1..Window)
      BY DEF InSight, Near
    <3>2. mpc = "approach" /\ tpc = "read" => way > 0
      BY <1>0, <1>r
    <3>. QED  BY <1>0, <2>2, <2>4, <3>1, <3>2
  <2>. QED  BY <1>3, <2>1, <2>3, <2>4 DEF Arduino
<1>4. CASE Move
  <2>1. left > 0 /\ way' = way - 1 /\ left' = left - 1 /\ targetRPM' = targetRPM
    BY <1>4 DEF Move, ctrl
  <2>2. UNCHANGED <<replies, mpc, tpc, distance>>
    BY <1>4 DEF Move, svars, uart, measure
  <2>3. Reach' = Reach /\ (left <= 1 => left' <= 1)
    BY <1>0, <2>1 DEF Reach
  <2>4. mpc \notin {"off", "extend"}
    BY <2>1
  <2>. QED  BY <2>1, <2>2, <2>3, <2>4
<1>5. CASE Push \/ Time \/ TimerInitTask
  BY <1>2, <1>5 DEF Push, Time, TimerInitTask, svars, uart, measure, ctrl
<1>6. CASE MotCntrlTask
  <2>1. UNCHANGED <<replies, mpc, tpc, distance, way>>
    BY <1>6 DEF MotCntrlTask, svars, uart, measure
  <2>2. CASE Turn
    <3>1. targetRPM' = targetRPM /\ (targetRPM = 0 => drive' = FALSE)
      BY <2>2 DEF Turn
    <3>2. left' = left
      BY <2>2, <3>1 DEF Turn
    <3>. QED  BY <1>2, <2>1, <3>1, <3>2 DEF train
  <2>3. CASE UNCHANGED <<ctrl, left>>
    BY <1>2, <2>1, <2>3 DEF ctrl, train
  <2>. QED  BY <1>6, <2>2, <2>3 DEF MotCntrlTask
<1>7. CASE AppMain
  <2>1. UNCHANGED <<mpc, tpc, distance, train, targetRPM>>
    BY <1>7 DEF AppMain, measure, ctrl
  <2>2. \A i \in DOMAIN replies' :
          i \in DOMAIN replies /\ replies'[i].what = replies[i].what
                               /\ replies'[i].value = replies[i].value
    <3>1. CASE BHello
      BY <1>0, <3>1, WriteMessages DEF BHello
    <3>2. CASE BAwait
      BY <3>2 DEF BAwait, ReadAll
    <3>3. CASE BInstall \/ BTest \/ BStart
      BY <3>3 DEF BInstall, BTest, BStart, uart
    <3>. QED  BY <1>7, <3>1, <3>2, <3>3 DEF AppMain
  <2>. QED  BY <1>1, <2>1, <2>2
<1>8. CASE BRestart
  <2>1. mpc = "off"
    BY <1>8, Zenon DEF BRestart
  <2>2. mpc' = "off" /\ tpc' = "idle" /\ targetRPM' = 0 /\ left' = 0 /\ way' = way
    BY <1>8, Zenon DEF BRestart, SRestart
  <2>. QED  BY <2>1, <2>2
<1>9. CASE Telemetry
  <2>1. mpc = "off" /\ mpc' = "extend" /\ UNCHANGED <<tpc, way, left, targetRPM>>
    BY <1>9 DEF Telemetry, Launch, measure
  <2>. QED  BY <2>1
<1>10. CASE CraneTask
  <2>0. UNCHANGED way
    BY <1>10 DEF CraneTask
  <2>1. CASE CDepart
    <3>1. mpc = "extend" /\ mpc' = "approach" /\ tpc' = "ask" /\ left' = 1
      BY <2>1 DEF CDepart, Begin
    <3>. QED  BY <1>0, <2>0, <3>1 DEF Reach
  <2>2. CASE CMeasure /\ Request
    <3>1. /\ mpc = "approach" /\ mpc' = "approach" /\ tpc = "ask" /\ tpc' = "read"
          /\ left' = left
      BY <2>2 DEF CMeasure, Request
    <3>2. \A i \in DOMAIN replies' : ~IsDistance(replies'[i])
      BY <1>0, <2>2, <3>1, WriteMessages DEF Request, OneQuestion, IsDistance
    <3>. QED  BY <2>0, <3>1, <3>2 DEF Reach
  <2>3. CASE CMeasure /\ Read
    <3>1. /\ mpc = "approach" /\ mpc' = "approach" /\ tpc = "read" /\ left' = 1
          /\ Reach' = way - 1
      <4>1. mpc = "approach" /\ mpc' = "approach" /\ tpc = "read"
        BY <2>3 DEF CMeasure, Read
      <4>2. left' = 1
        BY <2>3, <4>1, Zenon DEF CMeasure
      <4>. QED  BY <1>0, <2>0, <4>1, <4>2 DEF Reach
    <3>2. tpc' \in {"ask", "done"} /\ replies # <<>> /\ OnlyNumbers /\ replies' = <<>>
      <4>1. replies # <<>> /\ OnlyNumbers
        BY <2>3, Zenon DEF Read
      <4>. QED  BY <1>0, <2>3, <4>1, ReadCases
    <3>3. Reach >= Window - 1 /\ way >= Window - 1
      BY <1>0, <1>r, <3>1
    <3>4. CASE tpc' = "ask"
      <4>1. AfterRead(Number) /\ Number \in Nat
        BY <1>0, <2>3, <3>2, NumberOfAnswers DEF Read
      <4>. QED  BY <3>4, <4>1 DEF AfterRead
    <3>5. CASE tpc' = "done"
      <4>1. distance' = -1
            \/ (/\ Len(replies) \in DOMAIN replies /\ IsDistance(replies[Len(replies)])
                /\ distance' = replies[Len(replies)].value)
        BY <1>0, <2>3, <3>2, ReadCases
      <4>2. distance' = 0 \/ distance' > Limit => way >= Window
        <5>1. CASE distance' = -1
          BY <1>0, <5>1
        <5>2. CASE /\ Len(replies) \in DOMAIN replies /\ IsDistance(replies[Len(replies)])
                   /\ distance' = replies[Len(replies)].value
          <6>1. ~Near(distance') => Reach >= Window
            BY <3>1, <5>2
          <6>2. distance' = 0 \/ distance' > Limit => ~Near(distance')
            BY <1>0 DEF Near
          <6>. QED  BY <1>0, <1>r, <6>1, <6>2
        <5>. QED  BY <4>1, <5>1, <5>2
      <4>3. distance' # Garbage
        <5>1. \A d \in Distances : d # Garbage
          BY <1>0 DEF Garbage
        <5>2. \A i \in DOMAIN replies : replies[i].value \in Distances
          <6>1. \A i \in DOMAIN replies : replies[i] \in Answers
            BY <1>0 DEF QueuesOK
          <6>. QED  BY <6>1 DEF Answers
        <5>. QED  BY <4>1, <5>1, <5>2 DEF Garbage
      <4>4. /\ Reach' >= Window - 2 /\ left' <= 1
            /\ distance' = 0 \/ distance' > Limit => Reach' >= Window - 1
        BY <1>0, <3>1, <3>3, <4>2
      <4>. QED  BY <3>1, <3>5, <4>3, <4>4
    <3>. QED  BY <3>2, <3>4, <3>5
  <2>4. CASE CTest
    <3>1. /\ mpc = "approach" /\ tpc = "done" /\ Reach >= Window - 2
          /\ distance # Garbage
          /\ distance = 0 \/ distance > Limit => Reach >= Window - 1
      <4>1. mpc = "approach" /\ tpc = "done"
        BY <1>0, <2>4, TestCases
      <4>. QED  BY <4>1
    <3>2. CASE /\ distance = 0 \/ distance > Limit \/ distance = Garbage
               /\ Begin /\ UNCHANGED <<mpc, left>>
      <4>1. Reach' = Reach /\ Reach >= Window - 1 /\ tpc' = "ask"
        BY <2>0, <3>1, <3>2 DEF Begin, Reach
      <4>. QED  BY <3>1, <3>2, <4>1
    <3>3. CASE DriveOnPast
      <4>1. mpc' = "near" /\ tpc' = "idle" /\ Reach' = Reach - DriveOn
        BY <1>0, <2>0, <3>3 DEF DriveOnPast, Reach
      <4>. QED  BY <1>0, <1>r, <3>1, <4>1
    <3>. QED  BY <1>0, <2>4, <3>2, <3>3, TestCases
  <2>5. CASE CStop
    <3>1. /\ mpc = "near" /\ mpc' = "lower" /\ targetRPM' = 0 /\ tpc' = tpc
          /\ left' = left + Braking
      BY <2>5 DEF CStop, measure
    <3>2. Reach' = Reach - Braking
      BY <1>0, <2>0, <3>1 DEF Reach
    <3>. QED  BY <1>0, <1>r, <3>1, <3>2
  <2>6. CASE CLower
    <3>1. /\ mpc = "lower" /\ mpc' = "grip" /\ UNCHANGED <<targetRPM, tpc, left>>
      BY <2>6 DEF CLower, measure
    <3>2. Reach' = Reach
      BY <2>0, <3>1 DEF Reach
    <3>. QED  BY <3>1, <3>2
  <2>. QED  BY <1>10, <2>1, <2>2, <2>3, <2>4, <2>5, <2>6 DEF CraneTask, CMeasure
<1>11. CASE UNCHANGED vars
  BY <1>2, <1>11 DEF vars, svars, uart, measure, ctrl
<1>. QED
  BY <1>3, <1>4, <1>5, <1>6, <1>7, <1>8, <1>9, <1>10, <1>11 DEF Next

\* As long as every request is answered in time the train stops before it has
\* passed the cube, if this is in sight for the way of two measurements, of the
\* 200 ms of driving on, of the braking, and one step more.
THEOREM CubeIsNotPassed == Spec => []NotPassed
<1>1. Init => PassInv
  <2>. SUFFICES ASSUME Init  PROVE OneQuestion /\ ReachOK
    BY DEF PassInv
  <2>1. OneQuestion
    BY DEF Init, SInit, OneQuestion
  <2>2. ReachOK
    BY ApproachAssumption DEF Init, SInit, ReachOK
  <2>. QED  BY <2>1, <2>2
<1>2. TypeInv /\ PassInv /\ [Next]_vars => PassInv'
  BY MissedStays, QuestionStep, ReachStep DEF PassInv
<1>3. TypeInv /\ PassInv => NotPassed
  <2>. SUFFICES ASSUME TypeInv, ReachOK, way = 0  PROVE FALSE
    BY DEF PassInv, NotPassed
  <2>1. /\ Window \in Nat /\ DriveOn \in Nat /\ Braking \in Nat /\ left \in Nat
        /\ Window > 2 + DriveOn + Braking
    BY ApproachAssumption DEF TypeInv, TrainOK
  <2>2. Reach <= 0 /\ Reach \in Int
    BY <2>1 DEF Reach
  <2>. QED
    BY <2>1, <2>2 DEF ReachOK, TypeInv, PlacesOK, MeasureOK
<1>. QED  BY <1>1, <1>2, <1>3, TypeInvHolds, PTL DEF Spec
=============================================================================
