------------------------------ MODULE Sensors ------------------------------
(***************************************************************************)
(* The distance sensors: requests to an Arduino on UART 1 and its answers  *)
(* (src/src/uart_arduino.c) and the retries on top of them                 *)
(* (src/src/tof.c).  One task measures; app_main asks the Arduino to       *)
(* initialise its sensors over the same UART, into the same buffer data.   *)
(*                                                                         *)
(* The Arduino takes its requests in order and answers each once, when it  *)
(* likes, or never.  An answer does not say which request it belongs to;   *)
(* the field new does, for the properties.                                 *)
(***************************************************************************)
EXTENDS Averages, SequencesExt

CONSTANTS
  Retries,   \* measurements_counter>=20 ends tof_get_distance
  Distances, \* what a sensor may answer, in mm; 0 is "nothing in sight"
  Owed       \* bound: requests the Arduino has not dealt with

ASSUME SensorsAssumption ==
  Retries \in Nat /\ Owed \in Nat \ {0} /\ Distances \subseteq Nat

VARIABLES
  installed, \* the UART driver is installed
  asked,     \* requests on their way to the Arduino
  replies,   \* received by the driver, not yet read
  data0,     \* data[0]: "ok" is the byte 1
  tpc,       \* where tof_get_distance stands
  tries,     \* measurements_counter
  distance,  \* what it returned, or the last answer it looked at
  missed     \* history: a read of the task brought no number, or a
             \* restart cut the mission off

uart    == <<installed, asked, replies, data0>>
measure == <<tpc, tries, distance, missed>>
svars   == <<uart, measure>>

Memory == {"ok", "other"}   \* from malloc

SInit ==
  /\ installed = FALSE /\ asked = <<>> /\ replies = <<>> /\ data0 \in Memory
  /\ tpc = "idle" /\ tries = 0 /\ distance = 0
  /\ missed = FALSE

-----------------------------------------------------------------------------
\* The Arduino.
Outdated(q) == [i \in DOMAIN q |-> [q[i] EXCEPT !.new = FALSE]]

Answer(what, value) ==
  /\ asked # <<>> /\ installed
  /\ replies' = Append(replies,
       [what |-> what, value |-> value, new |-> Head(asked).new])
  /\ asked' = Tail(asked)
  /\ UNCHANGED <<installed, data0, measure>>

\* The request or its answer is lost.
Lose == asked # <<>> /\ asked' = Tail(asked)
        /\ UNCHANGED <<installed, replies, data0, measure>>

\* The chip restarts.  The Arduino does not, and has still to answer.
SRestart ==
  /\ installed' = FALSE /\ asked' = Outdated(asked) /\ replies' = <<>>
  /\ data0' \in Memory
  /\ tpc' = "idle" /\ tries' = 0 /\ distance' = 0

\* uart_write_bytes; without a driver it fails, and nobody looks.
Write(what) ==
  IF installed
  THEN /\ Len(asked) < Owed
       /\ asked' = Append(Outdated(asked), [what |-> what, new |-> what = "distance"])
       /\ replies' = Outdated(replies)
  ELSE UNCHANGED <<asked, replies>>

\* uart_read_bytes takes all there is; data[0] is the first byte of it.
ReadAll ==
  /\ replies' = <<>>
  /\ \/ replies = <<>> /\ UNCHANGED data0
     \/ replies # <<>>
        /\ data0' = IF Head(replies).what = "ok" THEN "ok" ELSE "other"

-----------------------------------------------------------------------------
\* uart_arduino_get_sensor_value up to its delay.
Request ==
  /\ tpc = "ask" /\ Write("distance")
  /\ tpc' = "read"
  /\ UNCHANGED <<installed, data0, tries, distance, missed>>

Garbage == -2
OnlyNumbers == \A i \in DOMAIN replies : replies[i].what = "distance"

\* The first number of several is taken.
NumberMutant ==
  IF OnlyNumbers THEN Head(replies).value ELSE Garbage

\* The value of what was read: the last number of several.  The Arduino's
\* answer to app_main is no number: the loop runs past it and past len, over
\* what is left in data, and any number may come of it.
Number ==
  IF OnlyNumbers THEN Last(replies).value ELSE Garbage

\* Retries without an end.
AfterReadMutant(d) ==
  IF d = -1 THEN tpc' = "ask" /\ distance' = d /\ tries' = tries + 1
  ELSE tpc' = "done" /\ distance' = d /\ tries' = 0

\* do ... while(distance==-1): the counter is tested after the read, and the
\* answer to the last request is thrown away even if it came.
AfterRead(d) ==
  \/ tries >= Retries /\ tpc' = "done" /\ distance' = -1 /\ tries' = 0
  \/ tries < Retries /\ d = -1 /\ tpc' = "ask" /\ distance' = d /\ tries' = tries + 1
  \/ tries < Retries /\ d # -1 /\ tpc' = "done" /\ distance' = d /\ tries' = 0

\* The rest of uart_arduino_get_sensor_value, and what tof_get_distance makes
\* of it.
Read ==
  /\ tpc = "read" /\ ReadAll
  /\ IF replies = <<>> THEN AfterRead(-1) ELSE AfterRead(Number)
  /\ missed' = (missed \/ replies = <<>> \/ ~OnlyNumbers)
  /\ UNCHANGED <<installed, asked>>

-----------------------------------------------------------------------------
\* The types of the sensors' variables.
SensorsTypeOK ==
  /\ installed \in BOOLEAN /\ data0 \in {"ok", "other"}
  /\ Len(asked) <= Owed
  /\ \A i \in DOMAIN asked :
       asked[i] \in [what : {"init", "distance"}, new : BOOLEAN]
  /\ \A i \in DOMAIN replies :
       replies[i] \in [what : {"ok", "fail", "distance"},
                       value : Distances, new : BOOLEAN]
  /\ tpc \in {"idle", "ask", "read", "done"} /\ tries \in 0..Retries
  /\ distance \in Distances \cup {-1, Garbage}
  /\ missed \in BOOLEAN

(* If the answer to a request is there when it is read, that answer is what *)
(* the task gets, however many late ones to earlier requests lie before it; *)
(* the last try, whose answer is thrown away (tof.c:8), excepted.           *)
TakesOwnAnswer ==
  [][\A i \in DOMAIN replies :
       tpc = "read" /\ tpc' = "done" /\ replies[i].new /\ tries < Retries
       /\ OnlyNumbers => distance' = replies[i].value]_svars
=============================================================================
