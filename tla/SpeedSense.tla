----------------------------- MODULE SpeedSense -----------------------------
(***************************************************************************)
(* How the motor controller measures the speed: senseISR stores the time   *)
(* between two pulses of the wheel, the control loop replaces it by        *)
(* M_TIMEOUT when no pulse has come for that long                          *)
(* (src/src/motController.c), and timerInitTask, which app_main starts     *)
(* last but one, starts the timer both read (src/src/tasks.c).             *)
(*                                                                         *)
(* Before that the timer stands at zero.  A period is kept as its kind;    *)
(* that its eight bytes are not stored at once changes no kind: the half   *)
(* with the exponent decides.                                              *)
(***************************************************************************)
VARIABLES
  running, \* the timer was started
  period,  \* "initial" is 10 s, "zero" the time between two stopped clocks
  old,     \* time - oldtime > M_TIMEOUT
  lpc      \* where the control loop stands

sense == <<running, period, old, lpc>>

SenseInit == running = FALSE /\ period = "initial" /\ old = FALSE /\ lpc = "turn"

SenseRestart ==
  running' = FALSE /\ period' = "initial" /\ old' = FALSE /\ lpc' = "turn"

\* senseISR
SenseISR ==
  /\ period' = IF running THEN "pulse" ELSE "zero"
  /\ old' = FALSE
  /\ UNCHANGED <<running, lpc>>

\* timerInit: the counter is set to zero, as oldtime still is, and runs.
TimerInit ==
  /\ ~running /\ running' = TRUE /\ old' = FALSE
  /\ UNCHANGED <<period, lpc>>

\* Time passes without a pulse.
Expire ==
  /\ running /\ ~old /\ old' = TRUE
  /\ UNCHANGED <<running, period, lpc>>

\* A loop that never notices that the wheel stands.
SampleMutant ==
  /\ lpc = "sample" /\ lpc' = "turn"
  /\ UNCHANGED <<running, period, old>>

\* if((mytime - oldtime) > M_TIMEOUT)
Sample ==
  /\ lpc = "sample"
  /\ lpc' = IF old THEN "store" ELSE "turn"
  /\ UNCHANGED <<running, period, old>>

\* period = M_TIMEOUT, also when senseISR has stored another in the meantime.
Store ==
  /\ lpc = "store" /\ lpc' = "turn"
  /\ period' = "timeout"
  /\ UNCHANGED <<running, old>>

SenseTypeOK ==
  /\ running \in BOOLEAN /\ old \in BOOLEAN
  /\ period \in {"initial", "zero", "pulse", "timeout"}
  /\ lpc \in {"turn", "sample", "store"}
=============================================================================
