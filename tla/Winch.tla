------------------------------- MODULE Winch -------------------------------
(***************************************************************************)
(* The winch: the shared counter winch_steps (src/src/tasks.c), the task   *)
(* that counts it down and pulses the stepper, the crane missions that     *)
(* order steps and wait for the counter to reach zero                      *)
(* (src/src/cyrill_test.c), and the Bluetooth callback that overwrites it  *)
(* (src/src/bluetooth_parse.c).                                            *)
(*                                                                         *)
(* winch_steps is a plain int32_t used by tasks on both cores without a    *)
(* lock, so every load and every store is a step of its own: winch_steps-- *)
(* and winch_steps+=X are a load followed by a store.  Where the compiler  *)
(* may either keep the loaded value or load again, WReload makes both      *)
(* builds possible.                                                        *)
(***************************************************************************)
EXTENDS Integers, Sequences

CONSTANTS
  Missions,    \* the mission tasks that are running
  Kind,        \* Kind[m]: which task function mission m executes
  StepsMax,    \* WINCH_STEPS_MAX   (4150)
  StepsPart,   \* WINCH_STEPS_PART  (2600)
  StepsPart2,  \* WINCH_STEPS_PART2 (3500)
  BtSteps,     \* the order of "winch up" / "winch down" (4000)
  BtBudget     \* bound: how many Bluetooth winch commands arrive

ASSUME WinchAssumption ==
  /\ Kind \in [Missions -> {"crane_task", "unload_task"}]
  /\ StepsMax \in Nat /\ StepsPart \in Nat \ {0} /\ StepsPart2 \in Nat \ {0}
  /\ StepsPart2 < StepsMax
  /\ BtSteps \in Nat \ {0} /\ BtBudget \in Nat

VARIABLES
  winch_steps, \* the shared counter, > 0 is down, < 0 is up
  wpc,         \* where winchTask stands in its loop
  reg,         \* the copy of winch_steps winchTask holds in a register
  dirPin,      \* level of P_WINCHDIR
  stepPin,     \* level of P_WINCH, a rising edge moves the stepper
  mpc, mreg,   \* per mission: control point, register copy of winch_steps
  seg,         \* per mission: number of orders issued
  btLeft       \* Bluetooth commands still to come

winchVars   == <<wpc, reg, dirPin, stepPin>>
missionVars == <<mpc, mreg, seg>>
vars == <<winch_steps, winchVars, missionVars, btLeft>>

\* The orders of a mission, in program order.
CranePlan  == <<StepsMax, -StepsPart, StepsPart, -StepsPart2,
                -(StepsMax - StepsPart2)>>
UnloadPlan == <<StepsMax - StepsPart2, StepsPart2, -StepsPart, StepsPart,
                -StepsMax>>
Plan(m) == IF Kind[m] = "crane_task" THEN CranePlan ELSE UnloadPlan

\* The order mission m issues next.
Order(m) == Plan(m)[seg[m] + 1]

Init ==
  /\ winch_steps = 0
  /\ wpc = "test" /\ reg = 0 /\ dirPin = 1 /\ stepPin = 0
  /\ mpc = [m \in Missions |-> "crane"]
  /\ mreg = [m \in Missions |-> 0]
  /\ seg = [m \in Missions |-> 0]
  /\ btLeft = BtBudget

-----------------------------------------------------------------------------
(* winchTask, one turn of its loop.                                        *)

\* if(winch_steps>0)
WTestPositive ==
  /\ wpc = "test"
  /\ reg' = winch_steps
  /\ wpc' = IF winch_steps > 0 THEN "dec" ELSE "testneg"
  /\ UNCHANGED <<winch_steps, dirPin, stepPin, missionVars, btLeft>>

\* The compiled code loads winch_steps again at the next use.
WReload ==
  /\ wpc \in {"testneg", "dec", "inc", "check"}
  /\ reg # winch_steps
  /\ reg' = winch_steps
  /\ UNCHANGED <<winch_steps, wpc, dirPin, stepPin, missionVars, btLeft>>

\* An off-by-one in the test leaves the last upward step pending for ever.
WTestNegativeMutant ==
  /\ wpc = "testneg"
  /\ wpc' = IF reg < -1 THEN "inc" ELSE "check"
  /\ UNCHANGED <<winch_steps, reg, dirPin, stepPin, missionVars, btLeft>>

\* else if(winch_steps<0)
WTestNegative ==
  /\ wpc = "testneg"
  /\ wpc' = IF reg < 0 THEN "inc" ELSE "check"
  /\ UNCHANGED <<winch_steps, reg, dirPin, stepPin, missionVars, btLeft>>

\* The store of winch_steps-- : the value goes back whatever was stored since.
WDecrement ==
  /\ wpc = "dec"
  /\ winch_steps' = reg - 1
  /\ wpc' = "dirDown"
  /\ UNCHANGED <<reg, dirPin, stepPin, missionVars, btLeft>>

\* The store of winch_steps++.
WIncrement ==
  /\ wpc = "inc"
  /\ winch_steps' = reg + 1
  /\ wpc' = "dirUp"
  /\ UNCHANGED <<reg, dirPin, stepPin, missionVars, btLeft>>

\* gpio_set_level(P_WINCHDIR, ...); the call makes the compiler load again.
WSetDirection ==
  /\ wpc \in {"dirDown", "dirUp"}
  /\ dirPin' = IF wpc = "dirDown" THEN 1 ELSE 0
  /\ reg' = winch_steps
  /\ wpc' = "check"
  /\ UNCHANGED <<winch_steps, stepPin, missionVars, btLeft>>

\* A check for "nothing left to lower" drops the pulses of upward orders.
WCheckZeroMutant ==
  /\ wpc = "check"
  /\ wpc' = IF reg <= 0 THEN "test" ELSE "high"
  /\ UNCHANGED <<winch_steps, reg, dirPin, stepPin, missionVars, btLeft>>

\* if(winch_steps==0) delay, and no pulse, even after the counter was stepped.
WCheckZero ==
  /\ wpc = "check"
  /\ wpc' = IF reg = 0 THEN "test" ELSE "high"
  /\ UNCHANGED <<winch_steps, reg, dirPin, stepPin, missionVars, btLeft>>

\* gpio_set_level(P_WINCH, 1): the rising edge, one step towards dirPin.
WPulseHigh ==
  /\ wpc = "high"
  /\ stepPin' = 1
  /\ wpc' = "low"
  /\ UNCHANGED <<winch_steps, reg, dirPin, missionVars, btLeft>>

\* gpio_set_level(P_WINCH, 0)
WPulseLow ==
  /\ wpc = "low"
  /\ stepPin' = 0
  /\ wpc' = "test"
  /\ UNCHANGED <<winch_steps, reg, dirPin, missionVars, btLeft>>

WinchTask ==
  \/ WTestPositive \/ WReload \/ WTestNegative \/ WDecrement \/ WIncrement
  \/ WSetDirection \/ WCheckZero \/ WPulseHigh \/ WPulseLow

-----------------------------------------------------------------------------
(* A mission: move the crane, order winch steps, wait, and again.          *)

\* The crane movements and delays before an order are over; the load half of
\* winch_steps+=X.
MLoad(m) ==
  /\ mpc[m] = "crane"
  /\ mreg' = [mreg EXCEPT ![m] = winch_steps]
  /\ mpc' = [mpc EXCEPT ![m] = "store"]
  /\ UNCHANGED <<winch_steps, winchVars, seg, btLeft>>

\* The store half of winch_steps+=X; the register is free again.
MStore(m) ==
  /\ mpc[m] = "store"
  /\ winch_steps' = mreg[m] + Order(m)
  /\ mreg' = [mreg EXCEPT ![m] = 0]
  /\ seg' = [seg EXCEPT ![m] = @ + 1]
  /\ mpc' = [mpc EXCEPT ![m] = "wait"]
  /\ UNCHANGED <<winchVars, btLeft>>

AfterWait(m) == IF seg[m] = Len(Plan(m)) THEN "done" ELSE "crane"

\* A wait that tests one sign only goes on before the winch has come up.
MWaitSignMutant(m) ==
  /\ mpc[m] = "wait"
  /\ winch_steps <= 0
  /\ mpc' = [mpc EXCEPT ![m] = AfterWait(m)]
  /\ UNCHANGED <<winch_steps, winchVars, mreg, seg, btLeft>>

\* A mission that starts over after its last order.
MWaitEndMutant(m) ==
  /\ mpc[m] = "wait"
  /\ winch_steps = 0
  /\ mpc' = [mpc EXCEPT ![m] = "crane"]
  /\ UNCHANGED <<winch_steps, winchVars, mreg, seg, btLeft>>

\* while(winch_steps!=0) vTaskDelay(...) falls through.
MWait(m) ==
  /\ mpc[m] = "wait"
  /\ winch_steps = 0
  /\ mpc' = [mpc EXCEPT ![m] = AfterWait(m)]
  /\ UNCHANGED <<winch_steps, winchVars, mreg, seg, btLeft>>

Mission(m) == MLoad(m) \/ MStore(m) \/ MWait(m)

-----------------------------------------------------------------------------
(* btParse, "winch up" / "winch down" / "winch stop": one store.           *)

BtWinch(order) ==
  /\ btLeft > 0
  /\ btLeft' = btLeft - 1
  /\ winch_steps' = order
  /\ UNCHANGED <<winchVars, missionVars>>

BtOrders == {-BtSteps, BtSteps, 0}

Next ==
  \/ WinchTask
  \/ \E m \in Missions : Mission(m)
  \/ \E order \in BtOrders : BtWinch(order)

\* winchTask and the missions leave the processor in every turn (vTaskDelay)
\* and run above the idle priority, so neither starves the other.
Spec == /\ Init /\ [][Next]_vars
        /\ WF_vars(WinchTask)
        /\ \A m \in Missions : WF_vars(Mission(m))

-----------------------------------------------------------------------------
\* The values the variables take; in particular a mission never reaches for a
\* sixth order.
TypeOK ==
  /\ winch_steps \in Int /\ reg \in Int
  /\ wpc \in {"test", "testneg", "dec", "inc", "dirDown", "dirUp",
              "check", "high", "low"}
  /\ dirPin \in {0, 1} /\ stepPin \in {0, 1}
  /\ mpc \in [Missions -> {"crane", "store", "wait", "done"}]
  /\ mreg \in [Missions -> Int]
  /\ seg \in [Missions -> 0..5]
  /\ btLeft \in 0..BtBudget
  /\ \A m \in Missions : mpc[m] \in {"crane", "store"} => seg[m] < 5

(* While a mission moves the crane (or is through) no pulse is under way   *)
(* and none can start: the wait loops of crane_task and unload_task really *)
(* keep winch and crane apart.  Holds for one mission without Bluetooth    *)
(* winch commands, whichever way the compiler treats winch_steps.          *)
CraneOnlyWhenWinchStill ==
  \A m \in Missions : mpc[m] \in {"crane", "done"} =>
    /\ winch_steps = 0
    /\ stepPin = 0
    /\ wpc \notin {"high", "low", "dec", "inc"}
    /\ wpc \in {"testneg", "check"} => reg = 0

(* Every mission gets through its orders and the winch comes to rest, also *)
(* when missions share the counter or Bluetooth overwrites it.             *)
MissionsComplete ==
  <>[](winch_steps = 0 /\ \A m \in Missions : mpc[m] = "done")
=============================================================================
