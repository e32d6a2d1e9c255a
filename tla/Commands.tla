------------------------------ MODULE Commands ------------------------------
(***************************************************************************)
(* What telemetry and Bluetooth make the firmware do: teleUpdateTask,      *)
(* pingTask and beepTask of src/src/tasks.c, btParse of                    *)
(* src/src/bluetooth_parse.c, and the tasks they start and delete through  *)
(* the handles of src/src/taskhandles.h.                                   *)
(*                                                                         *)
(* A handle is the address of a task control block.  The block of a task   *)
(* that ended is free and may be taken by the next xTaskCreate, so a       *)
(* handle can come to mean another task.  What vTaskDelete does with a     *)
(* handle that is no task's is undefined; the model stops there.           *)
(***************************************************************************)
EXTENDS Integers, FiniteSets

CONSTANTS
  Blocks,      \* task control blocks for missions
  Null, Stray, \* a NULL handle; one that points to other memory
  Signals,     \* values sent in "signal", "stop" and "ping", and with "beep n"
  TeleBudget,  \* bound: messages that reach attached variables
  BtBudget     \* bound: Bluetooth commands

Missions == {"crane_task", "unload_task", "stop_task"}

ASSUME CommandsAssumption ==
  /\ Missions \cap Blocks = {} /\ Null \notin Blocks /\ Stray \notin Blocks
  /\ Null # Stray
  /\ IsFiniteSet(Blocks)
  /\ Signals \subseteq Nat \ {0}
  /\ TeleBudget \in Nat /\ BtBudget \in Nat

VARIABLES
  cube, stopsignal, signalno, directionno, ping,  \* the attached variables
  upc, blockFlag, stopFlag,  \* teleUpdateTask: where it stands, its latches
  ppc, pong,                 \* pingTask; the last value it published, or 0
  notified, note,            \* beepTask's notification: pending, and its value
  bpc, numtobeep,            \* beepTask
  task,                      \* task[b]: what runs in control block b, or "free"
  handle,                    \* cubeHandle, unloadHandle, stopHandle
  btAlive, undefined,        \* the task that calls btParse is not deleted; UB
  teleLeft, btLeft,
  fresh,     \* history: the task last started by Bluetooth still runs
  asked,     \* history: starts asked for, per mission
  heard,     \* history: beeps since beepTask took its last notification
  lastNote,  \* history: the value of the last notification, or 0
  due        \* history: a ping pingTask must answer

attachedVars == <<cube, stopsignal, signalno, directionno, ping>>
update  == <<upc, blockFlag, stopFlag>>
pinging == <<ppc, pong, due>>
beeping == <<notified, note, lastNote, bpc, numtobeep, heard>>
control == <<task, handle, btAlive, undefined, fresh, asked>>
budgets == <<teleLeft, btLeft>>
vars == <<attachedVars, update, pinging, beeping, control, budgets>>

\* app_main: three handles hold the address of malloc'ed memory,
\* unloadHandle none.
Init ==
  /\ cube = 0 /\ stopsignal = 0 /\ signalno = 0 /\ directionno = 0 /\ ping = 0
  /\ upc = "update" /\ blockFlag = FALSE /\ stopFlag = FALSE
  /\ ppc = "test" /\ pong = 0 /\ due = 0
  /\ notified = FALSE /\ note = 0 /\ lastNote = 0
  /\ bpc = "boot" /\ numtobeep = 0 /\ heard = 0
  /\ task = [b \in Blocks |-> "free"]
  /\ handle = [m \in Missions |-> IF m = "unload_task" THEN Null ELSE Stray]
  /\ btAlive = TRUE /\ undefined = FALSE
  /\ fresh = [m \in Missions |-> FALSE] /\ asked = [m \in Missions |-> 0]
  /\ teleLeft = TeleBudget /\ btLeft = BtBudget

\* A notification that does not overwrite one that is pending.
NotifyMutant(v) ==
  /\ notified' = TRUE /\ lastNote' = v
  /\ note' = IF notified THEN note ELSE v
  /\ UNCHANGED <<bpc, numtobeep, heard>>

\* xTaskNotify(beepHandle, v, eSetValueWithOverwrite)
Notify(v) ==
  /\ notified' = TRUE /\ note' = v /\ lastNote' = v
  /\ UNCHANGED <<bpc, numtobeep, heard>>

Free == {b \in Blocks : task[b] = "free"}

-----------------------------------------------------------------------------
(* teleUpdateTask.                                                         *)

\* update_telemetry stores a message in an attached variable.
Receive ==
  /\ upc = "update" /\ teleLeft > 0 /\ ~undefined
  /\ teleLeft' = teleLeft - 1
  /\ \/ cube' = 1 /\ asked' = [asked EXCEPT !["crane_task"] = @ + (1 - cube)]
        /\ UNCHANGED <<stopsignal, signalno, directionno, ping, due>>
     \/ /\ stopsignal' \in Signals
        /\ asked' = [asked EXCEPT !["stop_task"] =
                       IF stopsignal = 0 THEN @ + 1 ELSE @]
        /\ UNCHANGED <<cube, signalno, directionno, ping, due>>
     \/ /\ signalno' \in Signals
        /\ UNCHANGED <<cube, stopsignal, directionno, ping, due, asked>>
     \/ /\ directionno' \in {1, 2}
        /\ UNCHANGED <<cube, stopsignal, signalno, ping, due, asked>>
     \/ /\ ping' \in Signals
        /\ due' = IF ppc = "reset" /\ ping # 0 THEN due ELSE ping'
        /\ UNCHANGED <<cube, stopsignal, signalno, directionno, asked>>
  /\ UNCHANGED <<update, ppc, pong, beeping, task, handle, btAlive, undefined,
                 fresh, btLeft>>

UGoto(l) == upc' = l /\ ~undefined

UpdateEnds ==
  /\ upc = "update" /\ UGoto("cube")
  /\ UNCHANGED <<attachedVars, blockFlag, stopFlag, pinging, beeping, control,
                 budgets>>

\* xTaskCreatePinnedToCore(..., NULL, 0); without memory nothing is started.
Create(m) ==
  \/ Free = {} /\ UNCHANGED task
  \/ \E b \in Free : task' = [task EXCEPT ![b] = m]

\* A latch that is not set.
StartCubeMutant ==
  /\ upc = "cube" /\ UGoto("stop")
  /\ IF cube = 1 /\ ~blockFlag
     THEN Notify(3) /\ Create("crane_task")
     ELSE UNCHANGED <<beeping, task>>
  /\ UNCHANGED <<attachedVars, blockFlag, stopFlag, pinging, handle, btAlive,
                 undefined, fresh, asked, budgets>>

\* if ((cube == 1) && (blockFlag == 0))
StartCube ==
  /\ upc = "cube" /\ UGoto("stop")
  /\ IF cube = 1 /\ ~blockFlag
     THEN Notify(3) /\ Create("crane_task") /\ blockFlag' = TRUE
     ELSE UNCHANGED <<beeping, task, blockFlag>>
  /\ UNCHANGED <<attachedVars, stopFlag, pinging, handle, btAlive, undefined,
                 fresh, asked, budgets>>

\* if ((stopsignal >= 1) && (stopFlag == 0))
StartStop ==
  /\ upc = "stop" /\ UGoto("signal")
  /\ IF stopsignal >= 1 /\ ~stopFlag
     THEN Notify(stopsignal) /\ Create("stop_task") /\ stopFlag' = TRUE
     ELSE UNCHANGED <<beeping, task, stopFlag>>
  /\ UNCHANGED <<attachedVars, blockFlag, pinging, handle, btAlive, undefined,
                 fresh, asked, budgets>>

\* if (signalno)
Signal ==
  /\ upc = "signal" /\ UGoto("direction")
  /\ IF signalno # 0 THEN Notify(signalno) /\ signalno' = 0
                     ELSE UNCHANGED <<beeping, signalno>>
  /\ UNCHANGED <<cube, stopsignal, directionno, ping, blockFlag, stopFlag,
                 pinging, control, budgets>>

\* if (directionno); the call of setMotDir is a client's in MotorControl.
Direction ==
  /\ upc = "direction" /\ UGoto("update")
  /\ IF directionno # 0 THEN Notify(directionno) /\ directionno' = 0
                        ELSE UNCHANGED <<beeping, directionno>>
  /\ UNCHANGED <<cube, stopsignal, signalno, ping, blockFlag, stopFlag,
                 pinging, control, budgets>>

TeleUpdate ==
  UpdateEnds \/ StartCube \/ StartStop \/ Signal \/ Direction

-----------------------------------------------------------------------------
(* pingTask and beepTask.                                                  *)

\* A turn that ends with ping = 0 whether or not there was a ping.
PingTestAlwaysMutant ==
  /\ ppc = "test" /\ ~undefined
  /\ ppc' = IF ping # 0 THEN "publish" ELSE "reset"
  /\ UNCHANGED <<attachedVars, update, pong, due, beeping, control, budgets>>

\* A turn that resets ping before it publishes it.
PingTestEarlyMutant ==
  /\ ppc = "test" /\ ~undefined /\ ping # 0
  /\ ppc' = "publish" /\ ping' = 0
  /\ UNCHANGED <<cube, stopsignal, signalno, directionno, update, pong, due,
                 beeping, control, budgets>>

\* if(ping)
PingTest ==
  /\ ppc = "test" /\ ~undefined /\ ping # 0
  /\ ppc' = "publish"
  /\ UNCHANGED <<attachedVars, update, pong, due, beeping, control, budgets>>

\* publish_u8("pong", ping): ping is loaded again.
PingPublish ==
  /\ ppc = "publish" /\ ~undefined
  /\ pong' = ping /\ due' = 0
  /\ ppc' = "reset"
  /\ UNCHANGED <<attachedVars, update, beeping, control, budgets>>

\* ping = 0
PingReset ==
  /\ ppc = "reset" /\ ~undefined
  /\ ping' = 0
  /\ ppc' = "test"
  /\ UNCHANGED <<cube, stopsignal, signalno, directionno, update, pong, due,
                 beeping, control, budgets>>

PingTask == PingTest \/ PingPublish \/ PingReset

\* The three seconds before the loop; notifications stay pending.
BeepBoot ==
  /\ bpc = "boot" /\ ~undefined /\ bpc' = "loop"
  /\ UNCHANGED <<attachedVars, update, pinging, notified, note, lastNote,
                 numtobeep, heard, control, budgets>>

\* A loop that beeps once too often.
BeepMutant ==
  /\ bpc = "loop" /\ ~undefined /\ numtobeep >= 0
  /\ numtobeep' = numtobeep - 1 /\ heard' = heard + 1
  /\ UNCHANGED <<attachedVars, update, pinging, notified, note, lastNote, bpc,
                 control, budgets>>

Beep ==
  /\ bpc = "loop" /\ ~undefined /\ numtobeep > 0
  /\ numtobeep' = numtobeep - 1 /\ heard' = heard + 1
  /\ UNCHANGED <<attachedVars, update, pinging, notified, note, lastNote, bpc,
                 control, budgets>>

\* xTaskNotifyWait(0xFFFFFFFF, 0, &numtobeep, portMAX_DELAY): a pending value
\* is not cleared on entry.
BeepWait ==
  /\ bpc = "loop" /\ ~undefined /\ numtobeep = 0 /\ notified
  /\ numtobeep' = note /\ notified' = FALSE /\ heard' = 0
  /\ UNCHANGED <<attachedVars, update, pinging, note, lastNote, bpc, control,
                 budgets>>

BeepTask == BeepBoot \/ Beep \/ BeepWait

-----------------------------------------------------------------------------
(* btParse, and the missions.                                              *)

BtCommand ==
  /\ btLeft > 0 /\ btAlive /\ ~undefined
  /\ btLeft' = btLeft - 1
  /\ UNCHANGED <<attachedVars, update, pinging, teleLeft>>

\* A start that stores its handle where another mission's belongs.
BtStartMutant(m) ==
  /\ BtCommand
  /\ asked' = [asked EXCEPT ![m] = @ + 1]
  /\ \/ Free = {} /\ UNCHANGED <<task, handle, fresh>>
     \/ \E b \in Free :
          /\ task' = [task EXCEPT ![b] = m]
          /\ handle' = [handle EXCEPT !["crane_task"] = b]
          /\ fresh' = [fresh EXCEPT ![m] = TRUE]
  /\ UNCHANGED <<beeping, btAlive, undefined>>

\* "cube start", "unload start", "stop start"
BtStart(m) ==
  /\ BtCommand
  /\ asked' = [asked EXCEPT ![m] = @ + 1]
  /\ \/ Free = {} /\ UNCHANGED <<task, handle, fresh>>
     \/ \E b \in Free :
          /\ task' = [task EXCEPT ![b] = m]
          /\ handle' = [handle EXCEPT ![m] = b]
          /\ fresh' = [fresh EXCEPT ![m] = TRUE]
  /\ UNCHANGED <<beeping, btAlive, undefined>>

\* The task in block b is gone.
Ends(b) ==
  /\ task' = [task EXCEPT ![b] = "free"]
  /\ fresh' = [m \in Missions |-> fresh[m] /\ handle[m] # b]

\* "cube stop", "unload stop", "stop stop": vTaskDelete(handle), which with
\* NULL deletes the caller.
BtStop(m) ==
  /\ BtCommand
  /\ \/ /\ handle[m] \in Blocks \ Free /\ Ends(handle[m])
        /\ UNCHANGED <<btAlive, undefined>>
     \/ /\ handle[m] = Null /\ btAlive' = FALSE
        /\ UNCHANGED <<task, fresh, undefined>>
     \/ /\ handle[m] \in Free \cup {Stray} /\ undefined' = TRUE
        /\ UNCHANGED <<task, fresh, btAlive>>
  /\ UNCHANGED <<beeping, handle, asked>>

\* "Hello" and "beep n"; n may be 0.
BtBeep(v) ==
  /\ BtCommand /\ Notify(v)
  /\ UNCHANGED control

\* unload_task is through; the other missions report for ever.
MissionEnds(b) ==
  /\ task[b] = "unload_task" /\ ~undefined
  /\ Ends(b)
  /\ UNCHANGED <<attachedVars, update, pinging, beeping, handle, btAlive,
                 undefined, asked, budgets>>

Next ==
  \/ Receive \/ TeleUpdate \/ PingTask \/ BeepTask
  \/ \E m \in Missions : BtStart(m) \/ BtStop(m)
  \/ \E v \in Signals \cup {0} : BtBeep(v)
  \/ \E b \in Blocks : MissionEnds(b)

\* The three tasks sleep in every turn of their loops and always come round.
Spec ==
  /\ Init /\ [][Next]_vars
  /\ WF_vars(TeleUpdate) /\ WF_vars(PingTask) /\ WF_vars(BeepTask)

-----------------------------------------------------------------------------
\* The types; and a handle that is no task control block was never assigned.
TypeOK ==
  /\ cube \in {0, 1} /\ stopsignal \in Signals \cup {0}
  /\ signalno \in Signals \cup {0} /\ ping \in Signals \cup {0}
  /\ directionno \in 0..2
  /\ upc \in {"update", "cube", "stop", "signal", "direction"}
  /\ blockFlag \in BOOLEAN /\ stopFlag \in BOOLEAN
  /\ ppc \in {"test", "publish", "reset"} /\ pong \in Signals \cup {0}
  /\ notified \in BOOLEAN /\ note \in Nat /\ lastNote \in Nat
  /\ bpc \in {"boot", "loop"} /\ numtobeep \in Nat /\ heard \in Nat
  /\ task \in [Blocks -> Missions \cup {"free"}]
  /\ handle \in [Missions -> Blocks \cup {Null, Stray}]
  /\ btAlive \in BOOLEAN /\ undefined \in BOOLEAN
  /\ teleLeft \in 0..TeleBudget /\ btLeft \in 0..BtBudget
  /\ fresh \in [Missions -> BOOLEAN] /\ asked \in [Missions -> Nat]
  /\ due \in Signals \cup {0}

(* As long as the task last started by Bluetooth runs, its "stop" deletes  *)
(* that task and no other, although control blocks are used again and two  *)
(* missions of a kind can run.                                             *)
FreshHandle ==
  \A m \in Missions : fresh[m] =>
    /\ handle[m] \in Blocks /\ task[handle[m]] = m
    /\ \A k \in Missions : fresh[k] /\ handle[k] = handle[m] => k = m

(* cube and stopsignal stay set for ever, but no more missions run than    *)
(* were asked for: telemetry starts one of each kind.                      *)
StartsAsAsked ==
  \A m \in Missions : Cardinality({b \in Blocks : task[b] = m}) <= asked[m]

(* Notifications overwrite each other, but the last one is always beeped   *)
(* to its end, also when it came before beepTask ran.                      *)
LastNoteHeard == <>[](undefined \/ heard = lastNote)

(* Whatever happens to ping behind its back, pingTask answers a value that *)
(* was sent, never the zero it stores itself.                              *)
PongIsPing == ppc = "reset" => pong \in Signals

(* A ping is answered, unless it comes in the moment between the answer to *)
(* the one before and the reset of the variable.                           *)
PingAnswered == (due # 0) ~> (due = 0 \/ undefined)
=============================================================================
