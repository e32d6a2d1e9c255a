# A verification of the train firmware

The repository is the firmware of a self-driving model train (ESP32, FreeRTOS,
two cores): it drives up to a cube, picks it up with a crane and a winch,
drives on and stops at a signal. A Raspberry Pi talks to it over a framed
serial link ("telemetry"), a phone over Bluetooth. Tasks share plain C globals
and pins; the firmware has no mutex. That is where this project looks: what
can other tasks, the second core, a full buffer or a lost byte do between two
statements, and what still holds then.

Files: `X.tla` models a component, `XProofs.tla` proves theorems about it,
`MCX.tla` and `MCX_<run>.cfg` instantiate it for TLC. `PROJECT.json` maps every
definition to the lines it models. Paths below are relative to the repository.

## 1. Inventory

| Component | State | Operations | Talks to |
|---|---|---|---|
| Winch (`src/tasks.c` 157-189) | `winch_steps`, pins `P_WINCH`, `P_WINCHDIR` | `winchTask` counts the counter to zero and pulses the stepper | missions and Bluetooth write `winch_steps`; missions wait for 0 |
| Missions (`src/cyrill_test.c`) | locals, orders already given | `crane_task`, `unload_task`, `stop_task` | winch, motor controller, crane servo, distance sensors, telemetry |
| Motor controller (`src/motController.c`) | `targetRPM`, `accel`, `controlEnable`, `motdir`, `*pid`, two direction pins, PWM duty | the PI loop `motCntrlTask`; `setRPM`, `setAccel`, `setMotDir`, `enable/disableMotorControl`; `senseISR` | called by missions, Bluetooth, telemetry ("motorrpm" is stored straight into `targetRPM`) |
| Framing (`lib/telemetry/src/framing.c`) | outgoing and incoming buffer with cursors, receive state | `begin_frame`, `append*`, `end_frame`, `feed` | telemetry core |
| Telemetry core and dictionary (`telemetry_core.c`, `dictionnary.c`, `crc16.c`) | hash table topic -> typed pointers | `attach_*`, `publish_*`, `update_telemetry`, `on_incoming_frame` | framing, serial port; writes the attached variables |
| Telemetry tasks (`src/tasks.c`) | `cube`, `stopsignal`, `signalno`, `directionno`, `ping`, latches | `teleUpdateTask`, `pingTask`, `helloSender` | start missions, set directions, notify `beepTask` |
| Bluetooth (`src/bluetooth.c`, `bluetooth_parse.c`) | task handles | `btParse` in the SPP callback | everything |
| Beeper (`src/tasks.c`) | notification value | `beepTask` | notified by Bluetooth and telemetry |
| Crane servo (`src/crane.c`, `servo.c`) | `current_crane_position` | `crane_init`, `crane_set_position` | called by missions |
| Distance sensors (`src/tof.c`, `uart_arduino.c`) | UART 1, buffer `data` | request/reply with retries, averages | called by missions |
| Speed measurement (`senseISR`, `wrpTimer.c`) | `period`, `oldtime`, `intrig`, hardware timer | interrupt per step, timeout in the loop, `timerInit` | motor controller |
| Start-up (`src/main.c`) | handles | `app_main` | starts the tasks |
| Unused: `i2c_driver.c`, `imu.c`, `ledt.c`, `stepDrv.c`, `mcpwm_servo_control_example.c`, `crane_task_accurate`, most of `mcp.c` | | | |

What is hard: `x--` and `x += k` on a counter two cores write; a flag tested
and used later; two pins written one after the other by two tasks; a frame
built in a buffer every publisher shares; framing that has to come back in
step after a lost byte; missions that can be started twice, or deleted while
the winch runs; late replies of the sensors; memory that is never initialised.
`PROJECT.json` lists each of these at its line, with the properties that cover
it or the reason why none does.

What makes each component correct, in one sentence each:

* Winch: the crane moves only while the winch stands; a mission always ends;
  the stepper ends where it was told to, or how far off.
* Motor controller: off means not driven; a target of zero does not drive and
  brings the motor to rest; the pins end up in the direction asked for; the
  ramp arrives.
* Framing: a queue of frames on a perfect line; on a bad line a bounded loss;
  never a truncated frame.
* Telemetry core: an attached variable takes only values some sender published
  for its topic and type.
* Task commands: a mission runs at most once per request, and can be stopped.
* Crane: a movement ends where it was asked to end, and none is a jump.
* Sensors: a distance is an answer to the request that was made, if there is one.
* Approach: it ends, at the cube or because the sensor failed, and not behind it.


## 2. Modules and their composition

| Module | Models | Composes / uses | Proofs |
|---|---|---|---|
| `Winch` | `winchTask`, the orders of `crane_task` and `unload_task`, the Bluetooth winch commands, over one unprotected counter | | `WinchProofs` |
| `WinchTravel` | `Winch` and the stepper behind its pins | `Winch` | `WinchProofs` |
| `Crane` | the crane movements of the missions, degree by degree, between their winch orders | `WinchTravel` | `WinchProofs` |
| `MotorControl` | `motCntrlTask` and the five functions other tasks call | | `MotorControlProofs` |
| `StopDrive` | `stop_task` creeping to the signal, on the controller | `MotorControl`, `Averages` | `StopDriveProofs` |
| `Averages` | `tof_get_average_distance` | | |
| `Sensors` | requests to the Arduino, its answers, reads and retries | `Averages` | |
| `SpeedSense` | `senseISR`, the loop's timeout, the start of the timer | | |
| `Approach` | `app_main`, and `crane_task` from its start to its first order | `Sensors`, `SpeedSense` | `ApproachProofs` |
| `FrameLink` | abstract: a queue of frames | | |
| `Framing` | one sender, the byte line, the receiver | implements `FrameLink` | `FramingProofs` |
| `Publish` | several tasks sending through the one outgoing buffer | | `PublishProofs` |
| `Crc16` | the check sum, bit by bit | | `TelemetryCoreProofs` |
| `Dictionary` | `install` and `lookup` on the hash table | | `TelemetryCoreProofs` |
| `TelemetryCore` | attach, `on_incoming_frame`, the update of attached variables | `Dictionary`, `Crc16` | `TelemetryCoreProofs` |
| `Commands` | what telemetry and Bluetooth start, stop, notify and ping | | `CommandsProofs` |

Common conventions. A step is what no other task can come between: one load
or one store of a variable several tasks use; statements on locals are joined
to the step before. Where the compiled code may keep a loaded value in a
register or load it again, both are possible (`WReload`, `Advance`). A call
into the SDK that writes one pin, one duty or one UART buffer is one step.
Names are the source's; a definition `FooMutant` above `Foo` is `Foo` with a
plausible bug, and every property listed in `PROJECT.json` is broken by one of
them.

### Winch, WinchTravel

`winch_steps--` and `winch_steps += X` are a load (`WTestPositive`,
`WReload`, `MLoad`) and a store (`WDecrement`, `MStore`). `wpc` follows the
loop of `winchTask` through `tasks.c` 171-186; a mission alternates between
moving the crane (`"crane"`), its order and its wait (`MWait`). `seg` counts
orders, the plans are the five orders of each mission. `BtWinch` is one store.
`WinchTravel` adds a position that moves on every rising edge.

* `CraneOnlyWhenWinchStill`: the wait loops keep crane and winch apart although
  `winchTask` counts before it pulses. One mission, no Bluetooth winch command:
  a command gives the counter a new value while the mission moves the crane, and
  the code does nothing about it.
* `DriftBounded`: the stepper is at most two steps per order from where it was
  told to go. The exact arithmetic is worth knowing: the turn that counts to
  zero does not pulse (178), so an order of *n* steps makes *n*-1 pulses, and an
  order stored between 174 and 178 makes one pulse without counting, in the
  direction of the order before.
* `MissionsComplete`: with two missions and Bluetooth overwriting each other's
  stores, every mission still ends and the winch comes to rest.

### Crane

`angle` is what `servo_set_angle` got last, `current_crane_position` the static
variable of `crane.c`. A mission's `todo` are the positions it sets before its next
order, `sweep` the loop variable of `crane_set_position`; `WinchStep` is a step of
`WinchTravel` in which a mission orders only when `todo` is empty. `winchTask` goes
on in between, so `CraneOnlyWhenWinchStill` now says that the winch stands at every
single degree. `After` says which mission is started after which.

* `ServoFollows`: when `crane_set_position` returns, the servo is where it was asked
  to be, to a degree. It holds for a mission after a reset.
* `Smooth`: the loops end a degree short and start with the recorded position, so
  the error is made good by the next call and nothing jumps.
* Finding `crane_relock`: `current_crane_position` outlives a mission, `crane_init`
  does not touch it. After `crane_task`, which leaves 162, `unload_task` turns the
  servo to 142 and then asks for 162 in vain: it lowers the payload with the crane
  unlocked. The same happens to a `crane_task` started after an `unload_task`
  that was deleted at 50: the crane is not extended.

### MotorControl, StopDrive

`lpc` follows an iteration of `motCntrlTask`; the comparison (142), the ramp
(145), the gate (164), each pin and the duty (188) are steps. `SetMotDir`,
`DisableMotorControl` return in further steps (`DirPin1`, `DirPin2`,
`DutyOff`). Gains are whole numbers in one unit with the duty; the speed is
any number in `Rpms`: `M_TIMEOUT` makes a standing motor read as 22 RPM, but before
the timer runs the initial period reads as 0. `pid->targetRPM` starts as anything. The integral
is limited above by the code; below, `-IFloor` stands for itself and everything
below it, and a rise from there may or may not be seen.

* `AtMostOneLateDuty`, `OffUnlessLate`: `disableMotorControl` can be overtaken
  by one iteration of the loop, by no more, and otherwise off is off. The
  overtaken case exists: "Motor control disabled" (`bluetooth_parse.c` 112) is
  reported, and the stale duty stays until control is switched on again.
* `ZeroTargetNoDrive`, `ZeroTargetEventuallyStops`: with a target of zero the
  loop does not drive, except when the target was stored between 142 and 145,
  when the integral is not reset; even then it unwinds and the motor stops, if the speed is
  above the target again and again (a motor measured at 0 RPM does not unwind it).
* `RampArrives` from any garbage, unless "motor accel 0" was asked for.
* `DirectionConverges`: two tasks that set opposite directions interleave their
  pin writes; while control is on the loop puts the pins right.
* `StopsInFront`, `CreepArrives`, `RestAfterStop`: the creep ends in front of
  the signal, near enough if every reading succeeded, ends also when
  readings fail, and neither an iteration in flight nor the old integral
  nor the last pulse moves the train afterwards. A measurement is the average of
  three readings, each the distance or -1 (`Average`): with one failed the signal
  looks a third nearer, with two, two thirds.
* `CreepArrives` starts from pins that are forward, because they need not be: an
  iteration of the loop between `setMotDir(FORWARD)` (217) and
  `disableMotorControl` (225) can brake them, nothing turns them forward again,
  and then the pulses of 230 do not move the train.

### Averages, Sensors, SpeedSense, Approach

`Sensors` is the traffic with the Arduino. `asked` are requests it has not dealt
with, `replies` what the driver has received; `Answer` and `Lose` are the Arduino's,
at any time, so an answer may come after its read, or never. A read takes all
there is and `Number` is what the parser makes of it: the last number. The
`new` of an answer says that it belongs to the latest request; the code cannot see it.
`AfterRead` is the loop of `tof_get_distance` with its counter tested after the read.
The UART and `data` are also `app_main`'s (`Write("init")`, `ReadAll`): its answer
is no number, the parser runs past it, and `Garbage` stands for any number.

`SpeedSense` keeps a period by its kind: the ten seconds of the start, zero
(two readings of a clock that stands), measured, or the timeout's. That 64 bits are
stored in two halves does not matter: the upper one decides, and a mixture
differs by less than a millionth.

`Approach` composes them: `bpc` follows `app_main` through `init_cyrill`,
`uart_arduino_init`, `bt_start` and the tasks it starts last, `mpc` follows
`crane_task`, which telemetry can start (`Launch`) from the beginning on. `Turn` is an iteration
of the controller, seen from far: a target of zero or an infinite speed does not
drive, a standing train is driven, a measured speed may or may not be fast enough.
The train moves in steps, a step being its way in a measurement or in a longer time. `left`
bounds them: one in each measurement, `DriveOn` more in the 200 ms for which `crane_task` lets
it drive on after it has seen the cube (`cyrill_test.c` 142), and `Braking` more from
`setRPM(0)` until it stands, counted from the last turn in which the controller still drives.
`BRestart` is `ESP_ERROR_CHECK` in `bt_start`; the train stays where it is and the
Arduino goes on.

* `TakesOwnAnswer`: if the answer to a request is there when it is read, the
  task gets that one, whatever late ones lie before it. The last of the 21
  reads is an exception: its answer is thrown away.
* `StopsForCause`: late answers, lost ones, restarts and `app_main` in between do not make
  `crane_task` stop too early; only a sensor that stays silent (-1) or an answer that
  is no number does.
* `NotPassed`: the train stands before the end of sight, driving on and braking included,
  unless a read brought no number or a restart interrupted the mission on the way. It holds
  for a cube in sight for more than two steps plus `DriveOn` plus `Braking`; with one step
  less TLC finds the cube passed.
* `ApproachEnds`: the approach ends, at the latest when the Arduino falls silent. Excepted
  are a cube that was passed, and a mission that set off before the timer ran while its sensor
  goes on answering: a pulse then makes the period zero, the speed infinite, and the train is
  braked for as long as the target stays.

### FrameLink, Framing, Publish

In `Framing` a buffer is the sequence below its cursor, a byte a flag or an
ordinary one, and a frame on the line carries its number so that properties can
speak of it. `AppendByte` is `append`, with the escape that may be stored
without the byte behind it when the buffer is full; the six `Feed...` actions
are the branches of `feed`; `Lose` is the line. `LinkSpec` is the refinement:
frames sent and not yet delivered are the queue.

* `LinkSpec`: on a line without losses every frame sent is delivered once,
  whole, in order, and eventually; flags and escapes in a payload come out as
  they went in.
* `TruncatedNeverSent`: `safe_append` refuses bytes without a word, but a frame
  that lacks one never gets its end.
* `OneLossOneFrame`: a single lost byte, also a flag, an escape or the byte
  behind one, costs the frame it belonged to and no other.
* `IntactAfterIntact`: after any losses the first undamaged frame brings the
  receiver back into step; it may itself be spoilt.

`Publish` looks at the same buffer from several tasks. A byte is its publisher
and its position, so a property can say whose bytes were sent; escapes make a
frame longer and nothing else, and are counted in `Length`.

* `OverrunBounded`: the room is tested before the cursor is advanced; *n* tasks
  can write *n*-2 places behind the buffer and no further. The firmware has four
  publishing tasks (`pingTask`, `teleUpdateTask`, `crane_task`, `stop_task`).
* `AloneIntact`: a publish no other overlaps sends its frame or nothing,
  whatever earlier overlaps left behind.
* Finding `publish_own`: two that overlap do send frames that are not their own.

### Crc16, Dictionary, TelemetryCore

`Crc16` computes on integers with the width of `uint16_t`. Its loop shifts
seven times per byte where a CRC-16 shifts eight times; bit 0 of a byte and
bit 7 of the next therefore meet in the same bit of the remainder, and an error
in both may go unnoticed. A single wrong byte is always found (proved). Both ends use
the same code, so frames still check.

In `Dictionary` every access of `install` and `lookup` to a chain is a step, memory is a
small set of nodes with garbage in `next`, and `malloc` may fail. In
`TelemetryCore` the bytes of a frame are real; the line inverts a bit, loses a byte, or makes a
flag of one, and then a part of the frame is handed over; what `on_incoming_frame` makes of each damaged frame is computed
(`Arrivals`).

* `ChainsSound`: at every step of any `install`, a lookup that starts now
  terminates and meets only complete entries of its own chain, one per key.
* `AttachedIsFound`: a message is not dropped because another task is linking
  an entry.
* `OnlyPublished`: an attached variable holds a value that was published for
  its topic and type, whatever the line did.

### Commands

`task[b]` says what runs in a task control block, `handle` what the globals of
`taskhandles.h` point to. `Receive` stores what `update_telemetry` brings,
the actions after it are the `if`s of `teleUpdateTask` in their order. `BtStart`
and `BtStop` are `xTaskCreate` and `vTaskDelete` of `btParse`; a task that is
gone frees its block, which the next task may get. `BtStop` with NULL
deletes the caller (`btAlive`); with an address that is no task's it is
undefined, and behaviours stop there. Both can be reached before anything was
started: `unloadHandle` is NULL, and `app_main` points `cubeHandle` and
`stopHandle` to fresh memory.

* `FreshHandle`: as long as the task Bluetooth started last runs, "stop" deletes
  that one.
* `StartsAsAsked`: `cube` and `stopsignal` stay set for ever, still telemetry
  starts one mission of each kind.
* `LastNoteHeard`: beep requests overwrite each other, the last one is always
  beeped, also if it came before `beepTask` had started to wait.
* `PongIsPing`, `PingAnswered`: `ping` is read twice and then zeroed without a
  lock; the answer is still a value that was sent, and a ping is answered
  unless it arrives between the answer to the last one (228) and the reset
  (229), where the code erases it.

## 3. Runs

| Run | Configuration | Distinct states | Question |
|---|---|---|---|
| `winch_alone` | one `unload_task`, orders 13, 70, 52, 83 steps, all angles | 15 416 | are crane and winch kept apart, how far are stepper and servo off |
| `crane_relock` (violated) | `unload_task` after `crane_task` | | does the servo follow |
| `poweron` | two retries, one request at a time, a cube in sight for five of six steps | 959 996 | where and why does the approach end |
| `winch_shared` | two missions, one Bluetooth command, orders of 1-3 steps | 690 554 | does everything still end |
| `motor_clients` | two tasks, three calls, all functions | 436 040 | target, pins and duty behind each other's backs |
| `stop_white` | `stop_task` after up to two calls of Bluetooth, every pattern of failed readings | 247 958 | does the creep arrive and rest |
| `framing_lossless` | 3 frames of 5 kinds, one too long | 1 328 | is framing a queue |
| `framing_loss` | 4 frames of 4 kinds, 4 losses, small receiver | 2 600 479 | what does a loss cost |
| `publish_three` | three tasks, one frame each, buffer of 5 | 591 599 | how far can they overrun, is a lone publish sound |
| `publish_own` (violated) | two tasks | | is a frame sent its publisher's |
| `telemetry_attach` | two tasks, four attach calls, one chain, three nodes, six messages, every inverted bit, lost byte and part of a frame | 476 786 | table and variables |
| `commands_mixed` | two control blocks, two messages, two Bluetooth commands | 185 185 | starts, handles, beeps, pings |

Bounds, all in the guards or the `.cfg`:

* `StepsMax`, `StepsPart`, `StepsPart2` are 1:50 of the source's in
  `winch_alone`; what happens at the ends of an order does not depend on its
  length (and is proved for every length). In `winch_shared` they keep their
  order only; one step is enough for every race, because the races are about
  the last step and the sign.
* `BtBudget`, `TeleBudget`, `CallBudget`: a race needs one command, or two, on
  top of what the tasks do by themselves. Three calls on the controller are
  disable, set and enable again by two tasks in every order. The liveness
  properties say what happens after the last of them.
* `Kp`, `Ki`, `MaxPwm`, `IMax`, `Rpms`, `Targets` are small but such that the
  sum of the PI terms is negative, inside and above the limit, and that the integral
  winds up past the point where the error alone would brake.
* `OutSize`, `InSize`, `LossBudget`: buffers smaller than the longest frame, so
  that both overflow; four losses in four frames are several in one frame, and
  one in each.
* `Blocks`: with two, blocks are used again, and `xTaskCreate` fails. `Nodes`:
  one per topic, `malloc` may fail earlier.
* `Buckets`: one chain, all keys collide. `turns` counts the iterations during a
  delay of `stop_task` up to two; the delays last 20 and more.

* `Retries` is 2 for 20: a read that is first, one between and the last. `Owed`: a
  second request waits until the Arduino has dealt with the first; an answer
  can still be late, and two can be read together. `Distances`: nothing, the cube,
  something behind it. A step is the way in 200 ms: the train
  makes at most one in a measurement of 65 ms, and one while it is let drive on (`DriveOn`
  = 1). `Braking` is 1 too, and `Window` = 5 the least that `ApproachAssumption` allows.
  `Starts` is one more: the first measurement may be before the cube, at its edge or at any
  place behind. With shorter steps the same holds for more of them; the theorem is for every
  number. Angles and distances of
  `stop_task` are the source's. A pulse moves the train by `Unit` = 38 mm or by 76:
  about as far as `STOP_DISTANCE_WHITE` allows, since an average of less than `Blur` = 4 mm
  with failed readings in it is rounded to zero, which reads as nothing in sight.

`CHECK_DEADLOCK FALSE` is in every configuration: budgets run out, and the
missions and calls end.

Fairness. `winchTask`, the missions, `motCntrlTask`, `teleUpdateTask`,
`pingTask` and `beepTask` are endless loops that give up the processor in
every turn and have a higher priority than the idle task, so each is weakly fair; a
call that was begun is finished (weak fairness of the return steps). Feeding
is fair because `teleUpdateTask` polls the UART in every turn. In `Approach` time
passes (`Time`), a driven train moves (`drive /\ Move`), and the Arduino gets round to every
request, if only to lose it. `crane_task` is strongly fair there, because its request waits for
room under `Owed`, a bound of the model which `app_main`'s requests could use up again and
again; in the code nothing makes it wait. `app_main` and the start of the timer are not fair:
the approach ends whether they go on or not. Nothing else is fair
that the world decides: nobody has to answer, call, send, publish or lose a byte.

## 4. Proofs

Proved with TLAPS, for every value of the constants that satisfies the
assumption in the module:

* `WinchProofs`. `TypeCorrect`, for any number of missions.
  `CraneWaitsForWinch`: for one mission. The invariant alone is not inductive;
  `StillInv` adds that the register of `winchTask` holds zero or the counter's
  value where it is used, that a pulse under way means steps pending,
  and that the counter is zero outside the wait. `DriftIsBounded`: the bound is inductive
  only together with what may still go wrong in the current order, so
  `DriftInv` is |drift| + pending <= 2 per order, with one each for a counter
  that is not zero, a step that may be lost and a pulse that may be added.
* `MotorControlProofs`. `MotorTypeCorrect`; `OneLateDuty` by `LateInv` (after
  the late write the loop is behind its outputs, and the next
  iteration stops at the gate); `OffIsOff`; `ZeroTargetIsNotDriven` by
  `WindInv` (with a target of at most zero and no unseen change the integral is not
  positive, and between test and write the error is at most the target, since
  speeds are not negative). Any gains, any number of callers.
* `FramingProofs`. `FramingTypeCorrect`: cursors stay below the sizes.
  `NoTruncatedFrame` by `RefusedMeansFull`: once a byte was refused there
  is no room until the next `begin_frame`. `OneLossCostsOneFrame` and
  `IntactFrameResyncs` by `FramingInv`, which is about the whole line: what is on it is
  the rest of the frames sent, and every byte has its place in one of them (`Coded`).
  Within an undamaged frame the receiver is escaping only before an escaped byte
  (`InPhase`); so it is not where a frame begins, if the frame before was undamaged or
  no more than one byte was lost (`AtStart`), its buffer then holds what has come of the
  frame (`InStep`), and the earlier frames were handed over (`PastInv`).
  `FramingRefinesLink`: without losses, with an outgoing buffer at most two bytes
  longer than the incoming one (both are 128, `telemetry_core.h` 8), every step is a step of
  `FrameLink` or leaves it alone; the last byte of a frame is the delivery.
* `PublishProofs`. `OverrunIsBounded` by `RoomInv`: the cursor plus the number
  of tasks between their test and their advance is at most size - 2 + tasks.
  `TwoStayInBounds` follows. `LonePublishIntact` by `AloneInv`: as
  long as a publish is alone, the others are idle, the bytes it has appended stand at
  the start of the buffer, and the cursor behind them, unless the buffer is full.
* `CommandsProofs`. `CommandsTypeCorrect`, `HandlesAreFresh`, `PongIsSent` (a
  ping is held from the test to the reset), `StartsAreAsked` by `StartInv`:
  tasks that run plus the start `teleUpdateTask` still owes are at most the
  starts asked for; setting the latch pays the debt in the step that makes the task.

* `WinchProofs`, the crane. `CraneRefinesTravel`: every behaviour of `Crane` is one of
  `WinchTravel`. `CraneTurnsSmoothly` and `CraneIsFollowed` by `CraneInv`: for one
  mission, the servo is within a degree of the recorded position while the crane
  stands and of the loop variable while it turns. With a second mission it is not
  inductive, and `crane_relock` shows why.
* `ApproachProofs`. `ApproachTypeCorrect`. `OwnAnswerIsTaken` by `FreshIsLast`: an
  answer to the latest request is the last of the queue. `StopsOnlyForCause` by
  `CauseInv`: an answer under way that looks near was given with the cube in
  sight, and the train never goes back. `CubeIsNotPassed` by `PassInv`: as
  long as nothing was missed there is one question on the UART at a time
  (`OneQuestion`), and where the train can get before the next answer counts is
  bounded at every point of a measurement (`ReachOK`): the cube may come into sight just
  after a measurement, and is seen by the next, two steps later at most; `DriveOn` and
  `Braking` steps follow. The sum is less than `Window`, which `ApproachAssumption` demands.
* `StopDriveProofs`. `StopTypeCorrect`; `RestsAfterStop` by `DriveInv` and
  `DutyInv`: after `disableMotorControl` and the wait (226) no iteration has a duty
  left to write, and the integral is not positive (`QuietInv`, on `WindInv` of the
  controller). `StopsInFrontOfSignal` by `WayInv`: before every pulse the train is
  more than a pulse and `Blur` away. The bounds on `Unit` and `Pulse` are
  what that needs; with less, TLC finds the train behind the signal.
* `TelemetryCoreProofs`. `LookupEndsAndIsUnique` and `LookupFindsAttached` by `TableSafe`:
  there is a ranking of the nodes that rises along every chain, also between two steps of
  `install`, so a chain is no longer than there are nodes (by the pigeonhole
  principle), and the only writer adds only in front; a lookup under way has its key
  still before it. `WrongByteIsRejected`: mixing a byte into a remainder is injective
  in the byte and in the remainder, so is the recursion on every byte that follows,
  and two frames that differ in one byte have different remainders, or differ in
  the stored one only. From it `StoresOnlyPublished` by `CoreSafe`: a frame that is
  accepted is one that was published. Induction, which the provers cannot
  apply to a formula, is stated for sets (`Induction`, from the well-foundedness of the
  natural numbers); the recursive functions of `Crc16` are built from it (`Iteration`).

Assumptions are the named `ASSUME`s of the modules, which TLC evaluates in a run, and
what a theorem says itself: one mission and no Bluetooth command for winch and crane;
`StopSignal` 1 or 2 (with another value `stop_distance` stays zero) for the signal;
`TwoTasks` for the table, as in the source (`tasks.c` 32 and 55: two installs at once
would lose an entry); `LosslessAssumption` for `FrameLink`, no byte lost and the buffers as
above; `LossesDetected` for the variables. The last one says that no
part of a frame, what lacks one byte or what comes before or behind a false flag, is taken for
a message. For a wrong byte that is a theorem; for a missing one it depends on the messages,
and `MCTelemetryCore` has TLC check both for its own.

Only model-checked: the liveness properties (`MissionsComplete`, `RampArrives`,
`DirectionConverges`, `ZeroTargetEventuallyStops`, `CreepArrives`, `ApproachEnds`,
`LastNoteHeard`, `PingAnswered`, and that the queue of `FrameLink` empties), which need
fairness.

## 5. What the models leave out

* Formatting, printing and pin configuration. `uart_write_bytes` is one step,
  the driver behind it is the line. The publish of "distanceMM" every hundred
  turns is one more publisher.
* `MotorControl` takes any speed that is not negative; what is measured is in `SpeedSense`, and
  `Approach` has the controller in whole turns only. Floats are whole numbers.
* The distance counter `intrig` of `senseISR`, which only a published number shows.
* The measurement for the report at the end of `crane_task`.
  `crane_task_accurate`, `subscribe`, `match`, the `update_*` helpers and the
  IMU code are called by nothing.
* `Sensors`: one task measures. `crane_task` and `stop_task` at once would take each
  other's answers, also those of the other sensor. An answer that is cut in two
  by a read, and one of four or more digits, which the parser has no room for
  (`uart_arduino.c` 41-57), are not modelled. `CDepart` waits until a period of zero is gone if
  the timer runs: 1.5 seconds lie between the start of `crane_task` and `setRPM(300)`, and
  the timeout is 50 ms.
* `Approach` takes the delays of `crane_task` for exact: a task of higher priority that
  held it up for longer would let the train make more steps. It also takes
  the controller to hold its target to within the margin between a measurement and a step.
* `Crane`: `CRANE_SPEED_FAST` and `CRANE_SPEED_SLOW` differ in delays only.
* `StopDrive` assumes nobody else uses the controller while `stop_task` runs,
  and a signal farther away than `STOP_DISTANCE_FAR` when the creep begins.
  A nearer one can be passed before the first measurement, and then zero is read
  for ever. With a value of `stopsignal` other than 1 and 2, or one that changes between the two
  `if`s that read it, `stop_distance` stays zero and only a failed
  measurement ends the creep.
* `TelemetryCore` relies on the delays of `helloSender` (one second) and
  `teleUpdateTask` (half a second): the former attaches after the latter is
  through. The hash is a constant function; payloads have the width of their type.
  Topics are shorter than the 64 bytes of `topicBuffer`, into which `strcpy` puts them without
  a test (`telemetry_core.c` 326); the longest of the firmware is far below that. A flag or an
  escape turned into an ordinary byte, which adds a byte or joins two frames, is not
  among the damages of `Damaged`. `OnlyPublished` rests on the check sum; a frame
  with an empty payload is refused (`PayloadSize`), but nobody publishes one.
* `Commands`: the peer sends no zeros to "stop", "signal" and "ping" (a
  zero sent to "ping" erases an earlier one). The winch, the motor and the crane of a
  deleted mission stay as they are; they are not in that module.
* What the tasks started before `init_cyrill` do in their own start-up: four seconds
  (`cyrill_test.c` 19) pass before `app_main` goes on. The order of `helloSender`
  and `teleUpdateTask` rests on delays of a second and of half a second.
* Bluetooth's stack and its events, the configuration of UARTs and PWM units.
* I2C driver and IMU: no started task uses them.

## 6. Findings

| Run | Source | What happens |
|---|---|---|
| `crane_relock` | `crane.c:10` | the servo is turned back behind the recorded position, and the call that locks the crane does nothing |
| `publish_own` | `telemetry_core.c:226` | two tasks publish at once, and a frame goes out that is neither's |

## 7. Plan

Done, in the order of importance: winch and missions, motor controller,
framing, publishing, stop drive, telemetry core, commands, sensors, speed
measurement, approach and start-up, crane. To come:

1. A mission deleted while winch, motor or crane are under way, and the next one
   started after it; two missions measuring at once.
2. The start-up of `motCntrlTask` and `teleUpdateTask`, and what may be called before
   they are through.

Every safety property that a passing run checks is stated by a theorem. To come: what
winch and crane still keep with several missions at once, beyond `TypeCorrect`, and the
telemetry path as a whole, from `publish` over `FrameLink` to an attached variable.
