# TLA+ models of the MSPM0G3507 line car

The program under `model/` drives a two-wheeled line-following car with six
FreeRTOS tasks on a TI MSPM0G3507. These modules model the parts of it that
decide what the car does - the drive path with its H-bridges and speed loop, the
encoders, the line sensors, the steering, the keys, the race configuration with
its panel and buzzer, and the route logic - and two parts of the car before it
(`STM32F103RCT6/provincial_firstprize/User/`), whose right-angle corners and IMU
transfers this one has not got. They are checked with TLC on small instances, and what
matters most about them is proved with TLAPS for every value of the
constants.

Source paths below are relative to `src/model/User/`, those of the earlier car
are marked *(STM32)* and relative to `src/STM32F103RCT6/provincial_firstprize/User/`.

## 1. The system

| Part | Source | State | Operations | Talks to |
|---|---|---|---|---|
| Chassis | `App/app_chassis.c`, `App/task/chassis_task.c` | speed targets, brake latch, control outputs, published snapshot | SetTargetSpeed/Velocity, Stop, Brake (control task); UpdateEncoder, SpeedControlRun every 10 ms (chassis task) | motors, encoders; called by control |
| Motors, bridges | `Module/module_motor.c`, `Bsp/bsp_tb6612.c` | speed, duty, two direction inputs and `current_mode` per bridge | SetSpeed, Coast, Brake, set_mode, set_duty | hardware; no lock |
| Encoders | `Bsp/bsp_encoder.c` | count, previous pins, last reported count | one GPIO interrupt for four lines, ReadDelta | chassis task |
| Keys | `Module/module_key.c`, `Bsp/bsp_key.c` | raw and stable level, two times, long-press flag | Key_Update every 1 ms | press counters of the race configuration |
| Race configuration | `App/app_race_config.c` | mode, laps, state (READY, RUNNING, STOPPED, FINISHED), press counters, dirty flag, prompt deadlines | RunOnce (race task, 10 ms), DisplayRunOnce (OLED task), SetFinished, SetLapProgress, NotifyPoint (control), KeyTimer1ms (key_scan) | control reads the snapshot and reports laps, points and the finish |
| Line sensor | `App/app_line_follow.c`, `Module/module_tracker.c`, `Bsp/bsp_line_sensor.c` | two older samples, last position | RunOnce every 5 ms: read, vote over three, position | control reads it twice in an iteration |
| Route | `App/task/control_task.c` | phase, confirmation counters, lap count, launch delay, distances | one iteration every 10 ms | chassis calls, reports |
| Steering | `App/task/control_task.c` | error filter, last error, turn | line loop, heading loop, pivots, recovery | forward speed and turn to the chassis |
| Buzzer, LED drivers | `Module/module_buzzer.c`, `Bsp/bsp_buzzer.c`, `Module/module_led.c`, `Bsp/bsp_led.c` | level | on/off, always together | race configuration |
| Panel driver | `Bsp/bsp_oled.c`, `Bsp/bsp_oled_soft_i2c.c` | frame buffer, pin assignment and address found | search, drawing, page transfer | OLED task |
| Speed loop | `Lib/lib_pid.c`, `Lib/lib_rate_filter.c` | integral, window, filtered speed | run, update | chassis task |
| Earlier car: corners | `App/task/control_task.c` *(STM32)* | corner, hint, counters, entry distance | one iteration every 10 ms | line, encoders, chassis |
| Earlier car: IMU | `App/app_icm45686.c`, `Module/module_icm45686.c`, `Bsp/bsp_icm45686.c` *(STM32)* | DMA flags, raw frame, chip select | process in the task; int1 and DMA interrupts | SPI, attitude filter |
| IMU stacks | `App/app_icm45686.c`, `App/app_mpu6050.c`, `Module/module_icm45686.c`, `Module/inv_imu_*.c`, `Module/MPU6050.c`, `Bsp/bsp_i2c.c`, `Lib/lib_attitude.c` ... | DMA flags, attitude | asynchronous reads, filters | nothing: no task that runs uses them |

Tasks and priorities (`App/app_freertos.c:68-80`): chassis 3 (10 ms), key_scan 3
(1 ms), line 2 (5 ms), control 2 (10 ms), race 1 (10 ms), oled 1. The scheduler
is preemptive with a 1 kHz tick. A higher task preempts a lower one between any
two of its writes and runs to its next delay; sections with PRIMASK set are
atomic; the encoder interrupt preempts every task. Everything the models say
about interleaving follows from that:

* control can be preempted inside a chassis call by the chassis task, never the
  other way round;
* race and oled can be preempted anywhere by control, so control may read a
  half-written configuration, and several race steps may happen between two
  iterations of control;
* to race and oled a whole iteration of control is one step.

What makes each part correct:

* chassis: a stop or brake that has returned holds against the speed loop, and
  no bridge is ever reversed under power;
* encoders: no edge lost or counted twice; every pulse reported once;
* speed loop: a wheel comes to its target under any load it can carry, and the
  past changes its effort within the authority of the integral only;
* line and steering: one disturbed sample is not believed, a moving line is not lost,
  and the turn on the line reverses no wheel;
* keys: presses and releases alternate and a press is never served twice nor
  forgotten;
* race configuration: lap counts fit the mode, a run starts at lap zero, the
  panel comes to show what is configured, and tones are whole and end;
* route: an arc ends only where it has been driven far enough and its end has
  been confirmed, every point is announced once, and a car that is not running
  stands;
* panel: it is found however it is wired, and pictures lie where they are put;
* earlier car: a corner is taken to the side of the branch last seen, and no frame is
  converted while the DMA writes it;
* all together: a finished race stays finished and shows its laps.

What is hard here is less the algorithms than the shared, unlocked records: a
brake written in four steps under a speed loop that rewrites the same bridges, a
race state read by one task and overwritten after another has finished the race,
counters that are to be cleared between arcs, laps, pauses and modes, and
deadlines compared with an old tick count. `PROJECT.json` lists them one by one
as hazards, with the line where each bites.

## 2. The modules

| Module | What it is |
|---|---|
| `Chassis` | the two tasks on the drive path, one register write at a time |
| `DriveGoal` | abstract: one goal (drive, coast, brake) licenses the modes of the bridges |
| `ChassisRefinement` | `Chassis` implements `DriveGoal` |
| `ChassisProofs` | proofs about `Chassis` and the safety part of the refinement |
| `Encoder` | shafts, interrupt handler, masked read |
| `SpeedLoop` | feed-forward and integer PID of a wheel |
| `WheelProofs` | proofs about `Encoder` and `SpeedLoop` |
| `Wheel` | `SpeedLoop` driving a motor with a load |
| `SpeedEstimate` | the windowed, filtered speed that is shown |
| `LineSensor` | the floor, the vote over three samples, position and error |
| `Steering` | the numbers the branches of the control task command |
| `LineProofs` | proofs about `LineSensor` and `Steering` |
| `SteadyLine` | `Steering` on a line that keeps its place |
| `Route` | one iteration of the control task per step |
| `Course` | abstract: a course is a fixed number of points, each announced once |
| `RouteAlone`, `RouteRefinement` | `Route` with an operator who presses one key between two iterations; it implements `Course` |
| `RouteProofs` | proofs about `RouteAlone`, with the refinement of `Course` |
| `DebouncedKey` | one key and its events |
| `RaceConfig` | key handlers of the race task, field by field, with reports of control |
| `RaceDisplay` | `RaceConfig` with the OLED task |
| `RaceProofs` | proofs about `RaceConfig`, `RaceDisplay` and `Car`, which implements `RaceConfig` |
| `Notify` | tones, deadlines and the lockout in time |
| `Car` | `RaceConfig` and `Route` together with every preemption |
| `CarHistory` | `Car` with history variables for two comments of the source |
| `SoftI2c` | the bit-banged bus, the search for the panel and its writes |
| `BusProofs` | proofs about `SoftI2c` |
| `Canvas` | abstract: a plane of pixels, of which the screen is a part |
| `FrameBuffer` | pictures in the bytes of the frame buffer; implements `Canvas` |
| `OperatorProofs` | proofs about `DebouncedKey` and `Notify`, and the refinement of `Canvas` |
| `ImuDma` | the IMU task against both interrupts *(STM32)* |
| `Cornering` | the right-angle corners *(STM32)* |
| `CornerHistory` | `Cornering` with what the car has really seen and done |
| `EarlierCarProofs` | proofs about `ImuDma` and `CornerHistory` |
| `MC...` | instances for TLC |

Operators marked `(* Mutant: ... *)` are deliberate mistakes used to show that
the property named for them in `PROJECT.json` notices them; no specification
uses them.

### Chassis
Variables are the globals of `app_chassis.c` (`target`, `brakeActive`, `output`,
`snapshot`), the fields of `DcMotor` and of `bsp_tb6612.c` (`motorSpeed`,
`duty`, `in1`, `in2`, `mode`), and a program counter per task. Targets and latch
are written in one step where the source does so with interrupts masked
(`app_chassis.c:303-316`). Stop and Brake go through *targets, snapshot, latch,
branch, outputs* and then the motor call of each wheel; `set_mode` is *check,
blank, in1, in2, mode, full duty*. The chassis task runs `SpeedControlRun` in
the same small steps; control does not move while it does. What PID
and feed-forward compute is any value the clamps allow; `SpeedLoop` has which.

### Encoder
`GROUP1_IRQHandler` is four steps - read the pending bits, clear them, serve the
left, serve the right encoder - and the shafts may turn between any two. The
count may lag the shaft by one edge, i.e. the handler keeps up with the motors.
`ReadDelta` is four steps inside its PRIMASK section. Counts do not wrap and a
delta is never clamped in the instance: 32,767 pulses in 10 ms are out of reach
of the motors.

### DebouncedKey
One step is one `Key_Update`, 0 to MaxGap ms after the last one (a late task
catches up with several calls in the same millisecond), with any sample. `stable_level` and
`state` always change together and are one variable. Times are kept as
differences, up to the value they are compared with.

### RaceConfig, RaceDisplay, Notify
A step of the race task is one access to `g_snapshot` or to the press counters;
`goal` is the state a handler is going to write. Control is reduced here to the
reports it may make (lap, last lap, finish) while it reads RUNNING. `RaceDisplay`
adds the capture of a frame and its pages with the dirty flag and the refresh
period. `Notify` keeps deadlines relative to now, and `lag`, the age of the tick
count RunOnce works with.

### Route, Course
A step is one iteration of `StartcontrolTask`. A line sample is one of four
classes (lost, full, under the centre sensors, elsewhere), because the code
tells no more apart when it decides. A distance is the last mark it passed
(search window, target, hard stop); no iteration passes two marks. A chassis
call is its kind. The line is read a second time behind the route code
(`control_task.c:1330`), so an iteration decides on `line` and steers by
`line'`. Modes 3 and 4 share the Q3 variables, and leaving a track resets only
what the `else` branches of the code reset; `Dropped`, `DroppedBy` and `Counters` say what.

`Course` knows only how many points a mode has, how many were passed, and that
each is announced once and the last one finishes. The mapping counts the points
from the phase and the lap count.

### Car, CarHistory
An iteration of `Route` is one step together with what its reports do to the
configuration; key and race steps come between iterations at any point.

### SpeedLoop, Wheel, SpeedEstimate
One action is one period of the chassis task for one wheel. The division
truncates towards zero as in C; the sum is clamped after the addition and the
output before it is narrowed; a change of the tuning, which a debugger may write
at any time, resets the controller. In `Wheel` the measured speed is no input any
more: a motor, external, goes half of the way to the speed of its duty less the
load in every period. `SpeedEstimate` narrows to 16 bits where the code does.

### LineSensor
One action is one period of the line task. The floor is external: a line of two
or three sensors' width moves by at most one sensor between two samples, there
are gaps and bars, and one sensor may read wrong once in any three samples. Masks are sets of sensors.
The very first sample fills the whole history, so an error in it stays for two
periods; `QuietStart` keeps the error out of that one sample (see 3, Remarks).

### Steering, SteadyLine
One action is one iteration of the control task, with the numbers `Route`
leaves out: filter, dead band, gain, slew and the three limits of the turn; the
heading loop; pivots; the blind recovery; the exit alignment; the clamp and slew of
`AppChassis_SetTargetVelocity`. The compiled-out branches (see 5) are not there. Of the phases
of `Route` one thing is kept: from a pivot the code gets to a straight, a search or an arc
only by an iteration that sets both wheels alike (`Straighten`) or by one that stands. For the
rest a branch may follow any other that leaves the values it takes over:

* a blind recovery may follow a straight or a search, whose end was confirmed by a bar that the arc
  then takes for no line (`control_task.c:957` and `:1294`), a failed one is braked
  (`Brake`), and a braked arc may still end and pivot (`LeaveArc`, then `Pivot`; `:1229`);
* the exit alignment (`Exit`, `:1483`) comes when the second read of the line is not valid. It
  leaves its turn in `g_control_task_turn`, and so does the heading loop: `Recover` drives on with either;
* the arc begins in the iteration of the search (`EnterArc`), in the one after (`MeetLine`), or with
  a recovery (`FilterOnArc`);
* a pause and a resumption may come anywhere (`Stand`).

So the histories of `Next` are more than those of the code, with one exception, which the Remarks
in 3 name. `lo` and `hi` are history variables: the least and greatest error
since the filter was reset. `SteadyLine` takes `Follow` alone, from any earlier error.

### SoftI2c, FrameBuffer, Canvas
`SoftI2c` has one action per change of a line, and reads of the line where the
code reads. The panel is external and is modelled by the bus protocol: it sees
starts, stops and clock edges on *its* pins, whichever way it is wired, answers its
address and takes data. It may be missing, come up late, or have been left in
the middle of a byte by a reset of the processor. `FrameBuffer` has the pages,
shifts and clipping of `OLED_ShowImage` and `OLED_ClearArea`; a byte is the set of its bits and the loop over the
pixels of a picture is a set expression over the cells. `Canvas` knows only
pixels; the mapping is `OLED_GetPoint`.

### ImuDma (earlier car)
The IMU task in steps as small as an interrupt can part them: the start of a
transfer is *select, address, arm, clear data-ready, start, undo*. Every call into
the SPI driver may fail while faults remain. `raw` says what the frame buffer
holds - nothing new, a frame being written, a whole one, one converted in place -
and `sample` where the newest sample is: in the sensor only, in a frame, converted, or lost with a
transfer that broke off. `Overrun` lets an
iteration begin while a transfer is under way.

### Cornering, CornerHistory (earlier car)
One action is one iteration of the control task. The seven sensors are the three
areas the masks of the code tell apart, and the odometer repeats itself behind
the longest way that is compared. `CornerHistory` adds what the car has really
seen - the last branch and the samples since, the way since the line was lost, the
samples with the line on the centre - and states the corners in those terms.

## 3. The runs

| Run | Question | States |
|---|---|---|
| `chassis` | do stops and brakes hold at every interleaving; are direction inputs switched only under a blanked PWM; do both tasks implement `DriveGoal`, and does the speed loop alone carry out a stop | 94 k |
| `race_config` | lap count of the lap race, lap at the start of a run, every press served | 11 k |
| `race_display` | no change lost, no torn panel, panel settles | 1.0 M |
| `route` | armed ends of arcs, standstill, release of the brake, `Course` implemented | 100 k |
| `car` | a finished race stands and shows its laps; a race that stops for good stands for good | 173 k |
| `operator` | do the events of a bouncing key tell one story and is a held key noticed; are tones whole, and do they end | 3 k |
| `line` | is the line shown that is there; do the commands reverse no wheel and keep the car going; does the loop come to steer towards a steady line | 320 k |
| `wheel` | does every pulse count once; what may windup add; does a drive settle on its target, and the shown speed on the speed | 325 k |
| `panel` | is the panel found and reached whichever way it is wired; does the buffer implement the plane | 395 k |
| `earlier_car` | is a frame whole when it is converted, and is the newest sample kept until then unless its transfer breaks off; are corners taken to the right side, at the place, up to the line, and do they end | 20 k |
| `car_ready`, `car_finish` | two comments of the source that the tasks together violate | |

The runs `operator`, `line`, `wheel`, `panel` and `earlier_car` put parts together
that share no variable (in `line` and `wheel` two of the parts are the same
variables with other numbers or inputs). A variable `part` picks the one that moves in a
behaviour, and the others stand in an initial state of theirs. For each value of
`part` the behaviours of the moving part are exactly those of its own
specification: its fairness is that of its own actions, conditioned on the same
`part`. So an invariant of the sum holds exactly when it holds of each part, and what is eventual is
stated of the part that moves.

Bounds, and why they are enough:

* `chassis`: rated speed and slew step 1 give targets -1, 0, 1; the code tells
  apart sign and zero, and full duty 2 separates a partial duty from a full one.
  Requests beyond the rated speed occur.
* `race_config`: three modes, of which the last is the lap race, two laps, two
  queued presses; mode and lap wrap around and the counter saturates (at 255 in
  the code).
* `race_display`: two pages of eight - enough for a torn frame - one queued
  press per key, two modes.
* `route`: every confirmation takes at least two iterations so that it can be
  broken off and resumed; two laps for the four of mode 4.
* `car`: confirmations take one iteration, samples are lost or centre and the
  operator presses three times: enough for a start, and two keys at any later
  moment, in each of the four modes.
* `operator`: the 8 ms of the board, with gaps that hit the limit exactly and
  jump over it; the long press of 1000 ms is 12 ms, since only its being longer than the
  debounce time matters. Durations of tones keep the order of the source (key < point <
  finish < lockout; 20, 150, 300 and 800 ms there). Two RunOnce begin at most
  `Period` ticks apart: the bound stands for the 10 ms delay of the race task plus
  what preemption adds, and the proofs hold for every value of it.
* `line`: seven sensors as on the car. The commands take its numbers scaled down
  (errors in units of 250, speeds in units of three counts), with one tuned speed
  below a count. Truncation, both signs, every limit and the outermost sensors occur; the
  turn of the exit is 3 of 5 counts, and a recovery may slew a wheel one step below zero, as
  on the car. The steady line takes the numbers as they are.
* `wheel`: the left shaft goes through all four quadrature states in both
  directions, the right one, inverted, an edge and back. The controller and the
  drives have the numbers of the car: eleven targets of both signs from one count to
  the rated 75, loads of up to four counts either way, both tunings in use. The
  window of the shown speed has three periods; deltas are 0, rated speed, and one backwards.
* `panel`: both pin assignments, the 112 addresses of the code, panels at the two usual
  addresses, at both ends of the scan and at none, ready, late, or stopped at any bit of a write
  (where `HolderIsProbed` allows). The buffer has two pages of two bits, and
  pictures of one and two pages lie at every shift and across every edge.
* `earlier_car`: three failures, which are enough for one at each call of a start and one of
  the transfer, or for a retried init and two of those; counters of two
  to six periods, and up to two units of way in a period against an entry of three.

### Fairness
* The chassis, control, race, oled, line and IMU tasks are periodic and return
  to their delay: weak fairness of their steps. For `StopReached` nothing is assumed
  of control, which a higher priority may starve.
* The encoder interrupt is masked over and over but never for good: strong
  fairness.
* Keys: a level that stays is sampled again, later; contacts owe nothing. Tones: time passes.
* IMU: the sensor samples on, a transfer ends and its interrupt is served. That
  frames keep coming (`FramesKeepOn`) is promised only to a task that comes to be on time: an
  iteration that overruns may discard the frame that completes between its take and its start.
* Corners: the car rolls now and then. The way into a corner has no timeout in
  the code (`App/task/control_task.c:158` *(STM32)*), so a car that does not roll stays in it.
* Operator, line, floor and shafts are never fair. Where something settles, the premise
  says what has to keep still (`ReportSettles`, `SpeedShownSettles`) or the instance has it so
  (a load, a line in its place).

### Two findings
* `control_task.c:317` says "READY/DONE starts a new route". Control resets a
  route in an iteration that reads READY. RunOnce serves the mode, lap and start
  keys in one call and with a lower priority, so with LAP and START both queued it
  writes READY and RUNNING between two iterations, and the old route is driven
  on (`car_ready`).
* `app_race_config.c:381` says "Completion is a one-shot event".
  `toggle_start_stop` reads the state and writes it later: a finish in between
  is overwritten with STOPPED, the next START resumes a race whose track is over
  and it can finish again (`car_finish`).

### Remarks
Five limits of the code that no comment of it denies; the models keep to
what it does promise.

* The first sample after power-on fills both older ones (`Bsp/bsp_line_sensor.c:48`):
  a disturbance in that one sample is believed for two periods, with the race not
  started.
* Nothing frees the bus before the first probe (`Bsp/bsp_oled_soft_i2c.c:75`). After a reset
  in the middle of a write the panel is found all the same, with one exception: one that is
  not at 0x3C, is wired as the first probe has it, and holds SDA for its answer just then.
  It takes the probe of 0x3C for data, answers it, and is then written at the wrong address.
* `OLED_UpdateArea` divides a negative Y towards zero (`Bsp/bsp_oled.c:351`) without the
  correction `OLED_ShowImage` makes. The program sends whole pages and never calls it.
* A transfer of the IMU that breaks off loses its sample: its completion
  (`Module/module_icm45686.c:293` *(STM32)*) does not announce it again, unlike a start that
  fails (`:363`). The next sample, a sampling period later, takes its place.
* The first finding has a second consequence. With MODE and START served in one RunOnce while
  mode 4 pivots, mode 1 begins with no iteration that stands in between, and its straight slews away from
  the targets of the pivot, one of them negative, instead of starting from a stand.
  `Steering` leaves this history out, so `CarKeepsOn` says nothing of it.

## 4. The proofs

Each of the eight proof modules proves what it says for every value of the
constants that the named assumptions of the modules allow. Further hypotheses
are named below; there are five: `TuningAssumption`, the two of
`LineIsAlwaysShown`, the one of `FramesAreTaken`, and `HolderIsProbed`.

### Chassis

`ChassisProofs` proves, for every rated speed, slew step, full duty and set of
requests: types (`TypeCorrect`), no driven wheel after a stop (`StopIsSafe`), a
held brake (`BrakeIsHeld`), the latch only at standstill (`LatchIsReleased`),
a snapshot that shows a stop (`SnapshotIsTrue`), blanked switching
(`SwitchingIsBlanked`) and the safety part of the refinement (`ImplementsDriveGoal`). Assumed is only `ChassisAssumption`. None of these is
inductive: that the bridges are undriven when Brake returns depends on what both
tasks were about to write. The invariant (`Invariance`) has a part for each
side of the race:

* `CallInv`: which step a task can be at during which call of control, that
  every call but SetTarget has zeroed the targets from its first write on, and
  that the latch is set only then;
* `ArgInv`: the arguments of the motor calls in progress agree with targets and
  latch - so while control is inside its motor calls both tasks want the same
  mode for a bridge;
* `ChassisInv`: how far the chassis task has got with the bridge it is switching
  determines its duty and inputs;
* `InputsInv`: a bridge the chassis task is not switching has the inputs of its
  noted mode, except where control has been preempted between two of its writes;
  those are states from which the chassis task may begin its own call and end in the
  same mode;
* `ControlInv`: the same for the duty of the bridge control is writing;
* `DoneInv`: the bridges control is done with are settled - coasting, or shorted
  at full duty under a latched brake - and stay so until a new target is set.

### Race configuration and display

`RaceProofs` proves the two safety properties of `RaceConfig` and the two of
`RaceDisplay` for every number of modes, laps, queued presses and pages.
`RaceConfigAssumption` asks for more than one mode: the car starts in mode 1
with one lap, so were that the lap race the first configuration would not have
its laps. `ConfigInv` is the types with `LapsInv` - the fixed number of laps is
missing only between the writes of mode and laps - and `GoalInv`: on the way
from READY to RUNNING nobody but the START handler writes the state, hence
control reports no lap after the handler's zero. `DisplayInv` adds
`NoChangeLost`, which is inductive once the configuration is known to change
only before the flag is set, and `TransferInv`: a running transfer has sent all
pages before the next one.

### Car

`Car` gives `RaceConfig` an operator, a route that reports laps, and a control
task between any two steps. `CarImplementsConfig` proves that each of its
steps is one of `RaceConfig` or a stutter, so that what is proved of the
configuration holds of the car (`CarKeepsItsLaps`). `FinishStays` is `FinishIsFinal`:
a race finished by control shows its laps and stands, until a handler writes the state.
That is not inductive, as a handler of any key may be half-way when the race
finishes. `CarInv` adds where the shown lap may differ from zero
outside the lap race (`LapOnlyInLapRace`), that a finish shows the last lap by the time a
handler ends (`LastLapShown`), and that no handler is on its way to FINISHED.
`CarAssumption` fixes the four modes, which the dispatch of control spells out.

### Route

`RouteProofs` proves, for every confirmation count, arming count, number of laps and set of
line samples: once control has seen the race stop the car is not commanded to drive (`CarStands`), an arc ends only
once it is armed by samples of this very arc (`ArcsEndArmed`), a valid line sample releases the
brake of a failed recovery (`BrakeIsReleased`), and `Route` implements `Course` (`CourseImplemented`): every point announced
once, in order, and none after the last. The invariant says that at most one track is
active and that it is the one of the mode shown while the race runs or is paused
(`OneTrack`) - the source clears the other tracks in `else` branches far from each
other - that a lap race under way has laps left and a new one starts without
(`LapsLeft`), and that the arming count never exceeds the samples of the arc (`ArmIsTracked`). Every iteration of
a track is shown to be one of four moves - stays, passes a point, passes a lap, finishes - and
only these are needed for what follows. The theorems are about `RouteAlone`: keys come between two
iterations. What preemption adds is in `Car`.

### Line and steering

`LineIsAlwaysShown` proves all of `LineIsShown`, for every number of sensors and either
polarity: every sensor shown was on the line in one of the last three samples, a moving line is
neither lost nor taken for a bar, a line that stands is shown as it is, a bar is there in two
samples before it is reported, and the position lies between sensors lately covered. It has two
hypotheses. `QuietStart` is the one of the run (see Remarks). The other is that a line leaves
four sensors free; that is sharp, with seven sensors and a line of four the vote
takes a moving line for a bar. The car has seven and three. The invariant (`VoteInv`) relates
snapshot and history to the last three positions of the line: the mask is the majority of
three samples of which at most one is wrong in one sensor (`Recorded`), and neighbours in time
differ by one sensor. The average of the position is a sum over a finite set; that it
lies between the least and the greatest sensor follows by a least counterexample among
the subsets, because the induction theorems of the library cannot be used (see below).

About `Steering`: the turn on the line stays within the forward speed, so that no line command
reverses a wheel (`NoWheelReverses`), the filtered error stays within the
errors seen (`ErrorStaysWithinSeen`; both together are `LineLoopStaysBounded`), and the turn moves by at most the slew step except
towards zero (`TurnMovesSlowly`), for every track and sensor. The work is in lemmas about
truncating division, clamp, slew and the two limits; with the types the invariants are then inductive.
`CarDrivesOn` proves `CarKeepsOn` for every history of `Next`: whatever recoveries, exit alignments,
brakes, pivots and pauses came before, both wheels are commanded forward on a line, at the begin of an
arc, in a search, on a straight and in the exit alignment, and a line in sight has a forward
speed above zero. The invariant (`KeepsOn`) bounds how far a blind recovery can take
a wheel below zero - one slew step - and, but for a pivot and the iteration that straightens it, the turn by the recovery speed plus a step
(`TurnCap`). It needs `TuningAssumption`, which says of the tuned numbers that line speeds round to at
least a count; that every turn a recovery may take over - two thirds of the fastest line, that of the
exit, which comes from the default speed, and that of the heading loop - is within `TurnCap`; and that the heading
loop may not correct by more than the speed of any straight, its last third included. The car's
numbers fulfil it: `TurnCap` is 19 counts (recovery 15, slew 4), the turns are 16 (line 25), 10 (default 25)
and 6, and the slowest straight has 6.

### Wheels

`PulsesAreCounted` proves that between any two reads every edge of both shafts counts exactly once
and with the right sign, whichever encoder is inverted. The invariant
(`EncoderInv`) has one part for the handler - what an edge that is pending, read or cleared
still owes the count - and one for the masked read, between whose steps nothing may be lost.
`EncoderAssumption` only types the constants.

`WindupIsBounded` and `SlowWheelGetsEffort` hold for every tuning without derivative: the past of a
wheel changes its effort by at most the authority of the sum, and a
wheel that stays behind and gets no faster never gets less effort.
The strengthening (`Explained`) says that the stored error and sum explain the effort
of the last period; the rest is that division, clamp and correction are monotonic.

### Operator and drawing

`EventsAreSound` proves that presses, long presses and releases reported by
a key alternate as they should, `NoBouncePasses` that a level is only taken over after it has been
steady for the debounce time. With the types both are inductive; the proof
splits on the event a call reports. `TonesAreWhole` and `TonesEnd` prove that no tone is cut before
its deadline and that none outlives it by two periods; beside the two
the invariant needs that outside RunOnce a sounding tone has not
expired at the tick count used last (`Pending`).

`PicturesAreShown` proves that `FrameBuffer` implements `Canvas` for every size of buffer, page and
picture and every position, on the screen or off it: a picture replaces exactly the pixels of its
rectangle. There is no invariant; the lemma behind it (`DrawnIsPicture`) says that a bit
of the two shifted parts of a byte is set exactly when the picture has the pixel,
with `PlaceSplit` for the page and shift of a negative coordinate, where the C
division truncates the wrong way and the source corrects it. `FrameBufferAssumption` types the
positions and says that a picture has only pixels inside its size.

### Panel bus

`PanelAlwaysReached` proves all of `PanelIsReached`, for every range of the scan, every pair of usual
addresses, every panel, either wiring, and messages of any length: a panel that is up is found, and nothing
else is; the search writes nothing into it; a write reports success exactly when the panel has taken
all of it; and the bus is free between the calls. Nothing of that is inductive: what a read returns
depends on every edge the panel has seen since the start. The invariant (`BusInv`, `BusInvariance`)
computes from the operations done where in the transaction the driver is (`Number`, `Place`) and at which
levels it leaves its lines (`PulledInv`), and says what the panel has made of them:

* with the pins the right way round (`RightInv`) the panel is `Synced` - its bit count, shift
  register, answer and bytes are those of the place; the register is the first bits of the byte
  being sent, the rest divided away - or `Away`, not addressed or not up, and then no
  read finds the line low. After a reset it may still have to let go of an answer (`Held`);
* with the pins exchanged (`WrongInv`) SDA is the panel's clock. It moves while SCL is low, so every
  bit clocked in is a zero, and a one that SCL clocks is a stop and a start to the panel: it never has
  a whole byte when its clock falls (`Loose`), takes no data (`Silent`) and leaves the line the
  driver reads alone. A panel that was stopped while it answered pulls the other line (`Stuck`) until the
  first bit that falls; there is one, because an address has a one in it and its byte ends
  with a zero;
* the search (`SearchInv`): the pass with the right pins has not gone past the panel (`NotPast`), and
  a pass that ends without an answer found none because none was up.

The proof has one lemma per kind of operation - a bit is shown, the clock rises, falls, the
answer, the stop - and per wiring. Arithmetic enters only through the powers of two up to the eighth.
`SoftI2cAssumption` types the constants, puts the second usual address below the end of the scan
and says that a message has a control byte (`bsp_oled.c:100-134`). The
hypothesis `HolderIsProbed` is the one of the run, about the initial state alone: a panel that a reset finds
holding SDA for an answer, and that is wired as the first probe has it, is at the first address probed. The reset may
come at any other bit of a write, with any panel and either wiring. Without it `NothingElseFound` is false, which the
second of the Remarks in 3 explains.
TLC has checked `BusInv` on all states of the bus in the run `panel` before it was proved.

### The earlier car

`TransfersAreSafe` proves, for any number of failures and with or without overruns,
that only a whole new frame is converted, that the chip select frames every
transfer and that the newest sample is kept: from its announcement until it is converted it is announced,
about to be read, being read, or lies whole where the next take finds it, unless the transfer
that reads it breaks off (`NewestSampleStaysKept`). With overruns a completed frame may be discarded, but
only by a transfer that reads a sample at least as new; `FramesAreTaken` proves that with
every iteration on time none is. None is inductive: the invariant says
who owns the bus (`Owner`: the callback is armed exactly while the engine has
a transfer; busy and chip select follow from that and the step of the task), where a completed
frame waits (`FrameWaits`), and that a transfer of an on-time task ends while it sleeps (`OnTime`).

`CornersAreRight` proves `CornersAreTaken`: a corner is taken to the side of the branch last seen, less than
`HintHold` valid samples ago; the turn begins within a period's roll of the same place; and the car
drives on only with the line under its centre in `Reacquire` samples one after the other. The invariant (`CornerInv`) ties the variables of the code to what has
really happened: hint and hold to the last branch and its age, the odometer
difference to the way since the line was lost, the count to the latest samples.

### What stays with TLC

Three theorems state properties no run lists: `FramesAreTaken`, which holds only
without overruns while the run has them, `TurnMovesSlowly` and
`SlowWheelGetsEffort`. What the others state a run checks too, by itself or as a
part of a larger property; `ImplementsDriveGoal` is the safety part of `SupervisorSpec`.

Every safety property of the runs that pass has its theorem. Only model-checked:

* all liveness, with the liveness part of `SupervisorSpec`: fairness and ENABLED are outside
  the prover's reach;
* `Wheel`, `SteadyLine` and `SpeedEstimate`, of which only convergence is asked;
* the two violated comments (`CarHistory`), which are counterexamples;
* what a recursively defined function computes for every input (library
  inductions take an operator, which the installed provers cannot instantiate). The sum
  in the line sensor is the exception, by a least counterexample.

## 5. Not modelled

* FIND phases and the arcs of mode 2 have no distance limit in the code: without a
  line the car searches on. There is nothing to check without a model of the track.
* Right-angle corners of this car and its direct 300 rpm test are compiled out; the
  corners are modelled where they run, in the earlier car.
* `rpm_to_encoder_delta` and the heading loop are in `Steering`; how far the car has come is a mark in
  `Route`, and that encoder counts add up to it is not modelled.
* Lines, circles, number formats and fonts of the panel: arithmetic on single pixels and
  layout, which no property here is about. `OLED_UpdateArea` is not called.
* `App/app_mpu6050.c`, `Module/MPU6050.c`, `Bsp/bsp_i2c.c` and the IMU task of
  this car: `App_FreeRTOS_CreateTasks` creates no task that calls them, so their properties
  would be about states the program is never in.
* `Lib/lib_attitude.c`, `Lib/lib_adaptive_mahony.c`, `Lib/lib_kalman.c`: floating-point
  filters, outside what TLA+ arithmetic expresses.
* `Module/inv_imu_*.c`: register sequences of the vendor's driver, called as single accesses in `ImuDma`.
* The rest of the earlier car follows the layout of the present one in chassis, keys, panel and
  drivers; what differs is modelled.
* `driverlib/`, `outdevice/`, `imu/`, `studylib/`, `User/`, and in
  `STM32F103RCT6/` the HAL, CMSIS and FreeRTOS: vendor code, library copies and exercises. They
  are by far the most lines of the repository: the modules cover about 4,450 lines of the cars' own
  code, and most of what decides how they move, while that is a small share of all lines.

## 6. Plan

1. The odometer between `Encoder` and `Route`: counts, millimetres and the marks
   of a straight.
2. Proofs: that the corners of `CornerHistory` and the recovery of `Steering` keep what
   `Route` takes for granted of them; `LineIsAlwaysShown` after a disturbed first sample, two
   periods later.
3. A track for `Route`: liveness - a course on a track that has its lines is finished.
