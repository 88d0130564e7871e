------------------------------- MODULE Chassis -------------------------------
(***************************************************************************)
(* The drive path of the car: the speed targets and the brake latch of     *)
(* app_chassis.c, DcMotor of module_motor.c and the TB6612 H-bridge driver *)
(* of bsp_tb6612.c, as driven by two FreeRTOS tasks.                       *)
(*                                                                         *)
(*   control  (priority 2) calls SetTargetSpeed, SetTargetVelocity, Stop   *)
(*            and Brake; it can be preempted between any two register      *)
(*            writes, but not inside a PRIMASK section.                    *)
(*   chassis  (priority 3, every 10 ms) runs UpdateEncoder and             *)
(*            SpeedControlRun; control never runs while it does.           *)
(*                                                                         *)
(* Neither task locks the bridges, so each call is modelled as the         *)
(* sequence of writes it makes.  The PID, the feed-forward and the rate    *)
(* filters are data here: a wheel with a non-zero target may receive any   *)
(* control output.                                                         *)
(***************************************************************************)
EXTENDS Integers

CONSTANTS
  Rated,     (* BOARD_CHASSIS_RATED_SPEED_DELTA: bound of a speed target   *)
  SlewStep,  (* APP_CHASSIS_TARGET_SLEW_STEP                               *)
  Full,      (* DC_MOTOR_MAX_SPEED = BOARD_TB6612_PWM_MAX_DUTY             *)
  Inputs     (* the speeds the control task may ask for                    *)

ASSUME ChassisAssumption ==
  /\ Rated \in Nat \ {0}
  /\ SlewStep \in Nat \ {0}
  /\ Full \in Nat \ {0}
  /\ Inputs \subseteq Int

Wheels   == {"left", "right"}
Inverted == {"left"}
Tasks    == {"control", "chassis"}
Modes    == {"COAST", "FORWARD", "REVERSE", "BRAKE"}
Targets  == (-Rated) .. Rated
Outputs  == (-Full) .. Full
Duties   == 0 .. Full

VARIABLES
  target,       (* g_left_target_speed, g_right_target_speed               *)
  brakeActive,  (* g_brake_active                                          *)
  output,       (* g_left_control_output, g_right_control_output           *)
  motorSpeed,   (* DcMotor.speed of each wheel                             *)
  duty,         (* PWM duty of each bridge                                 *)
  in1, in2,     (* direction inputs of each bridge                         *)
  mode,         (* current_mode set_mode keeps for each bridge             *)
  snapshot,     (* g_chassis_snapshot: speeds, targets and outputs         *)
  call,         (* the last call of the control task, running or returned  *)
  pc,           (* per task: the next write, "idle" between two calls      *)
  wheel,        (* per task: the wheel whose motor is being written        *)
  braking,      (* per task: the motor call is DcMotor_Brake               *)
  drive         (* per task: the speed of each wheel in SetSpeed, 0 = coast*)

bridgeVars == <<duty, in1, in2, mode>>
motorVars == <<motorSpeed, bridgeVars>>
goalVars  == <<target, brakeActive>>
argVars   == <<wheel, braking, drive>>
vars == <<target, brakeActive, output, motorSpeed, duty, in1, in2, mode,
          snapshot, call, pc, wheel, braking, drive>>

Zero == [w \in Wheels |-> 0]

(***************************************************************************)
(* Speed targets                                                           *)
(***************************************************************************)
(* Mutant: the negative bound is forgotten. *)
ClampUpperOnly(bound, speed) == IF speed > bound THEN bound ELSE speed

Clamp(bound, speed) ==
  IF speed > bound THEN bound ELSE IF speed < -bound THEN -bound ELSE speed

SlewTarget(current, goal) ==
  IF goal > current + SlewStep THEN current + SlewStep
  ELSE IF goal < current - SlewStep THEN current - SlewStep
  ELSE goal

(* The two int32 sums saturate to int16 and are then clamped to Rated; the *)
(* narrower clamp absorbs the saturation.                                  *)
Mixed(forward, turn) ==
  [w \in Wheels |->
    SlewTarget(target[w],
               Clamp(Rated, IF w = "left" THEN forward + turn
                                          ELSE forward - turn))]

Moving(t) == \E w \in Wheels : t[w] # 0

(* Mutant: the latch outlives the stop. *)
WriteTargetsKeepLatch(t) ==
  /\ target' = t
  /\ UNCHANGED brakeActive

(* The one PRIMASK section that writes the targets: a non-zero target      *)
(* releases the brake latch.                                               *)
WriteTargets(t) ==
  /\ target' = t
  /\ brakeActive' = (brakeActive /\ ~Moving(t))

UpdateSnapshot ==
  snapshot' = [speed |-> motorSpeed, target |-> target, output |-> output]

(***************************************************************************)
(* Scheduling: the chassis task preempts the control task, never the       *)
(* reverse.                                                                *)
(***************************************************************************)
Runs(t) == t = "chassis" \/ pc["chassis"] = "idle"

At(t, step)   == Runs(t) /\ pc[t] = step
Goto(t, step) == pc' = [pc EXCEPT ![t] = step]

(***************************************************************************)
(* DcMotor_SetSpeed, DcMotor_Coast and DcMotor_Brake on one wheel, one     *)
(* write at a time.  SetSpeed(0) and Coast make the same writes.           *)
(***************************************************************************)
ModeOf(w, s) ==
  IF s = 0 THEN "COAST"
  ELSE IF (s > 0) # (w \in Inverted) THEN "FORWARD" ELSE "REVERSE"

Wanted(t) == IF braking[t] THEN "BRAKE" ELSE ModeOf(wheel[t], drive[t][wheel[t]])

In1(m) == IF m \in {"FORWARD", "BRAKE"} THEN 1 ELSE 0
In2(m) == IF m \in {"REVERSE", "BRAKE"} THEN 1 ELSE 0

Magnitude(s) == IF s < 0 THEN -s ELSE s

(* Left wheel first, then the right one; a task that is done with both     *)
(* goes on with the caller's code.  SpeedControlRun returns right after    *)
(* braking, without the snapshot.                                          *)
NextWheel(t) ==
  IF wheel[t] = "left"
  THEN /\ wheel' = [wheel EXCEPT ![t] = "right"]
       /\ Goto(t, "speed")
       /\ UNCHANGED <<braking, drive>>
  ELSE /\ wheel' = [wheel EXCEPT ![t] = "left"]
       /\ braking' = [braking EXCEPT ![t] = FALSE]
       /\ drive' = [drive EXCEPT ![t] = Zero]
       /\ Goto(t, IF t = "control" THEN "zero"
                  ELSE IF braking[t] THEN "idle" ELSE "snap")

(* Back in DcMotor: only a running motor still has its duty to set.        *)
AfterMode(t) ==
  IF ModeOf(wheel[t], drive[t][wheel[t]]) # "COAST"
  THEN Goto(t, "post") /\ UNCHANGED argVars
  ELSE NextWheel(t)

StartMotors(t, brake, speeds) ==
  /\ wheel' = [wheel EXCEPT ![t] = "left"]
  /\ braking' = [braking EXCEPT ![t] = brake]
  /\ drive' = [drive EXCEPT ![t] = speeds]
  /\ Goto(t, "speed")

MotorSpeed(t) ==
  /\ At(t, "speed")
  /\ motorSpeed' = [motorSpeed EXCEPT ![wheel[t]] = drive[t][wheel[t]]]
  /\ Goto(t, IF Wanted(t) \in {"COAST", "BRAKE"} THEN "pre" ELSE "check")
  /\ UNCHANGED <<goalVars, output, bridgeVars, snapshot, call, argVars>>

PreDuty(t) ==
  /\ At(t, "pre")
  /\ duty' = [duty EXCEPT ![wheel[t]] = IF braking[t] THEN Full ELSE 0]
  /\ Goto(t, "check")
  /\ UNCHANGED <<goalVars, output, motorSpeed, in1, in2, mode, snapshot, call, argVars>>

(* Mutant: the bridge is rewritten every 10 ms. *)
CheckModeNever(t) ==
  /\ At(t, "check")
  /\ Goto(t, "blank")
  /\ UNCHANGED <<goalVars, output, motorVars, snapshot, call, argVars>>

(* set_mode leaves a bridge alone that is already in the wanted mode.      *)
CheckMode(t) ==
  /\ At(t, "check")
  /\ IF mode[wheel[t]] = Wanted(t)
     THEN AfterMode(t)
     ELSE Goto(t, "blank") /\ UNCHANGED argVars
  /\ UNCHANGED <<goalVars, output, motorVars, snapshot, call>>

(* Mutant: the inputs are switched under the duty of the old mode. *)
BlankNothing(t) ==
  /\ At(t, "blank")
  /\ Goto(t, "in1")
  /\ UNCHANGED <<goalVars, output, motorVars, snapshot, call, argVars>>

Blank(t) ==
  /\ At(t, "blank")
  /\ duty' = [duty EXCEPT ![wheel[t]] = 0]
  /\ Goto(t, "in1")
  /\ UNCHANGED <<goalVars, output, motorSpeed, in1, in2, mode, snapshot, call, argVars>>

WriteIn1(t) ==
  /\ At(t, "in1")
  /\ in1' = [in1 EXCEPT ![wheel[t]] = In1(Wanted(t))]
  /\ Goto(t, "in2")
  /\ UNCHANGED <<goalVars, output, motorSpeed, duty, in2, mode, snapshot, call, argVars>>

WriteIn2(t) ==
  /\ At(t, "in2")
  /\ in2' = [in2 EXCEPT ![wheel[t]] = In2(Wanted(t))]
  /\ Goto(t, "mode")
  /\ UNCHANGED <<goalVars, output, motorSpeed, duty, in1, mode, snapshot, call, argVars>>

WriteMode(t) ==
  /\ At(t, "mode")
  /\ mode' = [mode EXCEPT ![wheel[t]] = Wanted(t)]
  /\ IF Wanted(t) = "BRAKE"
     THEN Goto(t, "full") /\ UNCHANGED argVars
     ELSE AfterMode(t)
  /\ UNCHANGED <<goalVars, output, motorSpeed, duty, in1, in2, snapshot, call>>

FullDuty(t) ==
  /\ At(t, "full")
  /\ duty' = [duty EXCEPT ![wheel[t]] = Full]
  /\ AfterMode(t)
  /\ UNCHANGED <<goalVars, output, motorSpeed, in1, in2, mode, snapshot, call>>

PostDuty(t) ==
  /\ At(t, "post")
  /\ duty' = [duty EXCEPT ![wheel[t]] = Magnitude(drive[t][wheel[t]])]
  /\ NextWheel(t)
  /\ UNCHANGED <<goalVars, output, motorSpeed, in1, in2, mode, snapshot, call>>

MotorStep(t) ==
  \/ MotorSpeed(t) \/ PreDuty(t) \/ CheckMode(t) \/ Blank(t)
  \/ WriteIn1(t) \/ WriteIn2(t) \/ WriteMode(t) \/ FullDuty(t) \/ PostDuty(t)

(***************************************************************************)
(* The control task's calls                                                *)
(***************************************************************************)
Enter(name, t) ==
  /\ At("control", "idle")
  /\ WriteTargets(t)
  /\ call' = name
  /\ Goto("control", "targetsSnap")
  /\ UNCHANGED <<output, motorVars, snapshot, argVars>>

SetTargetSpeed(left, right) ==
  Enter("target", [w \in Wheels |->
                     Clamp(Rated, IF w = "left" THEN left ELSE right)])

SetTargetVelocity(forward, turn) == Enter("target", Mixed(forward, turn))

(* Mutant: the motors are stopped but not the targets. *)
StopMotorsOnly == Enter("stop", target)

Stop  == Enter("stop", Zero)
Brake == Enter("brake", Zero)

TargetsSnapshot ==
  /\ At("control", "targetsSnap")
  /\ UpdateSnapshot
  /\ Goto("control", IF call = "stop" THEN "branch"
                     ELSE IF call = "brake" THEN "latch" ELSE "idle")
  /\ UNCHANGED <<goalVars, output, motorVars, call, argVars>>

Latch ==
  /\ At("control", "latch")
  /\ brakeActive' = TRUE
  /\ StartMotors("control", TRUE, Zero)
  /\ UNCHANGED <<target, output, motorVars, snapshot, call>>

(* Mutant: Stop does not know the brake latch. *)
StopAlwaysCoasts ==
  /\ At("control", "branch")
  /\ StartMotors("control", FALSE, Zero)
  /\ UNCHANGED <<goalVars, output, motorVars, snapshot, call>>

StopBranch ==
  /\ At("control", "branch")
  /\ StartMotors("control", brakeActive, Zero)
  /\ UNCHANGED <<goalVars, output, motorVars, snapshot, call>>

ZeroOutputs ==
  /\ At("control", "zero")
  /\ output' = Zero
  /\ Goto("control", "snap")
  /\ UNCHANGED <<goalVars, motorVars, snapshot, call, argVars>>

(* Mutant: the snapshot taken with the targets is not refreshed. *)
FinalSnapshotForgotten(t) ==
  /\ At(t, "snap")
  /\ Goto(t, "idle")
  /\ UNCHANGED <<goalVars, output, motorVars, snapshot, call, argVars>>

FinalSnapshot(t) ==
  /\ At(t, "snap")
  /\ UpdateSnapshot
  /\ Goto(t, "idle")
  /\ UNCHANGED <<goalVars, output, motorVars, call, argVars>>

Control ==
  \/ TargetsSnapshot \/ Latch \/ StopBranch \/ ZeroOutputs
  \/ FinalSnapshot("control") \/ MotorStep("control")

(***************************************************************************)
(* The chassis task: UpdateEncoder, then SpeedControlRun                   *)
(***************************************************************************)
UpdateEncoder ==
  /\ At("chassis", "idle")
  /\ UpdateSnapshot
  /\ Goto("chassis", "decide")
  /\ UNCHANGED <<goalVars, output, motorVars, call, argVars>>

(* Mutant: zero targets end the run before the motors are written. *)
SpeedControlRunReturnsEarly ==
  /\ At("chassis", "decide")
  /\ IF Moving(target)
     THEN /\ output' \in [Wheels -> Outputs]
          /\ StartMotors("chassis", FALSE, output')
     ELSE /\ output' = Zero
          /\ Goto("chassis", "idle")
          /\ UNCHANGED argVars
  /\ UNCHANGED <<goalVars, motorVars, snapshot, call>>

SpeedControlRun ==
  /\ At("chassis", "decide")
  /\ output' \in {o \in [Wheels -> Outputs] :
                    \A w \in Wheels : target[w] = 0 => o[w] = 0}
  /\ StartMotors("chassis", ~Moving(target) /\ brakeActive, output')
  /\ UNCHANGED <<goalVars, motorVars, snapshot, call>>

ChassisTask ==
  UpdateEncoder \/ SpeedControlRun \/ FinalSnapshot("chassis") \/ MotorStep("chassis")

(***************************************************************************)
(* Specification                                                           *)
(***************************************************************************)
Init ==
  /\ target = Zero
  /\ brakeActive = FALSE
  /\ output = Zero
  /\ motorSpeed = Zero
  /\ duty = Zero
  /\ in1 = Zero
  /\ in2 = Zero
  /\ mode = [w \in Wheels |-> "COAST"]
  /\ snapshot = [speed |-> Zero, target |-> Zero, output |-> Zero]
  /\ call = "stop"
  /\ pc = [t \in Tasks |-> "idle"]
  /\ wheel = [t \in Tasks |-> "left"]
  /\ braking = [t \in Tasks |-> FALSE]
  /\ drive = [t \in Tasks |-> Zero]

Call ==
  \/ \E l, r \in Inputs : SetTargetSpeed(l, r) \/ SetTargetVelocity(l, r)
  \/ Stop
  \/ Brake

Next == Call \/ Control \/ ChassisTask

Spec == Init /\ [][Next]_vars

(* vTaskDelayUntil wakes the chassis task every 10 ms and nothing of the   *)
(* application preempts it for ever.  Nothing is assumed of the control    *)
(* task: a lower priority may starve it in the middle of a call.           *)
FairSpec == Spec /\ WF_vars(ChassisTask)

(***************************************************************************)
(* Properties                                                              *)
(***************************************************************************)
Steps == {"idle", "targetsSnap", "latch", "branch", "zero", "snap", "decide",
          "speed", "pre", "check", "blank", "in1", "in2", "mode", "full", "post"}

(* Every variable has its type; targets stay within the rated speed and    *)
(* duties within the PWM range whatever is asked for.                      *)
TypeOK ==
  /\ target \in [Wheels -> Targets]
  /\ brakeActive \in BOOLEAN
  /\ output \in [Wheels -> Outputs]
  /\ motorSpeed \in [Wheels -> Outputs]
  /\ duty \in [Wheels -> Duties]
  /\ in1 \in [Wheels -> {0, 1}]
  /\ in2 \in [Wheels -> {0, 1}]
  /\ mode \in [Wheels -> Modes]
  /\ snapshot \in [speed : [Wheels -> Outputs], target : [Wheels -> Targets],
                   output : [Wheels -> Outputs]]
  /\ call \in {"target", "stop", "brake"}
  /\ pc \in [Tasks -> Steps]
  /\ wheel \in [Tasks -> Wheels]
  /\ braking \in [Tasks -> BOOLEAN]
  /\ drive \in [Tasks -> [Wheels -> Outputs]]

Driven(w) ==
  /\ duty[w] > 0
  /\ in1[w] # in2[w]

(* Once Stop or Brake has returned, no wheel is driven until a new target  *)
(* is set, wherever the chassis task preempted the call                    *)
(* (app_chassis.c:435-462 against 349-414).                                *)
NoDriveAfterStop ==
  pc["control"] = "idle" /\ call \in {"stop", "brake"}
    => \A w \in Wheels : ~Driven(w)

(* From the return of Brake to the next non-zero target both bridges stay  *)
(* shorted at full duty: the 10 ms speed loop neither releases them nor    *)
(* blanks the PWM (bsp_tb6612.c:96-101), and Stop keeps the latch.         *)
BrakeHeld ==
  pc["control"] = "idle" /\ brakeActive
    => \A w \in Wheels : /\ in1[w] = 1 /\ in2[w] = 1
                         /\ duty[w] = Full

(* The latch is never left set under a non-zero target, or the next stop   *)
(* would brake instead of coast (app_chassis.c:309-312).                   *)
LatchOnlyAtStandstill == brakeActive => ~Moving(target)

(* The snapshot the other tasks read shows a standstill once Stop or Brake *)
(* has returned and the chassis task is between two periods                *)
(* (app_chassis.c:450, 461, 423).                                          *)
SnapshotShowsStop ==
  (\A t \in Tasks : pc[t] = "idle") /\ call \in {"stop", "brake"}
    => snapshot = [speed |-> Zero, target |-> Zero, output |-> Zero]

(* "Remove bridge drive before changing its direction inputs"              *)
(* (bsp_tb6612.c:103): an input of a bridge changes only while its duty is *)
(* zero, also when both tasks are inside set_mode for the same wheel.      *)
BlankedSwitching ==
  [][\A w \in Wheels :
       <<in1'[w], in2'[w]>> # <<in1[w], in2[w]>>
         => duty[w] = 0]_vars

(* A stop that is asked for is carried out by the speed loop alone, even   *)
(* if the control task is starved in the middle of Stop or Brake           *)
(* (app_chassis.c:362-380).                                                *)
StopReached ==
  (pc["control"] # "idle" /\ call \in {"stop", "brake"})
    ~> (Moving(target) \/ \A w \in Wheels : ~Driven(w))
==============================================================================
