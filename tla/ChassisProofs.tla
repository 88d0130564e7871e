---------------------------- MODULE ChassisProofs ----------------------------
(***************************************************************************)
(* The safety of the drive path for every rated speed, slew step, full     *)
(* duty and set of requests.  The argument is one inductive invariant:     *)
(* while the control task is inside a motor call the targets are zero, so  *)
(* the chassis task that preempts it wants the very mode it is about to    *)
(* write, and each of the two leaves the bridge in a state the other one   *)
(* may continue from.                                                      *)
(***************************************************************************)
EXTENDS ChassisRefinement, TLAPS

MotorSteps == {"speed", "pre", "check", "blank", "in1", "in2", "mode", "full",
               "post"}

InMotor(t) == pc[t] \in MotorSteps
Busy(t, w) == InMotor(t) /\ wheel[t] = w

(* The mode and the duty a car that was told to stop settles on. *)
StopMode == IF brakeActive THEN "BRAKE" ELSE "COAST"
StopDuty == IF brakeActive THEN Full ELSE 0

Consistent(w) == in1[w] = In1(mode[w]) /\ in2[w] = In2(mode[w])

SettledStop(w) ==
  /\ mode[w] = StopMode
  /\ duty[w] = StopDuty
  /\ Consistent(w)

(* Which step a task can be at during which call, and what the targets and *)
(* the latch are meanwhile.                                                *)
CallInv ==
  /\ pc["chassis"] \in {"idle", "decide", "snap"} \cup MotorSteps
  /\ pc["control"] \in {"idle", "targetsSnap", "latch", "branch", "zero", "snap"}
                       \cup (MotorSteps \ {"post"})
  /\ pc["control"] \notin {"idle", "targetsSnap"} => call # "target"
  /\ call # "target" => target = Zero
  /\ LatchOnlyAtStandstill

(* The arguments of the two tasks' motor calls agree with the goal. *)
ArgInv ==
  /\ \A t \in Tasks : ~InMotor(t) => wheel[t] = "left" /\ ~braking[t] /\ drive[t] = Zero
  /\ \A t \in Tasks : InMotor(t) => (braking[t] <=> brakeActive)
  /\ InMotor("control") => drive["control"] = Zero
  /\ \A w \in Wheels : target[w] = 0 => drive["chassis"][w] = 0
  /\ pc["chassis"] = "pre" => Wanted("chassis") \in {"COAST", "BRAKE"}
  /\ \A t \in Tasks : pc[t] = "full" => Wanted(t) = "BRAKE"
  /\ pc["chassis"] = "post" => Wanted("chassis") \in {"FORWARD", "REVERSE"}

(* A wheel the chassis task is writing. *)
ChassisInv(w) ==
  LET want == Wanted("chassis") IN
  Busy("chassis", w) =>
    /\ pc["chassis"] \in {"blank", "in1", "in2", "mode"} => mode[w] # want
    /\ pc["chassis"] \in {"in1", "in2", "mode"} => duty[w] = 0
    /\ pc["chassis"] \in {"in2", "mode"} => in1[w] = In1(want)
    /\ pc["chassis"] = "mode" => in2[w] = In2(want)
    /\ pc["chassis"] \in {"full", "post"} => mode[w] = want /\ Consistent(w)
    /\ pc["chassis"] = "check" /\ want = "BRAKE" => duty[w] = Full
    /\ pc["chassis"] = "check" /\ want = "COAST" => duty[w] = 0

(* The inputs of a wheel the chassis task has not begun to switch. *)
InputsInv(w) ==
  ~(Busy("chassis", w) /\ pc["chassis"] \in {"blank", "in1", "in2", "mode"}) =>
    IF /\ Busy("control", w) /\ pc["control"] \in {"in2", "mode"}
       /\ mode[w] # StopMode
    THEN /\ in1[w] = In1(StopMode)
         /\ pc["control"] = "mode" => in2[w] = In2(StopMode)
    ELSE Consistent(w)

(* The duty of a wheel the control task is writing. *)
ControlInv(w) ==
  Busy("control", w) /\ ~Busy("chassis", w) =>
    /\ pc["control"] = "check" => duty[w] = StopDuty
    /\ pc["control"] \in {"in1", "in2", "mode"}
         => mode[w] = StopMode \/ duty[w] = 0
    /\ pc["control"] \in {"check", "blank", "in1", "in2", "mode"} /\ ~brakeActive
         => duty[w] = 0
    /\ pc["control"] = "full" => mode[w] = StopMode

(* The wheels the control task is done with.  A latched brake also outlives *)
(* the calls that leave the targets at zero.                               *)
Passed(w) ==
  \/ ~InMotor("control") /\ brakeActive
  \/ pc["control"] \in {"idle", "zero", "snap"} /\ call # "target"
  \/ InMotor("control") /\ w = "left" /\ wheel["control"] = "right"

DoneInv(w) == Passed(w) => SettledStop(w)

WheelInv(w) == ChassisInv(w) /\ InputsInv(w) /\ ControlInv(w) /\ DoneInv(w)

StepInv == CallInv /\ ArgInv /\ \A w \in Wheels : WheelInv(w)

IInv == TypeOK /\ StepInv

-------------------------------------------------------------------------------
LEMMA ZeroRange ==
  /\ Zero \in [Wheels -> Targets]
  /\ Zero \in [Wheels -> Outputs]
  /\ \A w \in Wheels : Zero[w] = 0
  BY ChassisAssumption DEF Zero, Targets, Outputs

LEMMA ClampRange ==
  ASSUME NEW bound \in Nat, NEW s \in Int
  PROVE  Clamp(bound, s) \in (-bound) .. bound
  BY DEF Clamp

LEMMA MixedRange ==
  ASSUME TypeOK, NEW f \in Int, NEW n \in Int
  PROVE  Mixed(f, n) \in [Wheels -> Targets]
<1> DEFINE ask(w) == IF w = "left" THEN f + n ELSE f - n
<1>1. ASSUME NEW w \in Wheels
      PROVE  SlewTarget(target[w], Clamp(Rated, ask(w))) \in Targets
  <2>1. Clamp(Rated, ask(w)) \in Targets
    BY ClampRange, ChassisAssumption DEF Targets
  <2>2. target[w] \in Targets
    BY DEF TypeOK
  <2> HIDE DEF ask
  <2> QED
    BY <2>1, <2>2, ChassisAssumption DEF SlewTarget, Targets
<1> QED
  BY <1>1 DEF Mixed

LEMMA DutyRange == 0 \in Duties /\ Full \in Duties
  BY ChassisAssumption DEF Duties

LEMMA InitType == Init => TypeOK
<1> SUFFICES ASSUME Init
             PROVE  TypeOK
  OBVIOUS
<1>1. duty \in [Wheels -> Duties]
  BY DutyRange DEF Init, Zero
<1>2. braking \in [Tasks -> BOOLEAN] /\ drive \in [Tasks -> [Wheels -> Outputs]]
  BY ZeroRange DEF Init
<1>3. wheel \in [Tasks -> Wheels] /\ pc \in [Tasks -> Steps]
  BY DEF Init, Wheels, Steps
<1>5. in1 \in [Wheels -> {0, 1}] /\ in2 \in [Wheels -> {0, 1}]
  BY DEF Init, Zero
<1>4. snapshot \in [speed : [Wheels -> Outputs], target : [Wheels -> Targets],
                   output : [Wheels -> Outputs]]
  BY ZeroRange DEF Init
<1> QED
  BY <1>1, <1>2, <1>3, <1>4, <1>5, ZeroRange DEF Init, TypeOK, Modes

(* The arguments of the motor calls keep their types through NextWheel and *)
(* AfterMode.                                                              *)
LEMMA NextWheelType ==
  ASSUME TypeOK, NEW t \in Tasks, NextWheel(t)
  PROVE  /\ pc' \in [Tasks -> Steps]
         /\ wheel' \in [Tasks -> Wheels]
         /\ braking' \in [Tasks -> BOOLEAN]
         /\ drive' \in [Tasks -> [Wheels -> Outputs]]
<1> USE DEF NextWheel, TypeOK
<1>1. pc' \in [Tasks -> Steps] /\ wheel' \in [Tasks -> Wheels]
  BY DEF Goto, Wheels, Steps
<1>2. braking' \in [Tasks -> BOOLEAN]
  BY Zenon
<1>3. drive' \in [Tasks -> [Wheels -> Outputs]]
  BY ZeroRange
<1> QED
  BY <1>1, <1>2, <1>3

LEMMA StartMotorsType ==
  ASSUME TypeOK, NEW t \in Tasks, NEW brake \in BOOLEAN,
         NEW speeds \in [Wheels -> Outputs], StartMotors(t, brake, speeds)
  PROVE  /\ pc' \in [Tasks -> Steps]
         /\ wheel' \in [Tasks -> Wheels]
         /\ braking' \in [Tasks -> BOOLEAN]
         /\ drive' \in [Tasks -> [Wheels -> Outputs]]
<1> USE DEF StartMotors, TypeOK
<1>1. pc' \in [Tasks -> Steps] /\ wheel' \in [Tasks -> Wheels]
  BY DEF Goto, Wheels, Steps
<1>2. braking' \in [Tasks -> BOOLEAN]
  BY Zenon
<1>3. drive' \in [Tasks -> [Wheels -> Outputs]]
  OBVIOUS
<1> QED
  BY <1>1, <1>2, <1>3

LEMMA AfterModeType ==
  ASSUME TypeOK, NEW t \in Tasks, AfterMode(t)
  PROVE  /\ pc' \in [Tasks -> Steps]
         /\ wheel' \in [Tasks -> Wheels]
         /\ braking' \in [Tasks -> BOOLEAN]
         /\ drive' \in [Tasks -> [Wheels -> Outputs]]
  BY NextWheelType DEF AfterMode, Goto, argVars, TypeOK, Steps

LEMMA TypeStep == TypeOK /\ [Next]_vars => TypeOK'
<1> SUFFICES ASSUME TypeOK, [Next]_vars
             PROVE  TypeOK'
  OBVIOUS
<1> USE DEF goalVars, motorVars, bridgeVars, argVars, Goto, At
<1>1. ASSUME NEW name \in {"target", "stop", "brake"}, NEW t \in [Wheels -> Targets],
             Enter(name, t)
      PROVE  TypeOK'
  BY <1>1 DEF TypeOK, Enter, WriteTargets, Tasks, Steps
<1>2. CASE Call
  <2>2. ASSUME NEW l \in Inputs, NEW r \in Inputs, SetTargetSpeed(l, r)
        PROVE  TypeOK'
    BY <2>2, <1>1, ClampRange, ChassisAssumption DEF SetTargetSpeed, Targets
  <2>3. ASSUME NEW l \in Inputs, NEW r \in Inputs, SetTargetVelocity(l, r)
        PROVE  TypeOK'
    BY <2>3, <1>1, MixedRange, ChassisAssumption DEF SetTargetVelocity
  <2> QED
    BY <1>2, <1>1, ZeroRange, <2>2, <2>3 DEF Call, Stop, Brake
<1>3. CASE TargetsSnapshot
  BY <1>3 DEF TargetsSnapshot, UpdateSnapshot, TypeOK, Tasks, Steps
<1>4. CASE Latch \/ StopBranch
  <2>1. /\ pc' \in [Tasks -> Steps]
        /\ wheel' \in [Tasks -> Wheels]
        /\ braking' \in [Tasks -> BOOLEAN]
        /\ drive' \in [Tasks -> [Wheels -> Outputs]]
    BY <1>4, ZeroRange, StartMotorsType DEF Latch, StopBranch, TypeOK, Tasks
  <2> QED
    BY <1>4, <2>1 DEF Latch, StopBranch, TypeOK
<1>5. CASE ZeroOutputs
  BY <1>5, ZeroRange DEF ZeroOutputs, TypeOK, Tasks, Steps
<1>6. ASSUME NEW t \in Tasks, FinalSnapshot(t)
      PROVE  TypeOK'
  BY <1>6 DEF FinalSnapshot, UpdateSnapshot, TypeOK, Tasks, Steps
<1>7. CASE UpdateEncoder
  BY <1>7 DEF UpdateEncoder, UpdateSnapshot, TypeOK, Tasks, Steps
<1>8. CASE SpeedControlRun
  BY <1>8 DEF SpeedControlRun, StartMotors, TypeOK, Tasks, Wheels, Steps
<1>9. ASSUME NEW t \in Tasks, MotorStep(t)
      PROVE  TypeOK'
  <2>1. CASE MotorSpeed(t)
    <3>1. drive[t][wheel[t]] \in Outputs
      BY DEF TypeOK
    <3>2. pc' \in [Tasks -> Steps]
      BY <2>1 DEF MotorSpeed, TypeOK, Steps
    <3> QED
      BY <2>1, <3>1, <3>2 DEF MotorSpeed, TypeOK
  <2>2. CASE PreDuty(t) \/ Blank(t)
    <3>1. (IF braking[t] THEN Full ELSE 0) \in Duties
      BY DutyRange
    <3>2. duty' \in [Wheels -> Duties]
      BY <2>2, <3>1, DutyRange DEF PreDuty, Blank, TypeOK
    <3>3. pc' \in [Tasks -> Steps]
      BY <2>2 DEF PreDuty, Blank, TypeOK, Steps
    <3> QED
      BY <2>2, <3>2, <3>3 DEF PreDuty, Blank, TypeOK
  <2>3. CASE CheckMode(t)
    BY <2>3, AfterModeType DEF CheckMode, TypeOK, Steps
  <2>4. CASE WriteIn1(t) \/ WriteIn2(t)
    <3>1. In1(Wanted(t)) \in {0, 1} /\ In2(Wanted(t)) \in {0, 1}
      BY DEF In1, In2
    <3>2. pc' \in [Tasks -> Steps]
      BY <2>4 DEF WriteIn1, WriteIn2, TypeOK, Steps
    <3>3. in1' \in [Wheels -> {0, 1}] /\ in2' \in [Wheels -> {0, 1}]
      BY <2>4, <3>1 DEF WriteIn1, WriteIn2, TypeOK
    <3> QED
      BY <2>4, <3>2, <3>3 DEF WriteIn1, WriteIn2, TypeOK
  <2>5. CASE WriteMode(t)
    BY <2>5, AfterModeType DEF WriteMode, Wanted, ModeOf, Modes, TypeOK, Steps
  <2>6. CASE FullDuty(t)
    BY <2>6, AfterModeType, DutyRange DEF FullDuty, TypeOK
  <2>7. CASE PostDuty(t)
    <3>1. Magnitude(drive[t][wheel[t]]) \in Duties
      BY ChassisAssumption DEF Magnitude, TypeOK, Outputs, Duties
    <3> QED
      BY <2>7, <3>1, NextWheelType DEF PostDuty, TypeOK
  <2> QED
    BY <1>9, <2>1, <2>2, <2>3, <2>4, <2>5, <2>6, <2>7 DEF MotorStep
<1>10. CASE UNCHANGED vars
  BY <1>10 DEF vars, TypeOK
<1> QED
  BY <1>2, <1>3, <1>4, <1>5, <1>6, <1>7, <1>8, <1>9, <1>10
  DEF Next, Control, ChassisTask, Tasks

(* Speeds, targets and duties stay in range whatever the control task asks *)
(* for (app_chassis.c:105-120, bsp_tb6612.c:64-83).                        *)
THEOREM TypeCorrect == Spec => []TypeOK
  BY InitType, TypeStep, PTL DEF Spec

-------------------------------------------------------------------------------
LEMMA InitInv == Init => IInv
<1> SUFFICES ASSUME Init
             PROVE  IInv
  OBVIOUS
<1> USE DEF Init, Tasks, Wheels
<1>1. CallInv
  BY DEF CallInv, MotorSteps, LatchOnlyAtStandstill
<1>2. ArgInv
  BY ZeroRange DEF ArgInv, InMotor, MotorSteps
<1>3. ASSUME NEW w \in Wheels
      PROVE  WheelInv(w)
  BY ZeroRange
  DEF WheelInv, ChassisInv, InputsInv, ControlInv, DoneInv, SettledStop, Consistent, In1, In2,
      StopMode, StopDuty, Busy, InMotor, MotorSteps
<1> QED
  BY <1>1, <1>2, <1>3, InitType DEF IInv, StepInv

(* One write of a motor call of the control task: the chassis task is      *)
(* idle, so only the control task's own wheel is concerned.                *)

USE DEF MotorSteps, InMotor, Busy, Tasks, Wheels, goalVars, motorVars, bridgeVars,
        argVars, Goto, At, Runs

(* A write of the control task: the chassis task is idle.                  *)
LEMMA ControlMotorStep == IInv /\ MotorStep("control") => StepInv'
<1> SUFFICES ASSUME IInv, MotorStep("control")
             PROVE  StepInv'
  OBVIOUS
<1> USE ZeroRange
<1> USE DEF IInv, StepInv, WheelInv, CallInv, ArgInv, TypeOK, ChassisInv, InputsInv,
            ControlInv, Consistent, StopMode, StopDuty, Wanted, ModeOf
<1>1. CASE MotorSpeed("control")
  <2> USE DEF MotorSpeed, AfterMode, NextWheel
  <2>1. CallInv' /\ ArgInv'
    BY <1>1, SMTT(30) DEF LatchOnlyAtStandstill, Moving
  <2>2. \A w \in Wheels : ChassisInv(w)' /\ ControlInv(w)'
    BY <1>1, <2>1, SMTT(30) DEF LatchOnlyAtStandstill
  <2>3. \A w \in Wheels : InputsInv(w)'
    BY <1>1, SMTT(30)
  <2>4. \A w \in Wheels : DoneInv(w)'
    BY <1>1, SMTT(30) DEF DoneInv, Passed, SettledStop
  <2> QED
    BY <2>1, <2>2, <2>3, <2>4
<1>2. CASE PreDuty("control")
  <2> USE DEF PreDuty, AfterMode, NextWheel
  <2>1. CallInv' /\ ArgInv'
    BY <1>2, SMTT(30) DEF LatchOnlyAtStandstill, Moving
  <2>2. \A w \in Wheels : ChassisInv(w)' /\ ControlInv(w)'
    BY <1>2, <2>1, SMTT(30) DEF LatchOnlyAtStandstill
  <2>3. \A w \in Wheels : InputsInv(w)'
    BY <1>2, SMTT(30)
  <2>4. \A w \in Wheels : DoneInv(w)'
    BY <1>2, SMTT(30) DEF DoneInv, Passed, SettledStop
  <2> QED
    BY <2>1, <2>2, <2>3, <2>4
<1>3. CASE CheckMode("control")
  <2> USE DEF CheckMode, AfterMode, NextWheel
  <2>1. CallInv' /\ ArgInv'
    BY <1>3, SMTT(30) DEF LatchOnlyAtStandstill, Moving
  <2>2. \A w \in Wheels : ChassisInv(w)' /\ ControlInv(w)'
    BY <1>3, <2>1, SMTT(30) DEF LatchOnlyAtStandstill
  <2>3. \A w \in Wheels : InputsInv(w)'
    BY <1>3, SMTT(30)
  <2>4. \A w \in Wheels : DoneInv(w)'
    BY <1>3, SMTT(30) DEF DoneInv, Passed, SettledStop
  <2> QED
    BY <2>1, <2>2, <2>3, <2>4
<1>4. CASE Blank("control")
  <2> USE DEF Blank, AfterMode, NextWheel
  <2>1. CallInv' /\ ArgInv'
    BY <1>4, SMTT(30) DEF LatchOnlyAtStandstill, Moving
  <2>2. \A w \in Wheels : ChassisInv(w)' /\ ControlInv(w)'
    BY <1>4, <2>1, SMTT(30) DEF LatchOnlyAtStandstill
  <2>3. \A w \in Wheels : InputsInv(w)'
    BY <1>4, SMTT(30)
  <2>4. \A w \in Wheels : DoneInv(w)'
    BY <1>4, SMTT(30) DEF DoneInv, Passed, SettledStop
  <2> QED
    BY <2>1, <2>2, <2>3, <2>4
<1>5. CASE WriteIn1("control")
  <2> USE DEF WriteIn1, AfterMode, NextWheel
  <2>1. CallInv' /\ ArgInv'
    BY <1>5, SMTT(30) DEF LatchOnlyAtStandstill, Moving
  <2>2. \A w \in Wheels : ChassisInv(w)' /\ ControlInv(w)'
    BY <1>5, <2>1, SMTT(30) DEF LatchOnlyAtStandstill
  <2>3. \A w \in Wheels : InputsInv(w)'
    BY <1>5, SMTT(30)
  <2>4. \A w \in Wheels : DoneInv(w)'
    BY <1>5, SMTT(30) DEF DoneInv, Passed, SettledStop
  <2> QED
    BY <2>1, <2>2, <2>3, <2>4
<1>6. CASE WriteIn2("control")
  <2> USE DEF WriteIn2, AfterMode, NextWheel
  <2>1. CallInv' /\ ArgInv'
    BY <1>6, SMTT(30) DEF LatchOnlyAtStandstill, Moving
  <2>2. \A w \in Wheels : ChassisInv(w)' /\ ControlInv(w)'
    BY <1>6, <2>1, SMTT(30) DEF LatchOnlyAtStandstill
  <2>3. \A w \in Wheels : InputsInv(w)'
    BY <1>6, SMTT(30)
  <2>4. \A w \in Wheels : DoneInv(w)'
    BY <1>6, SMTT(30) DEF DoneInv, Passed, SettledStop
  <2> QED
    BY <2>1, <2>2, <2>3, <2>4
<1>7. CASE WriteMode("control")
  <2> USE DEF WriteMode, AfterMode, NextWheel
  <2>1. CallInv' /\ ArgInv'
    BY <1>7, SMTT(30) DEF LatchOnlyAtStandstill, Moving
  <2>2. \A w \in Wheels : ChassisInv(w)' /\ ControlInv(w)'
    BY <1>7, <2>1, SMTT(30) DEF LatchOnlyAtStandstill
  <2>3. \A w \in Wheels : InputsInv(w)'
    BY <1>7, SMTT(30)
  <2>4. \A w \in Wheels : DoneInv(w)'
    BY <1>7, SMTT(30) DEF DoneInv, Passed, SettledStop
  <2> QED
    BY <2>1, <2>2, <2>3, <2>4
<1>8. CASE FullDuty("control")
  <2> USE DEF FullDuty, AfterMode, NextWheel
  <2>1. CallInv' /\ ArgInv'
    BY <1>8, SMTT(30) DEF LatchOnlyAtStandstill, Moving
  <2>2. \A w \in Wheels : ChassisInv(w)' /\ ControlInv(w)'
    BY <1>8, <2>1, SMTT(30) DEF LatchOnlyAtStandstill
  <2>3. \A w \in Wheels : InputsInv(w)'
    BY <1>8, SMTT(30)
  <2>4. \A w \in Wheels : DoneInv(w)'
    BY <1>8, SMTT(30) DEF DoneInv, Passed, SettledStop
  <2> QED
    BY <2>1, <2>2, <2>3, <2>4
<1>9. CASE PostDuty("control")
  <2> USE DEF PostDuty, AfterMode, NextWheel
  <2>1. CallInv' /\ ArgInv'
    BY <1>9, SMTT(30) DEF LatchOnlyAtStandstill, Moving
  <2>2. \A w \in Wheels : ChassisInv(w)' /\ ControlInv(w)'
    BY <1>9, <2>1, SMTT(30) DEF LatchOnlyAtStandstill
  <2>3. \A w \in Wheels : InputsInv(w)'
    BY <1>9, SMTT(30)
  <2>4. \A w \in Wheels : DoneInv(w)'
    BY <1>9, SMTT(30) DEF DoneInv, Passed, SettledStop
  <2> QED
    BY <2>1, <2>2, <2>3, <2>4
<1> QED
  BY <1>1, <1>2, <1>3, <1>4, <1>5, <1>6, <1>7, <1>8, <1>9 DEF MotorStep

(* A write of the chassis task: the control task may be stopped anywhere,  *)
(* and if it is inside a motor call both want the same mode.               *)
LEMMA ChassisMotorStep == IInv /\ MotorStep("chassis") => StepInv'
<1> SUFFICES ASSUME IInv, MotorStep("chassis")
             PROVE  StepInv'
  OBVIOUS
<1> USE ZeroRange
<1> USE DEF IInv, StepInv, WheelInv, CallInv, ArgInv, TypeOK, ChassisInv, InputsInv,
            ControlInv, Consistent, StopMode, StopDuty, Wanted, ModeOf
<1>1. CASE MotorSpeed("chassis")
  <2> USE DEF MotorSpeed, AfterMode, NextWheel
  <2>1. CallInv' /\ ArgInv'
    BY <1>1, SMTT(30) DEF LatchOnlyAtStandstill, Moving
  <2>2. \A w \in Wheels : ChassisInv(w)' /\ ControlInv(w)'
    BY <1>1, <2>1, SMTT(30) DEF LatchOnlyAtStandstill
  <2>3. \A w \in Wheels : InputsInv(w)'
    BY <1>1, SMTT(30)
  <2>4. \A w \in Wheels : DoneInv(w)'
    BY <1>1, SMTT(30) DEF DoneInv, Passed, SettledStop
  <2> QED
    BY <2>1, <2>2, <2>3, <2>4
<1>2. CASE PreDuty("chassis")
  <2> USE DEF PreDuty, AfterMode, NextWheel
  <2>1. CallInv' /\ ArgInv'
    BY <1>2, SMTT(30) DEF LatchOnlyAtStandstill, Moving
  <2>2. \A w \in Wheels : ChassisInv(w)' /\ ControlInv(w)'
    BY <1>2, <2>1, SMTT(30) DEF LatchOnlyAtStandstill
  <2>3. \A w \in Wheels : InputsInv(w)'
    BY <1>2, SMTT(30)
  <2>4. \A w \in Wheels : DoneInv(w)'
    BY <1>2, SMTT(30) DEF DoneInv, Passed, SettledStop
  <2> QED
    BY <2>1, <2>2, <2>3, <2>4
<1>3. CASE CheckMode("chassis")
  <2> USE DEF CheckMode, AfterMode, NextWheel
  <2>1. CallInv' /\ ArgInv'
    BY <1>3, SMTT(30) DEF LatchOnlyAtStandstill, Moving
  <2>2. \A w \in Wheels : ChassisInv(w)' /\ ControlInv(w)'
    BY <1>3, <2>1, SMTT(30) DEF LatchOnlyAtStandstill
  <2>3. \A w \in Wheels : InputsInv(w)'
    BY <1>3, SMTT(30)
  <2>4. \A w \in Wheels : DoneInv(w)'
    BY <1>3, SMTT(30) DEF DoneInv, Passed, SettledStop
  <2> QED
    BY <2>1, <2>2, <2>3, <2>4
<1>4. CASE Blank("chassis")
  <2> USE DEF Blank, AfterMode, NextWheel
  <2>1. CallInv' /\ ArgInv'
    BY <1>4, SMTT(30) DEF LatchOnlyAtStandstill, Moving
  <2>2. \A w \in Wheels : ChassisInv(w)' /\ ControlInv(w)'
    BY <1>4, <2>1, SMTT(30) DEF LatchOnlyAtStandstill
  <2>3. \A w \in Wheels : InputsInv(w)'
    BY <1>4, SMTT(30)
  <2>4. \A w \in Wheels : DoneInv(w)'
    BY <1>4, SMTT(30) DEF DoneInv, Passed, SettledStop
  <2> QED
    BY <2>1, <2>2, <2>3, <2>4
<1>5. CASE WriteIn1("chassis")
  <2> USE DEF WriteIn1, AfterMode, NextWheel
  <2>1. CallInv' /\ ArgInv'
    BY <1>5, SMTT(30) DEF LatchOnlyAtStandstill, Moving
  <2>2. \A w \in Wheels : ChassisInv(w)' /\ ControlInv(w)'
    BY <1>5, <2>1, SMTT(30) DEF LatchOnlyAtStandstill
  <2>3. \A w \in Wheels : InputsInv(w)'
    BY <1>5, SMTT(30)
  <2>4. \A w \in Wheels : DoneInv(w)'
    BY <1>5, SMTT(30) DEF DoneInv, Passed, SettledStop
  <2> QED
    BY <2>1, <2>2, <2>3, <2>4
<1>6. CASE WriteIn2("chassis")
  <2> USE DEF WriteIn2, AfterMode, NextWheel
  <2>1. CallInv' /\ ArgInv'
    BY <1>6, SMTT(30) DEF LatchOnlyAtStandstill, Moving
  <2>2. \A w \in Wheels : ChassisInv(w)' /\ ControlInv(w)'
    BY <1>6, <2>1, SMTT(30) DEF LatchOnlyAtStandstill
  <2>3. \A w \in Wheels : InputsInv(w)'
    BY <1>6, SMTT(30)
  <2>4. \A w \in Wheels : DoneInv(w)'
    BY <1>6, SMTT(30) DEF DoneInv, Passed, SettledStop
  <2> QED
    BY <2>1, <2>2, <2>3, <2>4
<1>7. CASE WriteMode("chassis")
  <2> USE DEF WriteMode, AfterMode, NextWheel
  <2>1. CallInv' /\ ArgInv'
    BY <1>7, SMTT(30) DEF LatchOnlyAtStandstill, Moving
  <2>2. \A w \in Wheels : ChassisInv(w)' /\ ControlInv(w)'
    BY <1>7, <2>1, SMTT(30) DEF LatchOnlyAtStandstill
  <2>3. \A w \in Wheels : InputsInv(w)'
    BY <1>7, SMTT(30)
  <2>4. \A w \in Wheels : DoneInv(w)'
    BY <1>7, SMTT(30) DEF DoneInv, Passed, SettledStop
  <2> QED
    BY <2>1, <2>2, <2>3, <2>4
<1>8. CASE FullDuty("chassis")
  <2> USE DEF FullDuty, AfterMode, NextWheel
  <2>1. CallInv' /\ ArgInv'
    BY <1>8, SMTT(30) DEF LatchOnlyAtStandstill, Moving
  <2>2. \A w \in Wheels : ChassisInv(w)' /\ ControlInv(w)'
    BY <1>8, <2>1, SMTT(30) DEF LatchOnlyAtStandstill
  <2>3. \A w \in Wheels : InputsInv(w)'
    BY <1>8, SMTT(30)
  <2>4. \A w \in Wheels : DoneInv(w)'
    BY <1>8, SMTT(30) DEF DoneInv, Passed, SettledStop
  <2> QED
    BY <2>1, <2>2, <2>3, <2>4
<1>9. CASE PostDuty("chassis")
  <2> USE DEF PostDuty, AfterMode, NextWheel
  <2>1. CallInv' /\ ArgInv'
    BY <1>9, SMTT(30) DEF LatchOnlyAtStandstill, Moving
  <2>2. \A w \in Wheels : ChassisInv(w)' /\ ControlInv(w)'
    BY <1>9, <2>1, SMTT(30) DEF LatchOnlyAtStandstill
  <2>3. \A w \in Wheels : InputsInv(w)'
    BY <1>9, SMTT(30)
  <2>4. \A w \in Wheels : DoneInv(w)'
    BY <1>9, SMTT(30) DEF DoneInv, Passed, SettledStop
  <2> QED
    BY <2>1, <2>2, <2>3, <2>4
<1> QED
  BY <1>1, <1>2, <1>3, <1>4, <1>5, <1>6, <1>7, <1>8, <1>9 DEF MotorStep

(* The other steps of the control task. *)
LEMMA ControlStep == IInv /\ (TargetsSnapshot \/ Latch \/ StopBranch \/ ZeroOutputs \/ FinalSnapshot("control")) => StepInv'
<1> SUFFICES ASSUME IInv, (TargetsSnapshot \/ Latch \/ StopBranch \/ ZeroOutputs \/ FinalSnapshot("control"))
             PROVE  StepInv'
  OBVIOUS
<1> USE ZeroRange
<1> USE DEF IInv, StepInv, WheelInv, CallInv, ArgInv, TypeOK, ChassisInv, InputsInv,
            ControlInv, Consistent, StopMode, StopDuty, Wanted, ModeOf
<1>1. CASE TargetsSnapshot
  <2> USE DEF TargetsSnapshot
  <2>1. CallInv' /\ ArgInv'
    BY <1>1, SMTT(30) DEF LatchOnlyAtStandstill, Moving
  <2>2. \A w \in Wheels : ChassisInv(w)' /\ ControlInv(w)'
    BY <1>1, <2>1, SMTT(30) DEF LatchOnlyAtStandstill
  <2>3. \A w \in Wheels : InputsInv(w)'
    BY <1>1, SMTT(30)
  <2>4. \A w \in Wheels : DoneInv(w)'
    BY <1>1, SMTT(30) DEF DoneInv, Passed, SettledStop
  <2> QED
    BY <2>1, <2>2, <2>3, <2>4
<1>2. CASE Latch
  <2> USE DEF Latch, StartMotors
  <2>1. CallInv' /\ ArgInv'
    <3>1. /\ pc["control"] = "latch" /\ pc["chassis"] = "idle" /\ target = Zero
          /\ brakeActive' /\ braking'["control"] /\ ~braking'["chassis"]
      BY <1>2
    <3>2. CallInv'
      BY <1>2, <3>1, ZeroRange, SMTT(30) DEF LatchOnlyAtStandstill, Moving
    <3>3. \A t \in Tasks : InMotor(t)' => (braking[t] <=> brakeActive)'
      BY <1>2, <3>1, SMTT(30)
    <3> QED
      BY <1>2, <3>1, <3>2, <3>3, ZeroRange, SMTT(30) DEF Wanted, ModeOf
  <2>2. \A w \in Wheels : ChassisInv(w)' /\ ControlInv(w)'
    BY <1>2, <2>1, SMTT(30) DEF LatchOnlyAtStandstill
  <2>3. \A w \in Wheels : InputsInv(w)'
    BY <1>2, SMTT(30)
  <2>4. \A w \in Wheels : DoneInv(w)'
    BY <1>2, SMTT(30) DEF DoneInv, Passed, SettledStop
  <2> QED
    BY <2>1, <2>2, <2>3, <2>4
<1>3. CASE StopBranch
  <2> USE DEF StopBranch, StartMotors
  <2>1. CallInv' /\ ArgInv'
    BY <1>3, SMTT(30) DEF LatchOnlyAtStandstill, Moving
  <2>2. \A w \in Wheels : ChassisInv(w)' /\ ControlInv(w)'
    BY <1>3, <2>1, SMTT(30) DEF LatchOnlyAtStandstill
  <2>3. \A w \in Wheels : InputsInv(w)'
    BY <1>3, SMTT(30)
  <2>4. \A w \in Wheels : DoneInv(w)'
    BY <1>3, SMTT(30) DEF DoneInv, Passed, SettledStop
  <2> QED
    BY <2>1, <2>2, <2>3, <2>4
<1>4. CASE ZeroOutputs
  <2> USE DEF ZeroOutputs
  <2>1. CallInv' /\ ArgInv'
    BY <1>4, SMTT(30) DEF LatchOnlyAtStandstill, Moving
  <2>2. \A w \in Wheels : ChassisInv(w)' /\ ControlInv(w)'
    BY <1>4, <2>1, SMTT(30) DEF LatchOnlyAtStandstill
  <2>3. \A w \in Wheels : InputsInv(w)'
    BY <1>4, SMTT(30)
  <2>4. \A w \in Wheels : DoneInv(w)'
    BY <1>4, SMTT(30) DEF DoneInv, Passed, SettledStop
  <2> QED
    BY <2>1, <2>2, <2>3, <2>4
<1>5. CASE FinalSnapshot("control")
  <2> USE DEF FinalSnapshot
  <2>1. CallInv' /\ ArgInv'
    BY <1>5, SMTT(30) DEF LatchOnlyAtStandstill, Moving
  <2>2. \A w \in Wheels : ChassisInv(w)' /\ ControlInv(w)'
    BY <1>5, <2>1, SMTT(30) DEF LatchOnlyAtStandstill
  <2>3. \A w \in Wheels : InputsInv(w)'
    BY <1>5, SMTT(30)
  <2>4. \A w \in Wheels : DoneInv(w)'
    BY <1>5, SMTT(30) DEF DoneInv, Passed, SettledStop
  <2> QED
    BY <2>1, <2>2, <2>3, <2>4
<1> QED
  BY <1>1, <1>2, <1>3, <1>4, <1>5 DEF Control

(* The other steps of the chassis task. *)
LEMMA ChassisStep == IInv /\ (UpdateEncoder \/ SpeedControlRun \/ FinalSnapshot("chassis")) => StepInv'
<1> SUFFICES ASSUME IInv, (UpdateEncoder \/ SpeedControlRun \/ FinalSnapshot("chassis"))
             PROVE  StepInv'
  OBVIOUS
<1> USE ZeroRange
<1> USE DEF IInv, StepInv, WheelInv, CallInv, ArgInv, TypeOK, ChassisInv, InputsInv,
            ControlInv, Consistent, StopMode, StopDuty, Wanted, ModeOf
<1>1. CASE UpdateEncoder
  <2> USE DEF UpdateEncoder
  <2>1. CallInv' /\ ArgInv'
    BY <1>1, SMTT(30) DEF LatchOnlyAtStandstill, Moving
  <2>2. \A w \in Wheels : ChassisInv(w)' /\ ControlInv(w)'
    BY <1>1, <2>1, SMTT(30) DEF LatchOnlyAtStandstill
  <2>3. \A w \in Wheels : InputsInv(w)'
    BY <1>1, SMTT(30)
  <2>4. \A w \in Wheels : DoneInv(w)'
    BY <1>1, SMTT(30) DEF DoneInv, Passed, SettledStop
  <2> QED
    BY <2>1, <2>2, <2>3, <2>4
<1>2. CASE SpeedControlRun
  <2> USE DEF SpeedControlRun, StartMotors
  <2>1. CallInv' /\ ArgInv'
    BY <1>2, SMTT(30) DEF LatchOnlyAtStandstill, Moving
  <2>2. \A w \in Wheels : ChassisInv(w)' /\ ControlInv(w)'
    BY <1>2, <2>1, SMTT(30) DEF LatchOnlyAtStandstill
  <2>3. \A w \in Wheels : InputsInv(w)'
    BY <1>2, SMTT(30)
  <2>4. \A w \in Wheels : DoneInv(w)'
    BY <1>2, SMTT(30) DEF DoneInv, Passed, SettledStop
  <2> QED
    BY <2>1, <2>2, <2>3, <2>4
<1>3. CASE FinalSnapshot("chassis")
  <2> USE DEF FinalSnapshot
  <2>1. CallInv' /\ ArgInv'
    BY <1>3, SMTT(30) DEF LatchOnlyAtStandstill, Moving
  <2>2. \A w \in Wheels : ChassisInv(w)' /\ ControlInv(w)'
    BY <1>3, <2>1, SMTT(30) DEF LatchOnlyAtStandstill
  <2>3. \A w \in Wheels : InputsInv(w)'
    BY <1>3, SMTT(30)
  <2>4. \A w \in Wheels : DoneInv(w)'
    BY <1>3, SMTT(30) DEF DoneInv, Passed, SettledStop
  <2> QED
    BY <2>1, <2>2, <2>3, <2>4
<1> QED
  BY <1>1, <1>2, <1>3 DEF ChassisTask

(* A call of the control task writes the targets, with the chassis task    *)
(* idle.                                                                   *)
LEMMA CallStep ==
  ASSUME IInv, NEW name \in {"target", "stop", "brake"},
         NEW t \in [Wheels -> Targets], name # "target" => t = Zero, Enter(name, t)
  PROVE  StepInv'
<1> USE DEF IInv, StepInv, WheelInv, CallInv, ArgInv, TypeOK, Enter, WriteTargets
<1>1. CallInv' /\ ArgInv'
  BY ZeroRange, SMTT(30) DEF LatchOnlyAtStandstill, Moving, Wanted, ModeOf
<1>2. \A w \in Wheels : ChassisInv(w)' /\ ControlInv(w)' /\ InputsInv(w)'
  BY <1>1, ZeroRange, SMTT(30)
  DEF ControlInv, ChassisInv, InputsInv, Consistent, StopMode, StopDuty, Wanted, ModeOf,
      LatchOnlyAtStandstill
<1>3. \A w \in Wheels : DoneInv(w)'
  BY ZeroRange, SMTT(30)
  DEF DoneInv, Passed, SettledStop, Consistent, StopMode, StopDuty, LatchOnlyAtStandstill
<1> QED
  BY <1>1, <1>2, <1>3

LEMMA Inductive == IInv /\ [Next]_vars => IInv'
<1> SUFFICES ASSUME IInv, [Next]_vars
             PROVE  IInv'
  OBVIOUS
<1>1. TypeOK'
  BY TypeStep DEF IInv
<1>2. CASE Call
  <2>1. ASSUME NEW l \in Inputs, NEW r \in Inputs, SetTargetSpeed(l, r)
        PROVE  StepInv'
    BY <2>1, CallStep, ClampRange, ChassisAssumption DEF SetTargetSpeed, Targets
  <2>2. ASSUME NEW l \in Inputs, NEW r \in Inputs, SetTargetVelocity(l, r)
        PROVE  StepInv'
    BY <2>2, CallStep, MixedRange, ChassisAssumption DEF SetTargetVelocity, IInv
  <2>3. ASSUME Stop \/ Brake
        PROVE  StepInv'
    BY <2>3, CallStep, ZeroRange DEF Stop, Brake
  <2>4. StepInv'
    BY <1>2, <2>1, <2>2, <2>3 DEF Call
  <2> QED
    BY <1>1, <2>4 DEF IInv
<1>3. CASE Control
  BY <1>1, <1>3, ControlStep, ControlMotorStep DEF Control, IInv
<1>4. CASE ChassisTask
  BY <1>1, <1>4, ChassisStep, ChassisMotorStep DEF ChassisTask, IInv
<1>5. CASE UNCHANGED vars
  <2>1. StepInv'
    BY <1>5
    DEF vars, IInv, StepInv, WheelInv, CallInv, ArgInv, ChassisInv, InputsInv, ControlInv,
        DoneInv, Passed, SettledStop, Consistent, StopMode, StopDuty, Wanted, ModeOf,
        LatchOnlyAtStandstill, Moving
  <2> QED
    BY <1>1, <2>1 DEF IInv
<1> QED
  BY <1>2, <1>3, <1>4, <1>5 DEF Next

THEOREM Invariance == Spec => []IInv
  BY InitInv, Inductive, PTL DEF Spec

-------------------------------------------------------------------------------
(* Once Stop or Brake has returned no wheel is driven until the next       *)
(* target, for every interleaving of the two tasks (app_chassis.c:435-462).*)
THEOREM StopIsSafe == Spec => []NoDriveAfterStop
<1>1. IInv => NoDriveAfterStop
  BY ChassisAssumption
  DEF IInv, StepInv, WheelInv, TypeOK, DoneInv, Passed, SettledStop, Consistent, StopMode,
      NoDriveAfterStop, Driven, In1, In2
<1> QED
  BY <1>1, Invariance, PTL

(* A braked car stays braked at full duty until it is driven again         *)
(* (app_chassis.c:370-374, bsp_tb6612.c:96-101).                           *)
THEOREM BrakeIsHeld == Spec => []BrakeHeld
<1>1. IInv => BrakeHeld
  BY ZeroRange
  DEF IInv, StepInv, WheelInv, TypeOK, CallInv, DoneInv, Passed, SettledStop, Consistent,
      StopMode, StopDuty, BrakeHeld, In1, In2
<1> QED
  BY <1>1, Invariance, PTL

(* The brake latch is set only while both targets are zero                 *)
(* (app_chassis.c:303-316, 453-457).                                       *)
THEOREM LatchIsReleased == Spec => []LatchOnlyAtStandstill
<1>1. IInv => LatchOnlyAtStandstill
  BY DEF IInv, StepInv, CallInv
<1> QED
  BY <1>1, Invariance, PTL

(* A direction input changes only under a blanked PWM, also when the two   *)
(* tasks are inside set_mode for the same bridge (bsp_tb6612.c:103).       *)
THEOREM SwitchingIsBlanked == Spec => BlankedSwitching
<1> DEFINE Blanked == \A w \in Wheels :
                        <<in1'[w], in2'[w]>> # <<in1[w], in2[w]>> => duty[w] = 0
<1>1. IInv /\ [Next]_vars => Blanked
  <2> SUFFICES ASSUME IInv, [Next]_vars
               PROVE  Blanked
    OBVIOUS
  <2> USE DEF IInv, StepInv, WheelInv, TypeOK
  <2>1. ASSUME NEW t \in Tasks, WriteIn1(t) \/ WriteIn2(t)
        PROVE  Blanked
    BY <2>1, ZeroRange, SMTT(30)
    DEF WriteIn1, WriteIn2, ArgInv, ChassisInv, ControlInv, InputsInv, Consistent, StopMode,
        Wanted, ModeOf
  <2>2. CASE in1' = in1 /\ in2' = in2
    BY <2>2
  <2>3. ASSUME NEW t \in Tasks, MotorStep(t)
        PROVE  Blanked
    BY <2>1, <2>2, <2>3
    DEF MotorStep, MotorSpeed, PreDuty, CheckMode, Blank, WriteMode, FullDuty, PostDuty
  <2> QED
    BY <2>2, <2>3
    DEF Next, Call, Control, ChassisTask, SetTargetSpeed, SetTargetVelocity, Stop, Brake,
        Enter, TargetsSnapshot, Latch, StopBranch, ZeroOutputs, FinalSnapshot,
        UpdateEncoder, SpeedControlRun, vars
<1> QED
  BY <1>1, Invariance, PTL DEF Spec, BlankedSwitching

-------------------------------------------------------------------------------
(* What the snapshot is copied from.  Once the control task has passed the *)
(* motor of a wheel its speed is zero and stays so, whatever the chassis   *)
(* task writes, because that task drives no wheel whose target is zero;    *)
(* and from ZeroOutputs on the outputs are zero.                           *)
SpeedPassed(w) ==
  \/ pc["control"] \in {"zero", "snap", "idle"}
  \/ InMotor("control") /\ w = "left" /\ wheel["control"] = "right"
  \/ Busy("control", w) /\ pc["control"] # "speed"

SnapInv ==
  call # "target" =>
    /\ \A w \in Wheels : SpeedPassed(w) => motorSpeed[w] = 0
    /\ pc["control"] \in {"snap", "idle"} => output = Zero
    /\ pc["control"] = "idle"
         => snapshot = [speed |-> Zero, target |-> Zero, output |-> Zero]

LEMMA SnapStep == IInv /\ SnapInv /\ [Next]_vars => SnapInv'
<1> SUFFICES ASSUME IInv, SnapInv, [Next]_vars
             PROVE  SnapInv'
  OBVIOUS
<1> USE ZeroRange
<1> USE DEF SnapInv, SpeedPassed
<1>1. /\ call # "target" => target = Zero
      /\ InMotor("control") => drive["control"] = Zero
      /\ \A w \in Wheels : target[w] = 0 => drive["chassis"][w] = 0
      /\ pc["control"] \notin {"idle", "targetsSnap"} => call # "target"
      /\ \A t \in Tasks : wheel[t] \in Wheels
      /\ ~InMotor("control") => wheel["control"] = "left"
  BY DEF IInv, StepInv, CallInv, ArgInv, TypeOK
<1>2. TypeOK
  BY DEF IInv
<1>3. CASE Call
  <2>1. pc' = [pc EXCEPT !["control"] = "targetsSnap"]
    BY <1>3 DEF Call, SetTargetSpeed, SetTargetVelocity, Stop, Brake, Enter
  <2> QED
    BY <1>2, <2>1 DEF TypeOK
<1>4. CASE TargetsSnapshot \/ Latch \/ StopBranch
  BY <1>2, <1>4, SMTT(30)
  DEF TargetsSnapshot, Latch, StopBranch, StartMotors, TypeOK
<1>5. CASE ZeroOutputs
  BY <1>2, <1>5, SMTT(30) DEF ZeroOutputs, TypeOK
<1>6. ASSUME NEW t \in Tasks, FinalSnapshot(t)
      PROVE  SnapInv'
  <2>1. call # "target" /\ pc["control"] \in {"snap", "idle"}
          => /\ motorSpeed = Zero
             /\ target = Zero
             /\ output = Zero
    BY <1>1, <1>2 DEF Zero, TypeOK
  <2> QED
    BY <1>2, <1>6, <2>1, SMTT(30) DEF FinalSnapshot, UpdateSnapshot, TypeOK
<1>7. CASE UpdateEncoder
  <2>1. call # "target" /\ pc["control"] \in {"snap", "idle"}
          => /\ motorSpeed = Zero
             /\ target = Zero
             /\ output = Zero
    BY <1>1, <1>2 DEF Zero, TypeOK
  <2> QED
    BY <1>2, <1>7, <2>1, SMTT(30) DEF UpdateEncoder, UpdateSnapshot, TypeOK
<1>8. CASE SpeedControlRun
  <2>1. target = Zero => output' = Zero
    BY <1>8 DEF SpeedControlRun, Zero
  <2> QED
    BY <1>1, <1>2, <1>8, <2>1, SMTT(30) DEF SpeedControlRun, StartMotors, TypeOK
<1>9. ASSUME NEW t \in Tasks, MotorStep(t)
      PROVE  SnapInv'
  <2>1. CASE MotorSpeed(t)
    <3>1. CASE t = "control"
      BY <1>1, <1>2, <2>1, <3>1, SMTT(30) DEF MotorSpeed, TypeOK
    <3>2. CASE t = "chassis"
      BY <1>1, <1>2, <2>1, <3>2, SMTT(30) DEF MotorSpeed, TypeOK
    <3> QED
      BY <3>1, <3>2
  <2>2. CASE PreDuty(t) \/ Blank(t) \/ WriteIn1(t) \/ WriteIn2(t)
    BY <1>2, <2>2, SMTT(30) DEF PreDuty, Blank, WriteIn1, WriteIn2, TypeOK
  <2>3. ASSUME AfterMode(t) \/ NextWheel(t),
               pc[t] \in MotorSteps \ {"speed"},
               UNCHANGED <<motorSpeed, output, snapshot, call>>
        PROVE  SnapInv'
    BY <1>2, <2>3, SMTT(30) DEF AfterMode, NextWheel, TypeOK
  <2>4. CASE CheckMode(t) \/ WriteMode(t)
    BY <1>2, <2>3, <2>4, SMTT(30) DEF CheckMode, WriteMode, TypeOK
  <2>5. CASE FullDuty(t) \/ PostDuty(t)
    BY <2>3, <2>5 DEF FullDuty, PostDuty
  <2> QED
    BY <1>9, <2>1, <2>2, <2>4, <2>5 DEF MotorStep
<1>10. CASE UNCHANGED vars
  BY <1>10 DEF vars
<1> QED
  BY <1>3, <1>4, <1>5, <1>6, <1>7, <1>8, <1>9, <1>10 DEF Next, Control, ChassisTask

(* What the other tasks read as the state of the drive is a standstill     *)
(* once Stop or Brake has returned, wherever the 10 ms task preempted it   *)
(* (app_chassis.c:450, 461, 423).                                          *)
THEOREM SnapshotIsTrue == Spec => []SnapshotShowsStop
<1>1. Init => SnapInv
  BY ZeroRange DEF Init, SnapInv
<1>2. SnapInv => SnapshotShowsStop
  BY DEF SnapInv, SnapshotShowsStop
<1> QED
  BY <1>1, <1>2, SnapStep, Invariance, PTL DEF Spec

-------------------------------------------------------------------------------
(* The two tasks implement DriveGoal: a bridge only ever enters a mode     *)
(* that the targets and the latch license at that moment, and a brake ends *)
(* only by driving.                                                        *)
THEOREM ImplementsDriveGoal == Spec => SupervisorSafety
<1> USE DEF Goal, Moving
<1>1. Init => Supervisor!Init
  BY ZeroRange DEF Init, Supervisor!Init
<1>2. IInv /\ [Next]_vars => [Supervisor!Next]_(Supervisor!vars)
  <2> SUFFICES ASSUME IInv, [Next]_vars
               PROVE  [Supervisor!Next]_(Supervisor!vars)
    OBVIOUS
  <2> USE DEF IInv, StepInv, CallInv, TypeOK
  <2>1. ASSUME UNCHANGED goalVars, UNCHANGED mode
        PROVE  UNCHANGED Supervisor!vars
    BY <2>1 DEF Supervisor!vars
  <2>2. ASSUME NEW t \in Tasks, WriteMode(t)
        PROVE  Supervisor!Next
    <3>1. wheel[t] \in Wheels /\ Wanted(t) \in Supervisor!Licensed(Goal)
      BY <2>2, ZeroRange, SMTT(30)
      DEF WriteMode, ArgInv, LatchOnlyAtStandstill, Wanted, ModeOf, Supervisor!Licensed
    <3>2. UNCHANGED Goal
      BY <2>2 DEF WriteMode
    <3>3. Supervisor!Switch(wheel[t])
      BY <2>2, <3>1, <3>2 DEF WriteMode, Supervisor!Switch
    <3> QED
      BY <3>1, <3>3 DEF Supervisor!Next
  <2>3. ASSUME NEW t \in Tasks, MotorStep(t)
        PROVE  Supervisor!Next \/ UNCHANGED Supervisor!vars
    BY <2>1, <2>2, <2>3
    DEF MotorStep, MotorSpeed, PreDuty, CheckMode, Blank, WriteIn1, WriteIn2, FullDuty,
        PostDuty
  <2>4. ASSUME NEW g \in {"drive", "coast", "brake"}, Goal' = g, UNCHANGED mode,
               Goal = "brake" => g # "coast"
        PROVE  Supervisor!Next
    BY <2>4 DEF Supervisor!Next, Supervisor!Ask, Supervisor!Goals
  <2>5. ASSUME NEW name \in {"target", "stop", "brake"}, NEW t \in [Wheels -> Targets],
               Enter(name, t)
        PROVE  Supervisor!Next
    BY <2>4, <2>5 DEF Enter, WriteTargets, LatchOnlyAtStandstill
  <2>6. CASE Call
    BY <2>5, <2>6, ZeroRange, ClampRange, MixedRange, ChassisAssumption
    DEF Call, SetTargetSpeed, SetTargetVelocity, Stop, Brake, Targets
  <2>7. CASE Latch
    BY <2>4, <2>7, ZeroRange DEF Latch
  <2> QED
    BY <2>1, <2>3, <2>6, <2>7
    DEF Next, Control, ChassisTask, TargetsSnapshot, StopBranch, ZeroOutputs, FinalSnapshot,
        UpdateEncoder, SpeedControlRun, vars
<1> QED
  BY <1>1, <1>2, Invariance, PTL DEF Spec, SupervisorSafety, Supervisor!Safety
==============================================================================
