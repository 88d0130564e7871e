------------------------------ MODULE Steering ------------------------------
(***************************************************************************)
(* What control_task.c commands, in numbers: the line loop (filter, dead   *)
(* band, gain, slew and the three limits of the turn), the heading loop of *)
(* the straights, the pivots, the blind recovery, the exit alignment, and  *)
(* behind all of them the clamp and the slew of                            *)
(* AppChassis_SetTargetVelocity.  One action is one iteration of the task. *)
(*                                                                         *)
(* Route has the phases.  Here only one thing is kept of their order: from *)
(* a pivot the code gets to a straight, a search or an arc by way of an    *)
(* iteration that sets both wheels alike (Straighten) or of one that       *)
(* stands.  For the rest a branch may follow any other that leaves the     *)
(* values it takes over, so that the histories of the code are among those *)
(* of Next, with a pause and a resumption anywhere.  One is left out: MODE *)
(* and START served in one RunOnce while mode 4 pivots begin mode 1 with   *)
(* no iteration that stands (see ReadyStartsNewRoute), and its straight    *)
(* with the pivot's targets.                                               *)
(*                                                                         *)
(* Integer division truncates towards zero as in C.  None of the casts to  *)
(* int16_t changes a value: each is taken of a clamped one.                *)
(***************************************************************************)
EXTENDS Integers

CONSTANTS
  Samples,       (* <<error, outer>> of a valid sample: outer is -1 with   *)
                 (* the leftmost sensor on the line, 1 with only the       *)
                 (* rightmost one, else 0                                  *)
  Mismatches,    (* left minus right travel on a straight, in mm           *)
  PulsesPerRev,  (* BOARD_ENCODER_OUTPUT_PULSES_PER_REV                    *)
  PeriodMs,      (* BOARD_CONTROL_TASK_PERIOD_MS                           *)
  RatedRpm,      (* BOARD_CHASSIS_RATED_SPEED_RPM                          *)
  LineRpms,      (* the tuned speeds: on an arc,                           *)
  CruiseRpms,    (* on a straight,                                         *)
  SearchRpms,    (* at its end,                                            *)
  RecoveryRpm,   (* blind on an arc,                                       *)
  PivotRpms, TransitionRpm,  (* around and forward in a pivot              *)
  DefaultSpeed,  (* the base speed of no branch of its own, in counts      *)
  FilterDiv, Deadband, GainP, GainD, GainScale,   (* of the line loop      *)
  TurnSlew, ReductionDiv, MaxTurn,
  SyncGain, SyncScale, SyncMax, Trim,             (* of the heading loop   *)
  WheelSlew, Rated                                (* of the chassis        *)

ASSUME SteeringAssumption ==
  /\ Samples \subseteq Int \X {-1, 0, 1}
  /\ Mismatches \subseteq Int
  /\ PulsesPerRev \in Nat \ {0} /\ PeriodMs \in Nat \ {0} /\ RatedRpm \in Nat \ {0}
  /\ LineRpms \subseteq Int /\ CruiseRpms \subseteq Int /\ SearchRpms \subseteq Int
  /\ RecoveryRpm \in Int /\ PivotRpms \subseteq Int /\ TransitionRpm \in Int
  /\ DefaultSpeed \in Nat
  /\ FilterDiv \in Nat \ {0} /\ Deadband \in Nat
  /\ GainP \in Int /\ GainD \in Int /\ GainScale \in Nat \ {0}
  /\ TurnSlew \in Nat \ {0} /\ ReductionDiv \in Nat \ {0} /\ MaxTurn \in Nat \ {0}
  /\ SyncGain \in Int /\ SyncScale \in Nat \ {0} /\ SyncMax \in Nat /\ Trim \in Int
  /\ WheelSlew \in Nat \ {0} /\ Rated \in Nat

VARIABLES
  output, initialized,  (* line_error_filter                               *)
  lastError,            (* last_filtered_error                             *)
  turn,                 (* g_control_task_turn                             *)
  forward,              (* the forward speed of the last command           *)
  left, right,          (* g_left_target_speed, g_right_target_speed       *)
  by,                   (* the branch of the iteration before              *)
  lo, hi                (* least and greatest error seen by the filter     *)
                        (* since it was reset                              *)

filter == <<output, initialized, lastError, lo, hi>>
wheels == <<left, right>>
vars == <<filter, wheels, turn, forward, by>>

Branches == {"stand", "pivot", "settle", "straight", "find", "entry", "line",
             "recovery", "exit", "brake"}

(***************************************************************************)
(* Helpers                                                                 *)
(***************************************************************************)
Abs(x) == IF x < 0 THEN -x ELSE x
Least(a, b) == IF a < b THEN a ELSE b
Greatest(a, b) == IF a < b THEN b ELSE a

(* C's division of a by a positive b. *)
Quotient(a, b) == IF a < 0 THEN -((-a) \div b) ELSE a \div b

Clamp(bound, x) ==
  IF x > bound THEN bound ELSE IF x < -bound THEN -bound ELSE x

SlewTo(current, goal, step) ==
  IF goal > current + step THEN current + step
  ELSE IF goal < current - step THEN current - step
  ELSE goal

(* Mutant: speeds of zero and below round like any other. *)
RpmToDeltaPlain(rpm) ==
  (PulsesPerRev * Clamp(RatedRpm, rpm) * PeriodMs + 30000) \div 60000

RpmToDelta(rpm) ==
  IF rpm <= 0 THEN 1
  ELSE (PulsesPerRev * Least(rpm, RatedRpm) * PeriodMs + 30000) \div 60000

StraightSyncTurn(mismatch) ==
  Clamp(SyncMax, Trim - Quotient(mismatch * SyncGain, SyncScale))

(* Near its end a straight is driven at two thirds and at one third of its *)
(* speed, or at a speed of its own.                                        *)
StraightSpeeds ==
  {Greatest(1, (RpmToDelta(rpm) * thirds) \div 3) : rpm \in CruiseRpms, thirds \in 1 .. 3}
  \cup {Greatest(1, RpmToDelta(rpm)) : rpm \in SearchRpms}

FindSpeeds ==
  {RpmToDelta(rpm) \div 2 : rpm \in CruiseRpms} \cup {RpmToDelta(rpm) : rpm \in SearchRpms}

ExitSpeed == (DefaultSpeed * 2) \div 3

ExitTurn == (ExitSpeed * 2) \div 3

(* The largest turn a blind recovery takes over may turn a wheel back by   *)
(* one step of the slew.                                                   *)
TurnCap == RpmToDelta(RecoveryRpm) + WheelSlew

(* How the numbers are tuned to one another: a speed of the line rounds to *)
(* a count a period; the turns a recovery may take over - two thirds of    *)
(* the fastest line, that of the exit, that of the heading loop - exceed   *)
(* its speed by no more than a step of the slew; the heading loop takes    *)
(* less than any straight gives.                                           *)
ASSUME TuningAssumption ==
  /\ \A rpm \in LineRpms :
       /\ rpm > 0 => PulsesPerRev * Least(rpm, RatedRpm) * PeriodMs >= 30000
       /\ 2 * RpmToDelta(rpm) <= 3 * TurnCap
  /\ ExitTurn <= TurnCap /\ SyncMax <= TurnCap
  /\ \A speed \in StraightSpeeds : SyncMax <= speed

(***************************************************************************)
(* The chassis                                                             *)
(***************************************************************************)
SetTargetVelocity(f, t) ==
  /\ left' = SlewTo(left, Clamp(Rated, f + t), WheelSlew)
  /\ right' = SlewTo(right, Clamp(Rated, f - t), WheelSlew)

SetTargetSpeed(l, r) == left' = Clamp(Rated, l) /\ right' = Clamp(Rated, r)

Command(f, t) == turn' = t /\ forward' = f /\ SetTargetVelocity(f, t)

(***************************************************************************)
(* The line loop                                                           *)
(***************************************************************************)
(* Mutant: the first sample after a reset is averaged like any other. *)
FilteredStale(error, fresh) == output + Quotient(error - output, FilterDiv)

(* LowPassFilter_Update, after a LowPassFilter_Reset when fresh. *)
Filtered(error, fresh) ==
  IF fresh \/ initialized = 0 THEN error
  ELSE output + Quotient(error - output, FilterDiv)

(* Mutant: the proportional turn has the sign of the error. *)
LineTurnAway(f, d) ==
  IF Abs(f) <= Deadband THEN 0
  ELSE Clamp(MaxTurn, Quotient(f * GainP + d * GainD, GainScale))

(* The steering sign is -1: a line to the left, a negative error, asks for *)
(* a positive turn.                                                        *)
LineTurn(f, d) ==
  IF Abs(f) <= Deadband THEN 0
  ELSE Clamp(MaxTurn, -Quotient(f * GainP + d * GainD, GainScale))

(* The outermost sensors ask for the whole base speed. *)
GoalTurn(f, d, outer, base) ==
  IF outer = 0 THEN LineTurn(f, d) ELSE -outer * base

SlowedBase(f, base) == base - Least(Abs(f) \div ReductionDiv, base \div 2)

(* Mutant: the turn may reach the speed of the base. *)
TurnLimitBase(slowed) == Greatest(1, (slowed * 4) \div 3)

TurnLimit(slowed) == Greatest(1, (slowed * 2) \div 3)

LimitedTurn(goal, base, slowed) ==
  Clamp(TurnLimit(slowed), Clamp(base, SlewTo(turn, goal, TurnSlew)))

(* One iteration on a valid sample.  fresh: the arc is entered in this     *)
(* iteration; tangent: the final section of a Q4 arc.                      *)
Follow(s, rpm, fresh, tangent) ==
  LET base == RpmToDelta(rpm)
      f == Filtered(s[1], fresh)
      d == f - (IF fresh THEN 0 ELSE lastError)
      slowed == SlowedBase(f, base)
      known == initialized = 1 /\ ~ fresh
  IN  /\ output' = f
      /\ initialized' = 1
      /\ lastError' = f
      /\ lo' = IF known THEN Least(lo, s[1]) ELSE s[1]
      /\ hi' = IF known THEN Greatest(hi, s[1]) ELSE s[1]
      /\ by' = "line"
      /\ Command(slowed, IF tangent THEN 0
                         ELSE LimitedTurn(GoalTurn(f, d, s[2], base), base, slowed))

(***************************************************************************)
(* The other branches                                                      *)
(***************************************************************************)
ResetFilter ==
  /\ output' = 0 /\ initialized' = 0 /\ lastError' = 0
  /\ lo' = 0 /\ hi' = 0

(* The arc may have begun in the same iteration. *)
FilterOnArc ==
  \/ UNCHANGED filter
  \/ by \in {"stand", "find"} /\ ResetFilter

(* No pivot is under way or has just been straightened. *)
NotTurning == by \notin {"pivot", "settle"}

(* The race does not run. *)
Stand ==
  /\ ResetFilter
  /\ turn' = 0 /\ forward' = 0
  /\ SetTargetSpeed(0, 0)
  /\ by' = "stand"

(* The car stands although the race runs: the launch delay, the end of a   *)
(* lap, the end of the exit alignment, no line seen since the race runs.   *)
Halt ==
  /\ NotTurning
  /\ SetTargetSpeed(0, 0)
  /\ turn' \in {0, turn} /\ forward' = 0
  /\ by' = "stand"
  /\ FilterOnArc

(* A fixed turn at the start, at C or at B: on the spot, or forward while  *)
(* turning.                                                                *)
Pivot ==
  /\ \E sign \in {-1, 1}, rpm \in PivotRpms, f \in {0, RpmToDelta(TransitionRpm)} :
       Command(f, sign * RpmToDelta(rpm))
  /\ by' = "pivot"
  /\ UNCHANGED filter

(* Mutant: the pivot's targets decay through the slew of the chassis. *)
StraightenSlewed ==
  /\ \E rpm \in CruiseRpms : Command(RpmToDelta(rpm), 0)
  /\ by' = "settle"
  /\ ResetFilter \/ UNCHANGED filter

(* The pivot is done: both wheels take the same target at once.  At B the  *)
(* filter starts anew and the pivot's turn is left as it is.               *)
Straighten ==
  /\ \E rpm \in CruiseRpms :
       /\ forward' = RpmToDelta(rpm)
       /\ SetTargetSpeed(RpmToDelta(rpm), RpmToDelta(rpm))
  /\ by' = "settle"
  /\ \/ turn' = 0 /\ UNCHANGED filter
     \/ UNCHANGED turn /\ ResetFilter

(* The motion of the pivot is still settling. *)
Settle ==
  /\ by \in {"settle", "straight", "stand"}
  /\ \E rpm \in CruiseRpms :
       /\ forward' = RpmToDelta(rpm)
       /\ SetTargetSpeed(RpmToDelta(rpm), RpmToDelta(rpm))
  /\ turn' = 0
  /\ by' = "straight"
  /\ UNCHANGED filter

(* A straight with its heading loop. *)
Straight ==
  /\ by # "pivot"
  /\ \E speed \in StraightSpeeds, mismatch \in Mismatches :
       Command(speed, StraightSyncTurn(mismatch))
  /\ by' = "straight"
  /\ UNCHANGED filter

(* The end of a straight, looking for the line without the heading loop.   *)
Find ==
  /\ NotTurning
  /\ \E speed \in FindSpeeds : Command(speed, 0)
  /\ by' = "find"
  /\ UNCHANGED filter

(* The line is met on a diagonal: the arc begins with the next iteration,  *)
(* and with the turn the heading loop has left.                            *)
MeetLine ==
  /\ by \in {"stand", "straight"}
  /\ \E rpm \in LineRpms :
       forward' = RpmToDelta(rpm) /\ SetTargetVelocity(RpmToDelta(rpm), 0)
  /\ by' = "entry"
  /\ ResetFilter
  /\ UNCHANGED turn

(* The search has found the line: the arc begins in this iteration, with a *)
(* filter that starts anew.                                                *)
EnterArc ==
  /\ by \in {"stand", "find"}
  /\ \E s \in Samples, rpm \in LineRpms : Follow(s, rpm, TRUE, FALSE)

FollowLine ==
  /\ NotTurning
  /\ \E s \in Samples, rpm \in LineRpms, tangent \in BOOLEAN :
       Follow(s, rpm, FALSE, tangent)

(* No valid sample on an arc: the last turn at the recovery speed. *)
Recover ==
  /\ NotTurning
  /\ Command(RpmToDelta(RecoveryRpm), turn)
  /\ by' = "recovery"
  /\ FilterOnArc

(* Mutant: speed and turn of the exit alignment are exchanged. *)
ExitExchanged ==
  /\ NotTurning
  /\ Command(ExitTurn, ExitSpeed)
  /\ by' = "exit"
  /\ FilterOnArc

(* The sample read again behind the route code is not valid. *)
Exit ==
  /\ NotTurning
  /\ Command(ExitSpeed, ExitTurn)
  /\ by' = "exit"
  /\ FilterOnArc

(* The end of an arc before a pivot: at C the pivot begins at once, at B   *)
(* with the next iteration.                                                *)
LeaveArc ==
  /\ NotTurning
  /\ \/ /\ forward' = 0
        /\ \E sign \in {-1, 1}, rpm \in PivotRpms : SetTargetVelocity(0, sign * RpmToDelta(rpm))
     \/ UNCHANGED <<forward, wheels>>
  /\ turn' = 0
  /\ by' = "pivot"
  /\ UNCHANGED filter

(* The course ends, or the recovery has failed, which leaves the turn. *)
Brake ==
  /\ NotTurning
  /\ SetTargetSpeed(0, 0)
  /\ turn' \in {0, turn} /\ forward' = 0
  /\ by' = "brake"
  /\ FilterOnArc

Init ==
  /\ output = 0 /\ initialized = 0 /\ lastError = 0 /\ lo = 0 /\ hi = 0
  /\ turn = 0 /\ forward = 0 /\ left = 0 /\ right = 0
  /\ by = "stand"

Next ==
  \/ Stand \/ Halt \/ Pivot \/ Straighten \/ Settle \/ Straight \/ Find
  \/ MeetLine \/ EnterArc \/ FollowLine \/ Recover \/ Exit \/ LeaveArc \/ Brake

Spec == Init /\ [][Next]_vars

(***************************************************************************)
(* Properties                                                              *)
(***************************************************************************)
TypeOK ==
  /\ output \in Int /\ lastError \in Int /\ lo \in Int /\ hi \in Int
  /\ initialized \in {0, 1}
  /\ turn \in Int /\ forward \in Nat
  /\ left \in (-Rated) .. Rated /\ right \in (-Rated) .. Rated
  /\ by \in Branches

(* "Keep line following from commanding one wheel in reverse"              *)
(* (control_task.c:1664): through slew, speed reduction and both limits    *)
(* the turn stays within the forward speed.                                *)
NoReverseCommand == by = "line" => -forward <= turn /\ turn <= forward

(* The filtered error lies between the errors seen since the last reset:   *)
(* truncation never overshoots, and a line from before a stop or an        *)
(* earlier arc does not steer.                                             *)
ErrorWithinSeen == initialized = 1 => lo <= output /\ output <= hi

(* "the old pivot targets persist into C-D and the heading loop turns the  *)
(* chassis back" (control_task.c:782) is what the bypass of the slew       *)
(* prevents: from the first iteration after a pivot no wheel runs in       *)
(* reverse on a straight, in a search, at the begin of an arc, on the line *)
(* or in the exit alignment, whatever the pivot left in the targets, and   *)
(* whatever turn a blind recovery took over.                               *)
WheelsRunForward ==
  by \in {"settle", "straight", "find", "entry", "line", "exit"}
    => left >= 0 /\ right >= 0

(* A line in sight never lets the car stand: every tuned speed leaves a    *)
(* forward command after the reduction, one below a count per period too.  *)
LineKeepsMoving == by = "line" => forward > 0

(* The numbers of the line loop keep within their limits: what it commands *)
(* leaves both wheels forward, and what it filters stays within what was   *)
(* seen.                                                                   *)
LineLoopIsBounded == NoReverseCommand /\ ErrorWithinSeen

(* The car that has a line or a straight drives on forward.                *)
CarKeepsOn == WheelsRunForward /\ LineKeepsMoving

(* Between two iterations on the line the turn moves by at most the slew   *)
(* step, except towards zero when a limit shrinks.                         *)
TurnIsSlewed ==
  [][by = "line" /\ by' = "line" /\ turn' # 0
     => \/ Abs(turn' - turn) <= TurnSlew
        \/ Abs(turn') < Abs(turn) /\ turn' * turn > 0]_vars
=============================================================================
