----------------------------- MODULE LineProofs -----------------------------
(***************************************************************************)
(* From the line to the wheels: the limits of the steering, for every      *)
(* track, tuning and sample; that the car drives on, for every tuning that *)
(* TuningAssumption names; and what the sensors show with their vote, for  *)
(* every number of sensors and every line.                                 *)
(***************************************************************************)
EXTENDS Steering, LineSensor, FiniteSetTheorems, SequenceTheorems, TLAPS

(***************************************************************************)
(* The limits of the steering                                              *)
(***************************************************************************)
IInv == TypeOK /\ NoReverseCommand /\ ErrorWithinSeen

(***************************************************************************)
(* The arithmetic                                                          *)
(***************************************************************************)
(* A division of a natural number does not enlarge it. *)
LEMMA DivBounds ==
  ASSUME NEW a \in Nat, NEW b \in Nat \ {0}
  PROVE  a \div b \in Nat /\ a \div b <= a
<1>1. a = (b * (a \div b)) + (a % b) /\ a % b \in 0 .. (b - 1) /\ a \div b \in Int
      BY SMT
<1>2. a \div b >= 0
      BY <1>1, SMT
<1>3. b * (a \div b) >= a \div b
      BY <1>1, <1>2, SMT
<1> QED
    BY <1>1, <1>2, <1>3, SMT

(* Truncation towards zero: the quotient lies between zero and the         *)
(* dividend, on either side of zero.                                       *)
LEMMA QuotientBounds ==
  ASSUME NEW a \in Int, NEW b \in Nat \ {0}
  PROVE  /\ Quotient(a, b) \in Int
         /\ a >= 0 => 0 <= Quotient(a, b) /\ Quotient(a, b) <= a
         /\ a <= 0 => a <= Quotient(a, b) /\ Quotient(a, b) <= 0
<1>1. CASE a >= 0
  <2>1. a \div b \in Nat /\ a \div b <= a
        BY <1>1, DivBounds
  <2> QED
      BY <1>1, <2>1, SMT DEF Quotient
<1>2. CASE a < 0
  <2>1. (-a) \div b \in Nat /\ (-a) \div b <= -a
        BY <1>2, DivBounds
  <2> QED
      BY <1>2, <2>1, SMT DEF Quotient
<1> QED
    BY <1>1, <1>2, SMT

(* A clamped value lies within the bound, a bounded one is unchanged, and  *)
(* no value changes sides of zero.                                         *)
LEMMA ClampBounds ==
  ASSUME NEW bound \in Nat, NEW x \in Int
  PROVE  /\ Clamp(bound, x) \in (-bound) .. bound
         /\ x >= 0 => 0 <= Clamp(bound, x) /\ Clamp(bound, x) <= x
         /\ x <= 0 => x <= Clamp(bound, x) /\ Clamp(bound, x) <= 0
BY SMT DEF Clamp

(* A slewed value moves by at most a step, and never past its goal. *)
LEMMA SlewBounds ==
  ASSUME NEW current \in Int, NEW goal \in Int, NEW step \in Nat
  PROVE  /\ SlewTo(current, goal, step) \in Int
         /\ SlewTo(current, goal, step) - current <= step
         /\ current - SlewTo(current, goal, step) <= step
         /\ current <= goal => /\ current <= SlewTo(current, goal, step)
                               /\ SlewTo(current, goal, step) <= goal
         /\ goal <= current => /\ goal <= SlewTo(current, goal, step)
                               /\ SlewTo(current, goal, step) <= current
BY SMT DEF SlewTo

(* A tuned speed becomes a count per period that is never negative. *)
LEMMA DeltaIsNatural ==
  ASSUME NEW rpm \in Int
  PROVE  RpmToDelta(rpm) \in Nat
<1>1. CASE rpm <= 0
      BY <1>1, SMT DEF RpmToDelta
<1>2. CASE rpm > 0
  <2> DEFINE used == Least(rpm, RatedRpm)
  <2>1. used \in Nat
        BY <1>2, SteeringAssumption, SMT DEF Least
  <2>2. PulsesPerRev * used \in Nat
        BY <2>1, SteeringAssumption, SMT
  <2>3. PulsesPerRev * used * PeriodMs + 30000 \in Nat
        BY <2>2, SteeringAssumption, SMT
  <2>4. (PulsesPerRev * used * PeriodMs + 30000) \div 60000 \in Nat
        BY <2>3, DivBounds
  <2> QED
      BY <1>2, <2>4, SMT DEF RpmToDelta
<1> QED
    BY <1>1, <1>2, SMT

(* So are the speeds at the end of a straight and those of the exit. *)
LEMMA SpeedsAreNatural ==
  /\ StraightSpeeds \subseteq Nat /\ FindSpeeds \subseteq Nat
  /\ ExitSpeed \in Nat /\ ExitTurn \in Nat /\ ExitTurn <= ExitSpeed
<1> USE SteeringAssumption
<1>1. ASSUME NEW rpm \in CruiseRpms, NEW thirds \in 1 .. 3
      PROVE  Greatest(1, (RpmToDelta(rpm) * thirds) \div 3) \in Nat
  <2>1. RpmToDelta(rpm) \in Nat
        BY DeltaIsNatural
  <2>2. RpmToDelta(rpm) * thirds \in Nat
        BY <2>1, SMT
  <2>3. (RpmToDelta(rpm) * thirds) \div 3 \in Nat
        BY <2>2, DivBounds
  <2> QED
      BY <2>3, SMT DEF Greatest
<1>2. ASSUME NEW rpm \in SearchRpms
      PROVE  RpmToDelta(rpm) \in Nat /\ Greatest(1, RpmToDelta(rpm)) \in Nat
  <2>1. RpmToDelta(rpm) \in Nat
        BY DeltaIsNatural
  <2> QED
      BY <2>1, SMT DEF Greatest
<1>3. ASSUME NEW rpm \in CruiseRpms
      PROVE  RpmToDelta(rpm) \div 2 \in Nat
  <2>1. RpmToDelta(rpm) \in Nat
        BY DeltaIsNatural
  <2> QED
      BY <2>1, DivBounds
<1>4. StraightSpeeds \subseteq Nat
      BY <1>1, <1>2 DEF StraightSpeeds
<1>5. FindSpeeds \subseteq Nat
      BY <1>2, <1>3 DEF FindSpeeds
<1>6. ExitSpeed \in Nat
  <2>1. DefaultSpeed * 2 \in Nat
        BY SMT
  <2> QED
      BY <2>1, DivBounds DEF ExitSpeed
<1>7. ExitTurn \in Nat /\ ExitTurn <= ExitSpeed
      BY <1>6, SMT DEF ExitTurn
<1> QED
    BY <1>4, <1>5, <1>6, <1>7

(* The turn of the heading loop keeps its bound. *)
LEMMA SyncTurnBounds ==
  ASSUME NEW mismatch \in Mismatches
  PROVE  /\ StraightSyncTurn(mismatch) \in Int
         /\ -SyncMax <= StraightSyncTurn(mismatch) /\ StraightSyncTurn(mismatch) <= SyncMax
<1> USE SteeringAssumption
<1>1. mismatch * SyncGain \in Int
      BY SMT
<1>2. Quotient(mismatch * SyncGain, SyncScale) \in Int
      BY <1>1, QuotientBounds
<1>3. Trim - Quotient(mismatch * SyncGain, SyncScale) \in Int
      BY <1>2, SMT
<1>4. StraightSyncTurn(mismatch) \in (-SyncMax) .. SyncMax
      BY <1>3, ClampBounds DEF StraightSyncTurn
<1> QED
    BY <1>4, SMT

(* The branches that do not follow the line leave the filter, or reset it. *)
LEMMA FilterLeft == ASSUME FilterOnArc PROVE UNCHANGED filter \/ ResetFilter
  BY DEF FilterOnArc

(* Both ways to set the targets keep them within the rated speed. *)
LEMMA TargetsStayRated ==
  ASSUME TypeOK, NEW f \in Int, NEW t \in Int,
         SetTargetVelocity(f, t) \/ SetTargetSpeed(f, t)
  PROVE  left' \in (-Rated) .. Rated /\ right' \in (-Rated) .. Rated
<1> USE SteeringAssumption
<1>1. /\ Clamp(Rated, f + t) \in (-Rated) .. Rated
      /\ Clamp(Rated, f - t) \in (-Rated) .. Rated
      /\ Clamp(Rated, f) \in (-Rated) .. Rated
      /\ Clamp(Rated, t) \in (-Rated) .. Rated
      BY ClampBounds
<1>2. left \in (-Rated) .. Rated /\ right \in (-Rated) .. Rated
      BY DEF TypeOK
<1>3. CASE SetTargetVelocity(f, t)
      BY <1>1, <1>2, <1>3, SMT DEF SetTargetVelocity, SlewTo
<1>4. CASE SetTargetSpeed(f, t)
      BY <1>1, <1>4 DEF SetTargetSpeed
<1> QED
    BY <1>3, <1>4

(***************************************************************************)
(* The line loop                                                           *)
(***************************************************************************)
(* The filter stays between what it held and what it is given.             *)
LEMMA FilteredBounds ==
  ASSUME TypeOK, NEW reading \in Int, NEW fresh \in BOOLEAN
  PROVE  /\ Filtered(reading, fresh) \in Int
         /\ fresh \/ initialized = 0 => Filtered(reading, fresh) = reading
         /\ Least(output, reading) <= Filtered(reading, fresh)
         /\ Filtered(reading, fresh) <= Greatest(output, reading)
<1> USE SteeringAssumption
<1>1. output \in Int
      BY DEF TypeOK
<1> DEFINE q == Quotient(reading - output, FilterDiv)
<1>2. /\ q \in Int
      /\ reading - output >= 0 => 0 <= q /\ q <= reading - output
      /\ reading - output <= 0 => reading - output <= q /\ q <= 0
      BY <1>1, QuotientBounds
<1> HIDE DEF q
<1>3. CASE fresh \/ initialized = 0
      BY <1>1, <1>3, SMT DEF Filtered, Least, Greatest
<1>4. CASE ~ (fresh \/ initialized = 0)
  <2>1. Filtered(reading, fresh) = output + q
        BY <1>4 DEF Filtered, q
  <2> QED
      BY ONLY <1>1, <1>2, <1>4, <2>1, reading \in Int, SMT DEF Least, Greatest
<1> QED
    BY <1>3, <1>4

(* The reduction leaves at least one count of a moving base speed.         *)
LEMMA SlowedBounds ==
  ASSUME NEW f \in Int, NEW base \in Nat
  PROVE  /\ SlowedBase(f, base) \in Nat
         /\ SlowedBase(f, base) <= base
         /\ base >= 1 => SlowedBase(f, base) >= 1
<1>1. Abs(f) \in Nat
      BY SMT DEF Abs
<1>2. Abs(f) \div ReductionDiv \in Nat
      BY <1>1, DivBounds, SteeringAssumption
<1> QED
    BY <1>2, SMT DEF SlowedBase, Least

(* The wanted turn is a number. *)
LEMMA GoalIsNumber ==
  ASSUME NEW f \in Int, NEW d \in Int, NEW outer \in {-1, 0, 1}, NEW base \in Nat
  PROVE  GoalTurn(f, d, outer, base) \in Int
<1> USE SteeringAssumption
<1>1. (f * GainP) \in Int /\ (d * GainD) \in Int
      BY SMT
<1>2. f * GainP + d * GainD \in Int
      BY <1>1, SMT
<1>3. Quotient(f * GainP + d * GainD, GainScale) \in Int
      BY <1>2, QuotientBounds
<1>4. -Quotient(f * GainP + d * GainD, GainScale) \in Int
      BY <1>3, SMT
<1>5. Clamp(MaxTurn, -Quotient(f * GainP + d * GainD, GainScale)) \in (-MaxTurn) .. MaxTurn
      BY <1>4, ClampBounds, SMT
<1>6. LineTurn(f, d) \in Int
      BY <1>5, SMT DEF LineTurn
<1> QED
    BY <1>6, SMT DEF GoalTurn

(* Slew and limits together: the turn stays within the slowed speed, and   *)
(* moves by at most the slew step except towards zero.                     *)
LEMMA LimitedBounds ==
  ASSUME NEW goal \in Int, NEW base \in Nat, NEW slowed \in Nat,
         slowed <= base, base >= 1 => slowed >= 1, turn \in Int
  PROVE  /\ LimitedTurn(goal, base, slowed) \in Int
         /\ -slowed <= LimitedTurn(goal, base, slowed)
         /\ LimitedTurn(goal, base, slowed) <= slowed
         /\ \/ LimitedTurn(goal, base, slowed) = 0
            \/ /\ LimitedTurn(goal, base, slowed) - turn <= TurnSlew
               /\ turn - LimitedTurn(goal, base, slowed) <= TurnSlew
            \/ 0 < LimitedTurn(goal, base, slowed) /\ LimitedTurn(goal, base, slowed) < turn
            \/ turn < LimitedTurn(goal, base, slowed) /\ LimitedTurn(goal, base, slowed) < 0
<1> DEFINE x == SlewTo(turn, goal, TurnSlew)
           y == Clamp(base, x)
           z == Clamp(TurnLimit(slowed), y)
<1>1. x \in Int /\ x - turn <= TurnSlew /\ turn - x <= TurnSlew
      BY SlewBounds, SteeringAssumption
<1> HIDE DEF x
<1>2. /\ y \in Int /\ -base <= y /\ y <= base
      /\ x >= 0 => 0 <= y /\ y <= x
      /\ x <= 0 => x <= y /\ y <= 0
      BY <1>1, ClampBounds, SMT
<1> HIDE DEF y
<1>3. TurnLimit(slowed) \in Nat /\ (slowed >= 1 => TurnLimit(slowed) <= slowed)
      BY SMT DEF TurnLimit, Greatest
<1>4. /\ z \in Int /\ -TurnLimit(slowed) <= z /\ z <= TurnLimit(slowed)
      /\ y >= 0 => 0 <= z /\ z <= y
      /\ y <= 0 => y <= z /\ z <= 0
  <2> HIDE DEF z
  <2>1. /\ z \in (-TurnLimit(slowed)) .. TurnLimit(slowed)
        /\ y >= 0 => 0 <= z /\ z <= y
        /\ y <= 0 => y <= z /\ z <= 0
        BY <1>2, <1>3, ClampBounds DEF z
  <2> QED
      BY <1>3, <2>1, SMT
<1>5. LimitedTurn(goal, base, slowed) = z
      BY DEF LimitedTurn, z, y, x
<1> HIDE DEF z
<1>6. -slowed <= z /\ z <= slowed
      BY <1>2, <1>3, <1>4, SMT
<1> QED
    BY <1>1, <1>2, <1>4, <1>5, <1>6, SteeringAssumption, SMT

(***************************************************************************)
(* The steps                                                               *)
(***************************************************************************)
(* An iteration on the line keeps the invariant, whatever the sample, the  *)
(* speed and the section of the arc.                                       *)
LEMMA FollowStep ==
  ASSUME IInv, NEW s \in Samples, NEW rpm \in Int,
         NEW fresh \in BOOLEAN, NEW tangent \in BOOLEAN,
         Follow(s, rpm, fresh, tangent)
  PROVE  /\ IInv'
         /\ turn' # 0 => \/ Abs(turn' - turn) <= TurnSlew
                         \/ turn > 0 /\ 0 < turn' /\ turn' < turn
                         \/ turn < 0 /\ turn < turn' /\ turn' < 0
<1> USE SteeringAssumption
<1> DEFINE base == RpmToDelta(rpm)
           f == Filtered(s[1], fresh)
           d == f - (IF fresh THEN 0 ELSE lastError)
           slowed == SlowedBase(f, base)
           goal == GoalTurn(f, d, s[2], base)
           t == IF tangent THEN 0 ELSE LimitedTurn(goal, base, slowed)
<1>1. s[1] \in Int /\ s[2] \in {-1, 0, 1}
      BY SMT
<1>2. TypeOK /\ NoReverseCommand /\ ErrorWithinSeen /\ lastError \in Int /\ turn \in Int
      BY DEF IInv, TypeOK
<1>3. base \in Nat
      BY DeltaIsNatural
<1> HIDE DEF base
<1>4. /\ f \in Int
      /\ fresh \/ initialized = 0 => f = s[1]
      /\ Least(output, s[1]) <= f /\ f <= Greatest(output, s[1])
      BY <1>1, <1>2, FilteredBounds
<1> HIDE DEF f
<1>5. d \in Int
      BY <1>2, <1>4, SMT
<1> HIDE DEF d
<1>6. slowed \in Nat /\ slowed <= base /\ (base >= 1 => slowed >= 1)
      BY <1>3, <1>4, SlowedBounds
<1> HIDE DEF slowed
<1>7. goal \in Int
      BY <1>1, <1>3, <1>4, <1>5, GoalIsNumber
<1> HIDE DEF goal
<1>8. /\ t \in Int /\ -slowed <= t /\ t <= slowed
      /\ \/ t = 0
         \/ t - turn <= TurnSlew /\ turn - t <= TurnSlew
         \/ 0 < t /\ t < turn
         \/ turn < t /\ t < 0
  <2>1. CASE tangent
        BY <1>6, <2>1, SMT
  <2>2. CASE ~ tangent
        BY <1>2, <1>3, <1>6, <1>7, <2>2, LimitedBounds
  <2> QED
      BY <2>1, <2>2
<1> HIDE DEF t
<1>9. /\ output' = f /\ initialized' = 1 /\ lastError' = f
      /\ lo' = (IF initialized = 1 /\ ~ fresh THEN Least(lo, s[1]) ELSE s[1])
      /\ hi' = (IF initialized = 1 /\ ~ fresh THEN Greatest(hi, s[1]) ELSE s[1])
      /\ by' = "line"
      /\ Command(slowed, t)
      BY DEF Follow, base, f, d, slowed, goal, t
<1>10. turn' = t /\ forward' = slowed /\ SetTargetVelocity(slowed, t)
       BY <1>9 DEF Command
<1>11. left' \in (-Rated) .. Rated /\ right' \in (-Rated) .. Rated
       BY <1>2, <1>6, <1>8, <1>10, TargetsStayRated
<1>12. lo' \in Int /\ hi' \in Int /\ lo' <= output' /\ output' <= hi'
       BY <1>1, <1>2, <1>4, <1>9, SMT DEF TypeOK, ErrorWithinSeen, Least, Greatest
<1>13. TypeOK'
  <2>1. output' \in Int /\ lastError' \in Int /\ initialized' \in {0, 1}
        BY <1>4, <1>9
  <2>2. turn' \in Int /\ forward' \in Nat /\ by' \in Branches
        BY <1>6, <1>8, <1>9, <1>10 DEF Branches
  <2> QED
      BY <1>11, <1>12, <2>1, <2>2 DEF TypeOK
<1>14. NoReverseCommand' /\ ErrorWithinSeen'
       BY <1>8, <1>10, <1>12 DEF NoReverseCommand, ErrorWithinSeen
<1>15. turn' # 0 => \/ Abs(turn' - turn) <= TurnSlew
                    \/ turn > 0 /\ 0 < turn' /\ turn' < turn
                    \/ turn < 0 /\ turn < turn' /\ turn' < 0
       BY <1>2, <1>8, <1>10, SMT DEF Abs
<1> QED
    BY <1>13, <1>14, <1>15 DEF IInv

(* A filter left alone or reset stays within what it has seen. *)
LEMMA FilterStep ==
  ASSUME IInv, UNCHANGED filter \/ ResetFilter
  PROVE  /\ output' \in Int /\ lastError' \in Int /\ lo' \in Int /\ hi' \in Int
         /\ initialized' \in {0, 1}
         /\ initialized' = 1 => lo' <= output' /\ output' <= hi'
<1>1. CASE UNCHANGED filter
      BY <1>1, SMT DEF IInv, TypeOK, ErrorWithinSeen, filter
<1>2. CASE ResetFilter
      BY <1>2, SMT DEF ResetFilter
<1> QED
    BY <1>1, <1>2

(* Slewed targets of another branch keep the invariant. *)
LEMMA VelocityStep ==
  ASSUME IInv, NEW f \in Int, NEW t \in Int, SetTargetVelocity(f, t),
         forward' \in Nat, turn' \in Int,
         by' \in Branches \ {"line"}, UNCHANGED filter \/ ResetFilter
  PROVE  IInv'
<1>1. left' \in (-Rated) .. Rated /\ right' \in (-Rated) .. Rated
      BY TargetsStayRated, SMT DEF IInv
<1>2. /\ output' \in Int /\ lastError' \in Int /\ lo' \in Int /\ hi' \in Int
      /\ initialized' \in {0, 1}
      /\ initialized' = 1 => lo' <= output' /\ output' <= hi'
      BY FilterStep
<1> QED
    BY <1>1, <1>2 DEF IInv, TypeOK, NoReverseCommand, ErrorWithinSeen

LEMMA CommandStep ==
  ASSUME IInv, NEW f \in Nat, NEW t \in Int, Command(f, t),
         by' \in Branches \ {"line"}, UNCHANGED filter \/ ResetFilter
  PROVE  IInv'
<1>1. turn' = t /\ forward' = f /\ SetTargetVelocity(f, t)
      BY DEF Command
<1>2. f \in Int
      BY SMT
<1> QED
    BY <1>1, <1>2, VelocityStep

(* So do targets that bypass the slew. *)
LEMMA TargetStep ==
  ASSUME IInv, NEW l \in Nat, NEW r \in Nat, SetTargetSpeed(l, r), forward' \in Nat,
         turn' \in Int, by' \in Branches \ {"line"}, UNCHANGED filter \/ ResetFilter
  PROVE  IInv'
<1>1. left' \in (-Rated) .. Rated /\ right' \in (-Rated) .. Rated
      BY TargetsStayRated, SMT DEF IInv
<1>2. /\ output' \in Int /\ lastError' \in Int /\ lo' \in Int /\ hi' \in Int
      /\ initialized' \in {0, 1}
      /\ initialized' = 1 => lo' <= output' /\ output' <= hi'
      BY FilterStep
<1> QED
    BY <1>1, <1>2 DEF IInv, TypeOK, NoReverseCommand, ErrorWithinSeen

(* The invariant holds initially. *)
LEMMA InitInvariant == Init => IInv
BY SteeringAssumption, SMT
   DEF Init, IInv, TypeOK, NoReverseCommand, ErrorWithinSeen, Branches

(* Each iteration keeps the invariant. *)
LEMMA StepInvariant == IInv /\ [Next]_vars => IInv'
<1> SUFFICES ASSUME IInv, [Next]_vars
             PROVE  IInv'
    OBVIOUS
<1> USE SteeringAssumption
<1>0. turn \in Int /\ forward \in Nat
      BY DEF IInv, TypeOK
<1>1. CASE Stand
      BY <1>1, TargetStep DEF Stand, Branches
<1>2. CASE Halt
  <2>1. SetTargetSpeed(0, 0) /\ forward' \in Nat /\ turn' \in Int
        BY <1>0, <1>2 DEF Halt
  <2>2. by' \in Branches \ {"line"} /\ FilterOnArc
        BY <1>2 DEF Halt, Branches
  <2> QED
      BY <2>1, <2>2, FilterLeft, TargetStep
<1>3. CASE Pivot
  <2>1. PICK sign \in {-1, 1}, rpm \in PivotRpms, f \in {0, RpmToDelta(TransitionRpm)} :
          Command(f, sign * RpmToDelta(rpm))
        BY <1>3 DEF Pivot
  <2>2. f \in Nat /\ sign * RpmToDelta(rpm) \in Int
    <3>1. RpmToDelta(TransitionRpm) \in Nat /\ RpmToDelta(rpm) \in Nat
          BY DeltaIsNatural
    <3> QED
        BY <3>1, SMT
  <2>3. by' \in Branches \ {"line"} /\ UNCHANGED filter
        BY <1>3 DEF Pivot, Branches
  <2> QED
      BY <2>1, <2>2, <2>3, CommandStep
<1>4. CASE Straighten
  <2>1. PICK rpm \in CruiseRpms :
          forward' = RpmToDelta(rpm) /\ SetTargetSpeed(RpmToDelta(rpm), RpmToDelta(rpm))
        BY <1>4 DEF Straighten
  <2>2. RpmToDelta(rpm) \in Nat
        BY DeltaIsNatural
  <2>3. /\ by' \in Branches \ {"line"} /\ turn' \in Int
        /\ UNCHANGED filter \/ ResetFilter
        BY <1>0, <1>4 DEF Straighten, Branches
  <2> QED
      BY <2>1, <2>2, <2>3, TargetStep
<1>5. CASE Settle
  <2>1. PICK rpm \in CruiseRpms :
          forward' = RpmToDelta(rpm) /\ SetTargetSpeed(RpmToDelta(rpm), RpmToDelta(rpm))
        BY <1>5 DEF Settle
  <2>2. RpmToDelta(rpm) \in Nat
        BY DeltaIsNatural
  <2>3. by' \in Branches \ {"line"} /\ turn' \in Int /\ UNCHANGED filter
        BY <1>5 DEF Settle, Branches
  <2> QED
      BY <2>1, <2>2, <2>3, TargetStep
<1>6. CASE Straight
  <2>1. PICK speed \in StraightSpeeds, mismatch \in Mismatches :
          Command(speed, StraightSyncTurn(mismatch))
        BY <1>6 DEF Straight
  <2>2. speed \in Nat /\ StraightSyncTurn(mismatch) \in Int
        BY SpeedsAreNatural, SyncTurnBounds
  <2>3. by' \in Branches \ {"line"} /\ UNCHANGED filter
        BY <1>6 DEF Straight, Branches
  <2> QED
      BY <2>1, <2>2, <2>3, CommandStep
<1>7. CASE Find
  <2>1. PICK speed \in FindSpeeds : Command(speed, 0)
        BY <1>7 DEF Find
  <2>2. speed \in Nat
        BY SpeedsAreNatural
  <2>3. by' \in Branches \ {"line"} /\ UNCHANGED filter
        BY <1>7 DEF Find, Branches
  <2> QED
      BY <2>1, <2>2, <2>3, CommandStep
<1>8. CASE MeetLine
  <2>1. PICK rpm \in LineRpms :
          forward' = RpmToDelta(rpm) /\ SetTargetVelocity(RpmToDelta(rpm), 0)
        BY <1>8 DEF MeetLine
  <2>2. RpmToDelta(rpm) \in Nat
        BY DeltaIsNatural
  <2>3. RpmToDelta(rpm) \in Int /\ forward' \in Nat
        BY <2>1, <2>2, SMT
  <2>4. by' \in Branches \ {"line"} /\ ResetFilter /\ turn' \in Int
        BY <1>0, <1>8 DEF MeetLine, Branches
  <2> QED
      BY <2>1, <2>3, <2>4, VelocityStep
<1>9. CASE EnterArc
      BY <1>9, FollowStep DEF EnterArc
<1>10. CASE FollowLine
       BY <1>10, FollowStep DEF FollowLine
<1>11. CASE Recover
  <2>1. RpmToDelta(RecoveryRpm) \in Nat
        BY DeltaIsNatural
  <2>2. Command(RpmToDelta(RecoveryRpm), turn) /\ by' \in Branches \ {"line"} /\ FilterOnArc
        BY <1>11 DEF Recover, Branches
  <2> QED
      BY <1>0, <2>1, <2>2, FilterLeft, CommandStep
<1>12. CASE Exit
  <2>1. ExitSpeed \in Nat /\ ExitTurn \in Int
        BY SpeedsAreNatural, SMT
  <2>2. Command(ExitSpeed, ExitTurn) /\ by' \in Branches \ {"line"} /\ FilterOnArc
        BY <1>12 DEF Exit, Branches
  <2> QED
      BY <2>1, <2>2, FilterLeft, CommandStep
<1>13. CASE LeaveArc
  <2>1. by' \in Branches \ {"line"} /\ UNCHANGED filter /\ turn' \in Int
        BY <1>13 DEF LeaveArc, Branches
  <2>2. CASE UNCHANGED <<forward, wheels>>
        BY <2>1, <2>2, SMT DEF wheels, filter, IInv, TypeOK, NoReverseCommand,
           ErrorWithinSeen, Branches
  <2>3. CASE /\ forward' = 0
             /\ \E sign \in {-1, 1}, rpm \in PivotRpms : SetTargetVelocity(0, sign * RpmToDelta(rpm))
    <3>1. PICK sign \in {-1, 1}, rpm \in PivotRpms : SetTargetVelocity(0, sign * RpmToDelta(rpm))
          BY <2>3
    <3>2. RpmToDelta(rpm) \in Nat
          BY DeltaIsNatural
    <3>3. sign * RpmToDelta(rpm) \in Int
          BY <3>2, SMT
    <3>4. forward' \in Nat /\ 0 \in Int
          BY <2>3
    <3> QED
        BY <2>1, <3>1, <3>3, <3>4, VelocityStep
  <2> QED
      BY <1>13, <2>2, <2>3 DEF LeaveArc
<1>14. CASE Brake
  <2>1. SetTargetSpeed(0, 0) /\ forward' \in Nat /\ turn' \in Int
        BY <1>0, <1>14 DEF Brake
  <2>2. by' \in Branches \ {"line"} /\ FilterOnArc
        BY <1>14 DEF Brake, Branches
  <2> QED
      BY <2>1, <2>2, FilterLeft, TargetStep
<1>15. CASE UNCHANGED vars
       BY <1>15, SMT DEF vars, filter, wheels, IInv, TypeOK, NoReverseCommand, ErrorWithinSeen
<1> QED
    BY <1>1, <1>2, <1>3, <1>4, <1>5, <1>6, <1>7, <1>8, <1>9, <1>10, <1>11, <1>12,
       <1>13, <1>14, <1>15 DEF Next

(* Types and both limits hold together in every state. *)
THEOREM SteeringInvariance == Spec => []IInv
<1>1. Init => IInv
      BY InitInvariant
<1>2. IInv /\ [Next]_vars => IInv'
      BY StepInvariant
<1> QED
    BY <1>1, <1>2, PTL DEF Spec

(* Line following never commands a wheel in reverse, for every tuning of   *)
(* the gains, the slew and the reduction.                                  *)
THEOREM NoWheelReverses == Spec => []NoReverseCommand
<1>1. IInv => NoReverseCommand
      BY DEF IInv
<1> QED
    BY <1>1, SteeringInvariance, PTL

(* The filter never leaves the errors seen since its last reset.           *)
THEOREM ErrorStaysWithinSeen == Spec => []ErrorWithinSeen
<1>1. IInv => ErrorWithinSeen
      BY DEF IInv
<1> QED
    BY <1>1, SteeringInvariance, PTL

(* Both together. *)
THEOREM LineLoopStaysBounded == Spec => []LineLoopIsBounded
<1>1. NoReverseCommand /\ ErrorWithinSeen <=> LineLoopIsBounded
      BY DEF LineLoopIsBounded
<1> QED
    BY <1>1, NoWheelReverses, ErrorStaysWithinSeen, PTL

(* A number between zero and another has its sign and is smaller. *)
LEMMA NearerToZero ==
  \A a, b \in Int : (0 < a /\ a < b) \/ (b < a /\ a < 0) => a * b > 0 /\ Abs(a) < Abs(b)
<1> SUFFICES ASSUME NEW a \in Int, NEW b \in Int, (0 < a /\ a < b) \/ (b < a /\ a < 0)
             PROVE  a * b > 0 /\ Abs(a) < Abs(b)
    OBVIOUS
<1>1. a * b > 0
      BY Z3
<1>2. Abs(a) < Abs(b)
      BY SMT DEF Abs
<1> QED
    BY <1>1, <1>2

(* From one iteration on the line to the next the turn moves by at most    *)
(* the slew step, except towards zero when a limit shrinks.                *)
THEOREM TurnMovesSlowly == Spec => TurnIsSlewed
<1> DEFINE Slewed == by = "line" /\ by' = "line" /\ turn' # 0
                       => \/ Abs(turn' - turn) <= TurnSlew
                          \/ Abs(turn') < Abs(turn) /\ turn' * turn > 0
<1>1. ASSUME IInv, IInv', Next
      PROVE  Slewed
  <2> SUFFICES ASSUME by' = "line", turn' # 0
               PROVE  \/ Abs(turn' - turn) <= TurnSlew
                      \/ Abs(turn') < Abs(turn) /\ turn' * turn > 0
      OBVIOUS
  <2>1. turn \in Int /\ turn' \in Int
        BY <1>1 DEF IInv, TypeOK
  <2>2. EnterArc \/ FollowLine
        BY <1>1 DEF Next, Stand, Halt, Pivot, Straighten, Settle, Straight, Find,
           MeetLine, Recover, Exit, LeaveArc, Brake
  <2>3. PICK s \in Samples, rpm \in Int, fresh \in BOOLEAN, tangent \in BOOLEAN :
          Follow(s, rpm, fresh, tangent)
        BY <2>2, SteeringAssumption DEF EnterArc, FollowLine
  <2>4. \/ Abs(turn' - turn) <= TurnSlew
        \/ turn > 0 /\ 0 < turn' /\ turn' < turn
        \/ turn < 0 /\ turn < turn' /\ turn' < 0
        BY <1>1, <2>3, FollowStep
  <2> QED
      BY <2>1, <2>4, NearerToZero
<1>2. IInv /\ IInv' /\ [Next]_vars => [Slewed]_vars
      BY <1>1
<1> QED
    BY <1>2, SteeringInvariance, PTL DEF Spec, TurnIsSlewed
(***************************************************************************)
(* The car drives on                                                       *)
(***************************************************************************)
(* Where no pivot has been, no wheel runs in reverse; a blind recovery     *)
(* takes a wheel below zero by no more than one step of the slew, which    *)
(* the next iteration on the line takes back.  It can do no worse with any *)
(* turn it may take over.                                                  *)
WheelInv ==
  /\ by \notin {"pivot", "recovery"} => left >= 0 /\ right >= 0
  /\ by = "recovery" => left >= -WheelSlew /\ right >= -WheelSlew
  /\ NotTurning => -TurnCap <= turn /\ turn <= TurnCap
  /\ by = "line" => forward > 0

KeepsOn == IInv /\ WheelInv

(* The numbers of the tuning. *)
LEMMA Tuned ==
  /\ TurnCap \in Nat /\ TurnCap >= 1
  /\ \A rpm \in LineRpms : /\ RpmToDelta(rpm) >= 1
                           /\ 2 * RpmToDelta(rpm) <= 3 * TurnCap
<1> USE SteeringAssumption
<1>1. RpmToDelta(RecoveryRpm) \in Nat
      BY DeltaIsNatural
<1>2. TurnCap \in Nat /\ TurnCap >= 1
      BY <1>1, SMT DEF TurnCap
<1>3. ASSUME NEW rpm \in LineRpms
      PROVE  RpmToDelta(rpm) >= 1
  <2>1. CASE rpm <= 0
        BY <2>1, SMT DEF RpmToDelta
  <2>2. CASE rpm > 0
    <3> DEFINE n == PulsesPerRev * Least(rpm, RatedRpm) * PeriodMs
    <3>1. n >= 30000
          BY <2>2, TuningAssumption
    <3>2. n \in Int
      <4>1. Least(rpm, RatedRpm) \in Int
            BY SMT DEF Least
      <4>2. PulsesPerRev * Least(rpm, RatedRpm) \in Int
            BY <4>1, SMT
      <4> QED
          BY <4>2, SMT
    <3>3. RpmToDelta(rpm) = (n + 30000) \div 60000
          BY <2>2, SMT DEF RpmToDelta
    <3> HIDE DEF n
    <3> QED
        BY <3>1, <3>2, <3>3, SMT
  <2> QED
      BY <2>1, <2>2, SMT
<1> QED
    BY <1>2, <1>3, TuningAssumption DEF TurnCap

(* The turn keeps within its last limit, and that within the cap. *)
LEMMA LimitedByCap ==
  ASSUME NEW goal \in Int, NEW base \in Nat, NEW slowed \in Nat,
         slowed <= base, 2 * base <= 3 * TurnCap, turn \in Int
  PROVE  /\ LimitedTurn(goal, base, slowed) >= -TurnCap
         /\ LimitedTurn(goal, base, slowed) <= TurnCap
<1> DEFINE x == Clamp(base, SlewTo(turn, goal, TurnSlew))
<1>1. x \in Int
  <2>1. SlewTo(turn, goal, TurnSlew) \in Int
        BY SlewBounds, SteeringAssumption
  <2> QED
      BY <2>1, ClampBounds, SMT
<1> HIDE DEF x
<1>2. TurnLimit(slowed) \in Nat /\ TurnLimit(slowed) <= TurnCap
      BY Tuned, SMT DEF TurnLimit, Greatest
<1>3. Clamp(TurnLimit(slowed), x) \in (-TurnLimit(slowed)) .. TurnLimit(slowed)
      BY <1>1, <1>2, ClampBounds
<1>4. LimitedTurn(goal, base, slowed) = Clamp(TurnLimit(slowed), x)
      BY DEF LimitedTurn, x
<1> QED
    BY <1>2, <1>3, <1>4, Tuned, SMT

(* Targets forward by more than the turn bring wheels forward that are     *)
(* behind by a step at most.                                               *)
LEMMA ForwardTargets ==
  ASSUME TypeOK, NEW f \in Int, NEW t \in Int, SetTargetVelocity(f, t),
         -f <= t, t <= f, left >= -WheelSlew, right >= -WheelSlew
  PROVE  left' >= 0 /\ right' >= 0
<1>1. Clamp(Rated, f + t) >= 0 /\ Clamp(Rated, f - t) >= 0
      BY SteeringAssumption, SMT DEF Clamp
<1>2. Clamp(Rated, f + t) \in Int /\ Clamp(Rated, f - t) \in Int
      BY SteeringAssumption, SMT DEF Clamp
<1> DEFINE l == Clamp(Rated, f + t)
           r == Clamp(Rated, f - t)
<1>3. left' = SlewTo(left, l, WheelSlew) /\ right' = SlewTo(right, r, WheelSlew)
      BY DEF SetTargetVelocity
<1> HIDE DEF l, r
<1>4. left \in Int /\ right \in Int
      BY SteeringAssumption, SMT DEF TypeOK
<1>5. l >= 0 /\ r >= 0 /\ l \in Int /\ r \in Int
      BY <1>1, <1>2 DEF l, r
<1> QED
    BY <1>3, <1>4, <1>5, SteeringAssumption, SMT DEF SlewTo

(* Targets that reverse by at most a step leave the wheels there. *)
LEMMA BlindTargets ==
  ASSUME TypeOK, NEW f \in Int, NEW t \in Int, SetTargetVelocity(f, t),
         f + t >= -WheelSlew, f - t >= -WheelSlew,
         left >= -WheelSlew, right >= -WheelSlew
  PROVE  left' >= -WheelSlew /\ right' >= -WheelSlew
<1> DEFINE l == Clamp(Rated, f + t)
           r == Clamp(Rated, f - t)
<1>1. l >= -WheelSlew /\ r >= -WheelSlew /\ l \in Int /\ r \in Int
      BY SteeringAssumption, SMT DEF Clamp
<1>2. left' = SlewTo(left, l, WheelSlew) /\ right' = SlewTo(right, r, WheelSlew)
      BY DEF SetTargetVelocity
<1> HIDE DEF l, r
<1>3. left \in Int /\ right \in Int
      BY SteeringAssumption, SMT DEF TypeOK
<1> QED
    BY <1>1, <1>2, <1>3, SteeringAssumption, SMT DEF SlewTo

(* An iteration on the line. *)
LEMMA FollowKeepsOn ==
  ASSUME KeepsOn, NEW s \in Samples, NEW rpm \in LineRpms,
         NEW fresh \in BOOLEAN, NEW tangent \in BOOLEAN,
         NotTurning, Follow(s, rpm, fresh, tangent)
  PROVE  KeepsOn'
<1> USE SteeringAssumption
<1> DEFINE base == RpmToDelta(rpm)
           f == Filtered(s[1], fresh)
           d == f - (IF fresh THEN 0 ELSE lastError)
           slowed == SlowedBase(f, base)
           goal == GoalTurn(f, d, s[2], base)
           t == IF tangent THEN 0 ELSE LimitedTurn(goal, base, slowed)
<1>1. IInv /\ WheelInv /\ TypeOK /\ rpm \in Int
      BY DEF KeepsOn, IInv
<1>2. IInv'
      BY <1>1, FollowStep
<1>3. s[1] \in Int /\ s[2] \in {-1, 0, 1} /\ lastError \in Int /\ turn \in Int
      BY <1>1, SMT DEF TypeOK
<1>4. base \in Nat /\ base >= 1 /\ 2 * base <= 3 * TurnCap
      BY <1>1, DeltaIsNatural, Tuned
<1>5. by' = "line" /\ turn' = t /\ forward' = slowed /\ SetTargetVelocity(slowed, t)
      BY DEF Follow, Command
<1> HIDE DEF base
<1>6. f \in Int
      BY <1>1, <1>3, FilteredBounds
<1> HIDE DEF f
<1>7. d \in Int
      BY <1>3, <1>6, SMT
<1> HIDE DEF d
<1>8. slowed \in Nat /\ slowed <= base /\ slowed >= 1
      BY <1>4, <1>6, SlowedBounds
<1> HIDE DEF slowed
<1>9. goal \in Int
      BY <1>3, <1>4, <1>6, <1>7, GoalIsNumber
<1> HIDE DEF goal
<1>10. t \in Int /\ -TurnCap <= t /\ t <= TurnCap /\ -slowed <= t /\ t <= slowed
  <2>1. CASE tangent
        BY <1>8, <2>1, Tuned, SMT
  <2>2. CASE ~ tangent
    <3>1. /\ LimitedTurn(goal, base, slowed) >= -TurnCap
          /\ LimitedTurn(goal, base, slowed) <= TurnCap
          BY <1>3, <1>4, <1>8, <1>9, LimitedByCap
    <3>2. /\ LimitedTurn(goal, base, slowed) \in Int
          /\ -slowed <= LimitedTurn(goal, base, slowed)
          /\ LimitedTurn(goal, base, slowed) <= slowed
          BY <1>3, <1>4, <1>8, <1>9, LimitedBounds
    <3> QED
        BY <2>2, <3>1, <3>2, Tuned, SMT
  <2> QED
      BY <2>1, <2>2
<1> HIDE DEF t
<1>11. left >= -WheelSlew /\ right >= -WheelSlew
  <2>1. left \in Int /\ right \in Int
        BY <1>1, SMT DEF TypeOK
  <2> QED
      BY <1>1, <2>1, SMT DEF WheelInv, NotTurning
<1>12. left' >= 0 /\ right' >= 0
       BY <1>1, <1>5, <1>8, <1>10, <1>11, ForwardTargets, SMT
<1>13. WheelInv'
  <2>1. TurnCap' = TurnCap
        BY DEF TurnCap, RpmToDelta
  <2>2. forward' > 0
        BY <1>5, <1>8, SMT
  <2> QED
      BY <1>5, <1>10, <1>12, <2>1, <2>2 DEF WheelInv, NotTurning
<1> QED
    BY <1>2, <1>13 DEF KeepsOn

(* Each iteration leaves the wheels as WheelInv says. *)
LEMMA KeepsOnStep == KeepsOn /\ [Next]_vars => KeepsOn'
<1> SUFFICES ASSUME KeepsOn, [Next]_vars
             PROVE  KeepsOn'
    OBVIOUS
<1> USE SteeringAssumption
<1>0. /\ IInv /\ IInv' /\ WheelInv /\ TypeOK
      /\ turn \in Int /\ left \in Int /\ right \in Int
      /\ TurnCap \in Nat /\ TurnCap >= 1 /\ TurnCap' = TurnCap
  <2>1. IInv /\ IInv' /\ WheelInv /\ TypeOK
        BY StepInvariant DEF KeepsOn, IInv
  <2>2. turn \in Int /\ left \in Int /\ right \in Int
        BY <2>1, SMT DEF TypeOK
  <2>3. TurnCap' = TurnCap
        BY DEF TurnCap, RpmToDelta
  <2> QED
      BY <2>1, <2>2, <2>3, Tuned
<1>a. NotTurning \/ by # "pivot" => left >= -WheelSlew /\ right >= -WheelSlew
      BY <1>0, SMT DEF WheelInv, NotTurning
<1>1. CASE Stand
  <2>1. left' = 0 /\ right' = 0
        BY <1>1, SMT DEF Stand, SetTargetSpeed, Clamp
  <2> QED
      BY <1>0, <1>1, <2>1 DEF KeepsOn, WheelInv, Stand
<1>2. CASE Halt
  <2>1. left' = 0 /\ right' = 0 /\ by' = "stand"
        BY <1>2, SMT DEF Halt, SetTargetSpeed, Clamp
  <2>2. -TurnCap <= turn' /\ turn' <= TurnCap
        BY <1>0, <1>2, SMT DEF WheelInv, Halt
  <2> QED
      BY <1>0, <2>1, <2>2 DEF KeepsOn, WheelInv
<1>3. CASE Pivot
      BY <1>0, <1>3 DEF KeepsOn, WheelInv, Pivot, NotTurning
<1>4. CASE Straighten
  <2>1. PICK rpm \in CruiseRpms : SetTargetSpeed(RpmToDelta(rpm), RpmToDelta(rpm))
        BY <1>4 DEF Straighten
  <2>2. RpmToDelta(rpm) \in Nat
        BY DeltaIsNatural
  <2>3. left' >= 0 /\ right' >= 0
        BY <2>1, <2>2, SMT DEF SetTargetSpeed, Clamp
  <2> QED
      BY <1>0, <1>4, <2>3 DEF KeepsOn, WheelInv, Straighten, NotTurning
<1>5. CASE Settle
  <2>1. PICK rpm \in CruiseRpms : SetTargetSpeed(RpmToDelta(rpm), RpmToDelta(rpm))
        BY <1>5 DEF Settle
  <2>2. RpmToDelta(rpm) \in Nat
        BY DeltaIsNatural
  <2>3. left' >= 0 /\ right' >= 0
        BY <2>1, <2>2, SMT DEF SetTargetSpeed, Clamp
  <2>4. turn' = 0 /\ by' = "straight"
        BY <1>5 DEF Settle
  <2>5. -TurnCap <= turn' /\ turn' <= TurnCap
        BY <1>0, <2>4, SMT
  <2> QED
      BY <1>0, <2>3, <2>4, <2>5 DEF KeepsOn, WheelInv
<1>6. CASE Straight
  <2>1. PICK speed \in StraightSpeeds, mismatch \in Mismatches :
          Command(speed, StraightSyncTurn(mismatch))
        BY <1>6 DEF Straight
  <2> DEFINE t == StraightSyncTurn(mismatch)
  <2>2. speed \in Nat /\ SyncMax <= speed /\ SyncMax <= TurnCap
        BY SpeedsAreNatural, TuningAssumption
  <2>3. t \in Int /\ -SyncMax <= t /\ t <= SyncMax
        BY SyncTurnBounds
  <2>4. SetTargetVelocity(speed, t) /\ turn' = t /\ by' = "straight"
        BY <1>6, <2>1 DEF Command, Straight
  <2> HIDE DEF t
  <2>5. left >= -WheelSlew /\ right >= -WheelSlew
        BY <1>a, <1>6 DEF Straight
  <2>6. left' >= 0 /\ right' >= 0
        BY <1>0, <2>2, <2>3, <2>4, <2>5, ForwardTargets, SMT
  <2>7. -TurnCap <= turn' /\ turn' <= TurnCap
        BY <1>0, <2>2, <2>3, <2>4, SMT
  <2> QED
      BY <1>0, <2>4, <2>6, <2>7 DEF KeepsOn, WheelInv
<1>7. CASE Find
  <2>1. PICK speed \in FindSpeeds : Command(speed, 0)
        BY <1>7 DEF Find
  <2>2. speed \in Nat
        BY SpeedsAreNatural
  <2>3. SetTargetVelocity(speed, 0) /\ turn' = 0 /\ by' = "find"
        BY <1>7, <2>1 DEF Command, Find
  <2>4. left >= -WheelSlew /\ right >= -WheelSlew
        BY <1>a, <1>7 DEF Find
  <2>5. left' >= 0 /\ right' >= 0
        BY <1>0, <2>2, <2>3, <2>4, ForwardTargets, SMT
  <2>6. -TurnCap <= turn' /\ turn' <= TurnCap
        BY <1>0, <2>3, SMT
  <2> QED
      BY <1>0, <2>3, <2>5, <2>6 DEF KeepsOn, WheelInv
<1>8. CASE MeetLine
  <2>1. PICK rpm \in LineRpms : SetTargetVelocity(RpmToDelta(rpm), 0)
        BY <1>8 DEF MeetLine
  <2>2. RpmToDelta(rpm) \in Nat
        BY DeltaIsNatural
  <2>3. by \in {"stand", "straight"} /\ turn' = turn /\ by' = "entry"
        BY <1>8 DEF MeetLine
  <2>4. left >= -WheelSlew /\ right >= -WheelSlew /\ -TurnCap <= turn /\ turn <= TurnCap
        BY <1>0, <1>a, <2>3 DEF WheelInv, NotTurning
  <2>5. left' >= 0 /\ right' >= 0
    <3> HIDE DEF RpmToDelta
    <3> QED
        BY <1>0, <2>1, <2>2, <2>4, ForwardTargets, SMT
  <2> QED
      BY <1>0, <2>3, <2>4, <2>5 DEF KeepsOn, WheelInv
<1>9. CASE EnterArc
      BY <1>9, FollowKeepsOn DEF EnterArc, NotTurning
<1>10. CASE FollowLine
       BY <1>10, FollowKeepsOn DEF FollowLine
<1>11. CASE Recover
  <2> DEFINE f == RpmToDelta(RecoveryRpm)
  <2>1. f \in Nat /\ TurnCap = f + WheelSlew
        BY DeltaIsNatural DEF TurnCap
  <2>2. SetTargetVelocity(f, turn) /\ turn' = turn /\ by' = "recovery"
        BY <1>11 DEF Recover, Command
  <2> HIDE DEF f
  <2>3. /\ -TurnCap <= turn /\ turn <= TurnCap
        /\ left >= -WheelSlew /\ right >= -WheelSlew
        BY <1>0, <1>a, <1>11 DEF WheelInv, Recover
  <2>4. f + turn >= -WheelSlew /\ f - turn >= -WheelSlew
        BY <1>0, <2>1, <2>3, SMT
  <2>5. left' >= -WheelSlew /\ right' >= -WheelSlew
        BY <1>0, <2>1, <2>2, <2>3, <2>4, BlindTargets
  <2> QED
      BY <1>0, <2>2, <2>3, <2>5 DEF KeepsOn, WheelInv
<1>12. CASE Exit
  <2>1. ExitSpeed \in Nat /\ ExitTurn \in Nat /\ ExitTurn <= ExitSpeed
        BY SpeedsAreNatural
  <2>2. SetTargetVelocity(ExitSpeed, ExitTurn) /\ turn' = ExitTurn /\ by' = "exit"
        BY <1>12 DEF Exit, Command
  <2>3. left >= -WheelSlew /\ right >= -WheelSlew
        BY <1>a, <1>12 DEF Exit
  <2>4. left' >= 0 /\ right' >= 0
        BY <1>0, <2>1, <2>2, <2>3, ForwardTargets, SMT
  <2>5. -TurnCap <= turn' /\ turn' <= TurnCap
        BY <1>0, <2>1, <2>2, TuningAssumption, SMT
  <2> QED
      BY <1>0, <2>2, <2>4, <2>5 DEF KeepsOn, WheelInv
<1>13. CASE LeaveArc
      BY <1>0, <1>13 DEF KeepsOn, WheelInv, LeaveArc, NotTurning
<1>14. CASE Brake
  <2>1. left' = 0 /\ right' = 0 /\ by' = "brake"
        BY <1>14, SMT DEF Brake, SetTargetSpeed, Clamp
  <2>2. -TurnCap <= turn' /\ turn' <= TurnCap
        BY <1>0, <1>14, SMT DEF WheelInv, Brake
  <2> QED
      BY <1>0, <2>1, <2>2 DEF KeepsOn, WheelInv
<1>15. CASE UNCHANGED vars
       BY <1>0, <1>15 DEF KeepsOn, WheelInv, NotTurning, vars, wheels
<1> QED
    BY <1>1, <1>2, <1>3, <1>4, <1>5, <1>6, <1>7, <1>8, <1>9, <1>10, <1>11, <1>12,
       <1>13, <1>14, <1>15 DEF Next

(* Wherever the car has a line or a straight it drives on forward, for     *)
(* all tunings of which TuningAssumption holds and every history of Next:  *)
(* recoveries behind any branch that leaves a turn, the exit alignment,    *)
(* brakes, pivots and pauses (control_task.c:1664, :782).                  *)
THEOREM CarDrivesOn == Spec => []CarKeepsOn
<1>1. Init => KeepsOn
  <2>1. ASSUME Init
        PROVE  WheelInv
        BY <2>1, Tuned, SMT DEF Init, WheelInv, NotTurning
  <2> QED
      BY <2>1, InitInvariant DEF KeepsOn
<1>2. KeepsOn /\ [Next]_vars => KeepsOn'
      BY KeepsOnStep
<1>3. KeepsOn => CarKeepsOn
      BY DEF KeepsOn, WheelInv, CarKeepsOn, WheelsRunForward, LineKeepsMoving
<1> QED
    BY <1>1, <1>2, <1>3, PTL DEF Spec


(***************************************************************************)
(* The sum of a finite set                                                 *)
(***************************************************************************)
One(set) == CHOOSE x \in set : TRUE

IsSum(f, set) ==
  f = [s \in SUBSET set |-> IF s = {} THEN 0 ELSE One(s) + f[s \ {One(s)}]]

(* The function of which SumSet is the last value. *)
Sums(set) == CHOOSE f : IsSum(f, set)

LEMMA SumOfSums == ASSUME NEW set PROVE SumSet(set) = Sums(set)[set]
  BY DEF SumSet, FoldSet, MapThenFoldSet, Sums, IsSum, One

LEMMA OneIsMember == ASSUME NEW set, set # {} PROVE One(set) \in set
  BY DEF One

(* A non-empty family of subsets of a finite set has a least member. *)
LEMMA LeastSubset ==
  ASSUME NEW set, IsFiniteSet(set), NEW family \in SUBSET SUBSET set, family # {}
  PROVE  \E s \in family : \A r \in family : r \subseteq s => r = s
<1>1. FiniteSubsetsOf(set) = SUBSET set
  BY FS_FiniteSubsetsOfFinite
<1>2. IsWellFoundedOn(StrictSubsetOrdering(set), SUBSET set)
  BY <1>1, FS_StrictSubsetOrderingWellFounded
<1>3. PICK s \in family : \A r \in family : ~ (<<r, s>> \in StrictSubsetOrdering(set))
  BY <1>2, WFMin
<1>4. ASSUME NEW r \in family, r \subseteq s PROVE r = s
  <2>1. ~ (<<r, s>> \in StrictSubsetOrdering(set))
    BY <1>3
  <2>2. r \in SUBSET set /\ s \in SUBSET set
    OBVIOUS
  <2> QED BY <1>4, <2>1, <2>2 DEF StrictSubsetOrdering
<1> QED BY <1>4

LEMMA SumIsUnique ==
  ASSUME NEW set, IsFiniteSet(set), NEW f, NEW g, IsSum(f, set), IsSum(g, set)
  PROVE  f = g
<1> DEFINE F(h) == [s \in SUBSET set |-> IF s = {} THEN 0 ELSE One(s) + h[s \ {One(s)}]]
           bad == {s \in SUBSET set : f[s] # g[s]}
<1>1. f = F(f) /\ g = F(g)
  BY DEF IsSum
<1>2. bad = {}
  <2> SUFFICES ASSUME bad # {} PROVE FALSE
    OBVIOUS
  <2>1. PICK s \in bad : \A r \in bad : r \subseteq s => r = s
    <3>1. bad \in SUBSET SUBSET set
      OBVIOUS
    <3> HIDE DEF bad
    <3> QED BY <3>1, LeastSubset
  <2>2. s \in SUBSET set /\ f[s] # g[s]
    OBVIOUS
  <2>3. s # {}
    BY <1>1, <2>2
  <2>4. One(s) \in s
    BY <2>3, OneIsMember
  <2> DEFINE r == s \ {One(s)}
  <2>5. r \in SUBSET set /\ r \subseteq s /\ r # s
    BY <2>2, <2>4
  <2>6. f[r] = g[r]
    BY <2>1, <2>5
  <2>7. f[s] = One(s) + f[r] /\ g[s] = One(s) + g[r]
    BY <1>1, <2>2, <2>3
  <2> QED BY <2>2, <2>6, <2>7
<1>3. DOMAIN f = SUBSET set /\ DOMAIN g = SUBSET set /\ f = [s \in SUBSET set |-> f[s]]
      /\ g = [s \in SUBSET set |-> g[s]]
  BY <1>1
<1> QED BY <1>2, <1>3

LEMMA SumRestricts ==
  ASSUME NEW set, NEW f, IsSum(f, set), NEW s \in SUBSET set
  PROVE  IsSum([r \in SUBSET s |-> f[r]], s)
<1> DEFINE g == [r \in SUBSET s |-> f[r]]
           G == [r \in SUBSET s |-> IF r = {} THEN 0 ELSE One(r) + g[r \ {One(r)}]]
<1>1. ASSUME NEW r \in SUBSET s
      PROVE  g[r] = G[r]
  <2>1. r \in SUBSET set
    OBVIOUS
  <2>2. f[r] = IF r = {} THEN 0 ELSE One(r) + f[r \ {One(r)}]
    BY <2>1 DEF IsSum
  <2>3. r \ {One(r)} \in SUBSET s
    OBVIOUS
  <2> QED BY <2>2, <2>3
<1>2. g = G
  BY <1>1
<1> QED BY <1>2 DEF IsSum

LEMMA SumExists ==
  ASSUME NEW set, IsFiniteSet(set)
  PROVE  \E f : IsSum(f, set)
<1> DEFINE bad == {s \in SUBSET set : ~ \E f : IsSum(f, s)}
<1> SUFFICES bad = {}
  OBVIOUS
<1> SUFFICES ASSUME bad # {} PROVE FALSE
  OBVIOUS
<1>1. PICK s \in bad : \A r \in bad : r \subseteq s => r = s
  <2>1. bad \in SUBSET SUBSET set
    OBVIOUS
  <2> HIDE DEF bad
  <2> QED BY <2>1, LeastSubset
<1>2. s \in SUBSET set /\ ~ \E f : IsSum(f, s)
  OBVIOUS
<1>3. \A r \in SUBSET s : r # s => \E f : IsSum(f, r)
  BY <1>1, <1>2
<1>4. \A r \in SUBSET s : IsFiniteSet(r)
  BY <1>2, FS_Subset
<1> HIDE DEF bad
<1> DEFINE Part(r) == CHOOSE f : IsSum(f, r)
           Value(r) == Part(r)[r]
           e == s \ {One(s)}
           g == [r \in SUBSET s |-> IF r = {} THEN 0
                                    ELSE One(r) + Value(r \ {One(r)})]
<1>5. ASSUME NEW r \in SUBSET s, r # s
      PROVE  IsSum(Part(r), r)
  BY <1>3, <1>5
<1>6. ASSUME NEW r \in SUBSET s, r # s, r # {}
      PROVE  Value(r) = One(r) + Value(r \ {One(r)})
  <2> DEFINE p == r \ {One(r)}
  <2>1. One(r) \in r
    BY <1>6, OneIsMember
  <2>2. p \in SUBSET r /\ p \in SUBSET s /\ p # s
    BY <1>6, <2>1
  <2>3. IsSum(Part(r), r) /\ IsSum(Part(p), p)
    BY <1>5, <1>6, <2>2
  <2> HIDE DEF p
  <2> DEFINE h == [q \in SUBSET p |-> Part(r)[q]]
  <2>4. IsSum(h, p)
    BY <2>2, <2>3, SumRestricts
  <2>5. h = Part(p)
    BY <1>4, <2>2, <2>3, <2>4, SumIsUnique
  <2>6. Part(p)[p] = Part(r)[p]
    <3>1. h[p] = Part(r)[p]
      OBVIOUS
    <3> HIDE DEF h
    <3> QED BY <2>5, <3>1
  <2>7. Part(r)[r] = One(r) + Part(r)[p]
    <3> HIDE DEF Part
    <3> QED BY <1>6, <2>3 DEF IsSum, p
  <2> QED BY <2>6, <2>7 DEF p
<1>7. ASSUME NEW r \in SUBSET s, r # s
      PROVE  Value(r) = g[r]
  <2>1. CASE r = {}
    <3>1. Part(r)[r] = 0
      <4> HIDE DEF Part
      <4> QED BY <1>5, <1>7, <2>1 DEF IsSum
    <3> QED BY <2>1, <3>1
  <2>2. CASE r # {}
    BY <1>6, <1>7, <2>2
  <2> QED BY <2>1, <2>2
<1>8. g = [r \in SUBSET s |-> IF r = {} THEN 0 ELSE One(r) + g[r \ {One(r)}]]
  <2> HIDE DEF Value
  <2>1. ASSUME NEW r \in SUBSET s, r # {}
        PROVE  Value(r \ {One(r)}) = g[r \ {One(r)}]
    <3>1. One(r) \in r
      BY <2>1, OneIsMember
    <3>2. r \ {One(r)} \in SUBSET s /\ r \ {One(r)} # s
      BY <3>1
    <3> HIDE DEF g
    <3> QED BY <1>7, <3>2
  <2>2. \A r \in SUBSET s : g[r] = IF r = {} THEN 0 ELSE One(r) + g[r \ {One(r)}]
    BY <2>1
  <2>3. g = [r \in SUBSET s |-> g[r]]
    OBVIOUS
  <2> HIDE DEF g
  <2> QED BY <2>2, <2>3
<1> HIDE DEF g
<1>9. IsSum(g, s)
  BY <1>8 DEF IsSum
<1> QED BY <1>2, <1>9

(* What SumSet does: it takes a member away and adds it to the sum of the  *)
(* others.                                                                 *)
LEMMA SumOfSet ==
  ASSUME NEW set, IsFiniteSet(set)
  PROVE  /\ SumSet({}) = 0
         /\ set # {} => SumSet(set) = One(set) + SumSet(set \ {One(set)})
<1>1. ASSUME NEW s, IsFiniteSet(s)
      PROVE  IsSum(Sums(s), s)
  BY <1>1, SumExists DEF Sums
<1>2. SumSet({}) = 0
  <2>1. IsSum(Sums({}), {})
    BY <1>1, FS_EmptySet
  <2>2. Sums({})[{}] = 0
    BY <2>1 DEF IsSum
  <2> QED BY <2>2, SumOfSums
<1>3. ASSUME set # {}
      PROVE  SumSet(set) = One(set) + SumSet(set \ {One(set)})
  <2> DEFINE rest == set \ {One(set)}
             h == [r \in SUBSET rest |-> Sums(set)[r]]
  <2>1. rest \in SUBSET set /\ IsFiniteSet(rest)
    BY FS_Subset
  <2>2. IsSum(Sums(set), set) /\ IsSum(Sums(rest), rest)
    BY <1>1, <2>1
  <2>3. Sums(set)[set] = One(set) + Sums(set)[rest]
    BY <1>3, <2>2 DEF IsSum
  <2>4. h = Sums(rest)
    <3> HIDE DEF rest
    <3>1. IsSum(h, rest)
      BY <2>1, <2>2, SumRestricts
    <3> HIDE DEF h
    <3> QED BY <2>1, <2>2, <3>1, SumIsUnique
  <2>5. h[rest] = Sums(set)[rest]
    OBVIOUS
  <2> HIDE DEF h, rest
  <2>6. SumSet(set) = Sums(set)[set] /\ SumSet(rest) = Sums(rest)[rest]
    BY SumOfSums
  <2> QED BY <2>3, <2>4, <2>5, <2>6 DEF rest
<1> QED BY <1>2, <1>3

(* The sum of a set of integers lies between its bounds times its size.    *)
LEMMA SumBounds ==
  ASSUME NEW set, set \subseteq Int, IsFiniteSet(set), NEW low \in Int, NEW high \in Int,
         \A x \in set : low <= x /\ x <= high
  PROVE  /\ SumSet(set) \in Int
         /\ low * Cardinality(set) <= SumSet(set)
         /\ SumSet(set) <= high * Cardinality(set)
<1> DEFINE Bounded(s) == /\ SumSet(s) \in Int
                         /\ low * Cardinality(s) <= SumSet(s)
                         /\ SumSet(s) <= high * Cardinality(s)
           bad == {s \in SUBSET set : ~ Bounded(s)}
<1> SUFFICES bad = {}
  OBVIOUS
<1> SUFFICES ASSUME bad # {} PROVE FALSE
  OBVIOUS
<1>1. PICK s \in bad : \A r \in bad : r \subseteq s => r = s
  <2>1. bad \in SUBSET SUBSET set
    OBVIOUS
  <2>2. bad # {}
    OBVIOUS
  <2> HIDE DEF bad
  <2> QED BY ONLY <2>1, <2>2, IsFiniteSet(set), LeastSubset
<1>2. s \in SUBSET set /\ ~ Bounded(s) /\ IsFiniteSet(s)
  BY FS_Subset
<1>3. s # {}
  <2>1. SumSet({}) = 0 /\ Cardinality({}) = 0
    BY SumOfSet, FS_EmptySet
  <2>2. Bounded({})
    BY <2>1
  <2> QED BY <1>2, <2>2
<1> DEFINE x == One(s)
           r == s \ {x}
<1>4. x \in s /\ x \in Int /\ low <= x /\ x <= high
  BY <1>2, <1>3, OneIsMember
<1>5. r \in SUBSET set /\ r \subseteq s /\ r # s
  BY <1>2, <1>4
<1>6. Bounded(r)
  BY <1>1, <1>5
<1>7. SumSet(s) = x + SumSet(r)
  BY <1>2, <1>3, SumOfSet
<1>8. Cardinality(s) = Cardinality(r) + 1 /\ Cardinality(r) \in Nat
  <2>1. Cardinality(r) = Cardinality(s) - 1 /\ IsFiniteSet(r)
    BY <1>2, <1>4, FS_RemoveElement
  <2>2. Cardinality(r) \in Nat /\ Cardinality(s) \in Nat
    BY <1>2, <2>1, FS_CardinalityType
  <2> QED BY <2>1, <2>2
<1> DEFINE n == Cardinality(r)
           m == Cardinality(s)
           a == SumSet(r)
           b == SumSet(s)
<1>9. b \in Int /\ low * m <= b /\ b <= high * m
  <2>1. m = n + 1 /\ n \in Nat /\ b = x + a /\ a \in Int /\ low * n <= a /\ a <= high * n
    BY <1>6, <1>7, <1>8
  <2>2. x \in Int /\ low <= x /\ x <= high
    BY <1>4
  <2> HIDE DEF n, m, a, b, x
  <2>3. low * m = low * n + low /\ high * m = high * n + high
    BY <2>1
  <2>4. low * n \in Int /\ high * n \in Int
    BY <2>1
  <2> QED BY <2>1, <2>2, <2>3, <2>4
<1> QED BY <1>2, <1>9

(* The average of the sensors on the line lies between two of them.        *)
LEMMA AverageBetween ==
  ASSUME NEW mask \in SUBSET Sensors, mask # {}
  PROVE  /\ \E i \in mask : 1000 * i <= Average(mask)
         /\ \E i \in mask : Average(mask) <= 1000 * i
<1> DEFINE set == {1000 * i : i \in mask}
           n == Cardinality(mask)
           v == Average(mask)
           sum == SumSet(set)
<1>1. SensorCount \in Nat
  BY LineSensorAssumption
<1>2. IsFiniteSet(mask) /\ n \in Nat \ {0}
  <2>1. IsFiniteSet(Sensors)
    BY <1>1, FS_Interval DEF Sensors
  <2>2. IsFiniteSet(mask)
    BY <2>1, FS_Subset
  <2> QED BY <2>2, FS_CardinalityType, FS_EmptySet
<1>3. IsFiniteSet(set) /\ Cardinality(set) = n
  <2> DEFINE f == [i \in mask |-> 1000 * i]
  <2>1. f \in [mask -> set] /\ \A x \in set : \E i \in mask : f[i] = x
    OBVIOUS
  <2>2. ASSUME NEW i \in mask, NEW j \in mask, f[i] = f[j]
        PROVE  i = j
    <3>1. i \in Int /\ j \in Int
      BY <1>1 DEF Sensors
    <3>2. 1000 * i = 1000 * j
      BY <2>2
    <3> QED BY <3>1, <3>2
  <2> HIDE DEF f, set
  <2>3. f \in Bijection(mask, set)
    BY <2>1, <2>2 DEF Bijection, Injection, Surjection, IsInjective
  <2>4. ExistsBijection(mask, set)
    BY <2>3 DEF ExistsBijection
  <2> QED BY <1>2, <2>4, FS_Bijection
<1> DEFINE most == 1000 * SensorCount
<1>4. /\ set \subseteq Int /\ 0 \in Int /\ most \in Int
      /\ \A x \in set : 0 <= x /\ x <= most
  BY <1>1 DEF Sensors
<1>5. v = sum \div n
  BY DEF Average
<1>6. \A i \in mask : i \in Int /\ 1000 * i \in set
  BY <1>1 DEF Sensors
<1>7. \A x \in set : \E i \in mask : x = 1000 * i
  OBVIOUS
<1> HIDE DEF set, v, most
<1>8. sum \in Int /\ 0 <= sum
  <2>1. 0 * Cardinality(set) <= SumSet(set) /\ SumSet(set) \in Int
    BY <1>3, <1>4, SumBounds, Zenon
  <2> QED BY <1>2, <1>3, <2>1
<1>9. ASSUME NEW low \in Int, \A x \in set : low <= x
      PROVE  low * n <= sum
  <2>1. \A x \in set : low <= x /\ x <= most
    BY <1>4, <1>9
  <2>2. low * Cardinality(set) <= SumSet(set)
    BY <1>3, <1>4, <2>1, SumBounds, Zenon
  <2> QED BY <1>3, <2>2
<1>10. ASSUME NEW high \in Int, \A x \in set : x <= high
       PROVE  sum <= high * n
  <2>1. \A x \in set : 0 <= x /\ x <= high
    BY <1>4, <1>10
  <2>2. SumSet(set) <= high * Cardinality(set)
    BY <1>3, <1>4, <2>1, SumBounds, Zenon
  <2> QED BY <1>3, <2>2
<1> HIDE DEF n, sum
<1>11. v \in Int /\ v * n <= sum /\ sum < (v + 1) * n
  <2>1. sum = (n * (sum \div n)) + (sum % n) /\ sum % n \in 0 .. (n - 1) /\ sum \div n \in Int
    <3>1. sum \in Nat
      BY <1>8
    <3> QED BY <1>2, <3>1, SMT
  <2>2. v * n = n * (sum \div n) /\ (v + 1) * n = v * n + n
    <3>1. \A q \in Int : q * n = n * q /\ (q + 1) * n = q * n + n
      BY <1>2
    <3> QED BY <1>5, <2>1, <3>1
  <2>3. v * n \in Int
    BY <1>2, <1>5, <2>1
  <2> QED BY <1>2, <1>5, <1>8, <2>1, <2>2, <2>3
<1>12. \E i \in mask : 1000 * i <= v
  <2> SUFFICES ASSUME \A i \in mask : ~ (1000 * i <= v) PROVE FALSE
    OBVIOUS
  <2>1. \A x \in set : v + 1 <= x
    BY <1>6, <1>7, <1>11
  <2> QED BY <1>2, <1>8, <1>9, <1>11, <2>1
<1>13. \E i \in mask : v <= 1000 * i
  <2> SUFFICES ASSUME \A i \in mask : ~ (v <= 1000 * i) PROVE FALSE
    OBVIOUS
  <2>1. \A x \in set : x <= v - 1
    BY <1>6, <1>7, <1>11
  <2>2. sum <= (v - 1) * n
    BY <1>10, <1>11, <2>1
  <2>3. (v - 1) * n = v * n - n /\ v * n \in Int
    BY <1>2, <1>11
  <2> QED BY <1>2, <1>8, <1>11, <2>2, <2>3
<1> QED BY <1>12, <1>13 DEF v

(***************************************************************************)
(* The vote                                                                *)
(***************************************************************************)
(* What can be under the sensors. *)
Floor == Lines \cup {Gap, Bar}

LEMMA LesserOf ==
  ASSUME NEW a \in Int, NEW b \in Int
  PROVE  Min({a, b}) = IF a <= b THEN a ELSE b
<1>1. \A x \in {a, b} : (\A y \in {a, b} : x =< y) <=> x = (IF a <= b THEN a ELSE b)
  OBVIOUS
<1>2. (IF a <= b THEN a ELSE b) \in {a, b}
  OBVIOUS
<1> QED BY <1>1, <1>2 DEF Min

(* The samples move on by one place. *)
LEMMA SamplesMove ==
  ASSUME under \in Seq(Floor), Len(under) <= 3, NEW l \in Floor,
         under' = SubSeq(<<l>> \o under, 1, Min({Len(under) + 1, 3}))
  PROVE  /\ under' \in Seq(Floor)
         /\ Len(under') = IF Len(under) < 3 THEN Len(under) + 1 ELSE 3
         /\ under'[1] = l
         /\ \A i \in 2 .. Len(under') : under'[i] = under[i - 1]
<1> DEFINE n == IF Len(under) < 3 THEN Len(under) + 1 ELSE 3
           longer == <<l>> \o under
<1>1. Len(under) \in Nat
  OBVIOUS
<1>2. Min({Len(under) + 1, 3}) = n
  BY <1>1, LesserOf
<1>3. /\ longer \in Seq(Floor) /\ Len(longer) = Len(under) + 1 /\ longer[1] = l
      /\ \A i \in 2 .. Len(longer) : longer[i] = under[i - 1]
  BY <1>1
<1>4. under' = SubSeq(longer, 1, n)
  BY <1>2
<1>5. n \in 1 .. Len(longer)
  BY <1>1, <1>3
<1>6. n \in Int /\ 1 <= n /\ \A i \in 1 .. n : longer[i] \in Floor
  <2>1. \A i \in 1 .. Len(longer) : longer[i] \in Floor
    BY <1>3
  <2> QED BY <1>1, <1>3, <1>5, <2>1
<1> HIDE DEF n, longer
<1>7. under' \in Seq(Floor) /\ Len(under') = n /\ \A i \in 1 .. n : under'[i] = longer[i]
  <2>1. /\ SubSeq(longer, 1, n) \in Seq(Floor)
        /\ Len(SubSeq(longer, 1, n)) = IF 1 <= n THEN n - 1 + 1 ELSE 0
        /\ \A i \in 1 .. n - 1 + 1 : SubSeq(longer, 1, n)[i] = longer[1 + i - 1]
    BY <1>6, SubSeqProperties
  <2> DEFINE new == SubSeq(longer, 1, n)
  <2>2. new \in Seq(Floor) /\ Len(new) = n
    BY <1>6, <2>1
  <2>3. ASSUME NEW i \in 1 .. n PROVE new[i] = longer[i]
    <3>1. i \in 1 .. n - 1 + 1 /\ 1 + i - 1 = i
      BY <1>6
    <3> HIDE DEF new
    <3>2. new[i] = longer[1 + i - 1]
      BY <2>1, <3>1 DEF new
    <3> QED BY <3>1, <3>2
  <2>4. under' = new
    BY <1>4
  <2> HIDE DEF new
  <2> QED BY <2>2, <2>3, <2>4
<1>8. under'[1] = l
  BY <1>3, <1>6, <1>7
<1>9. ASSUME NEW i \in 2 .. Len(under')
      PROVE  under'[i] = under[i - 1]
  BY <1>3, <1>5, <1>6, <1>7
<1> QED BY <1>7, <1>8, <1>9 DEF n

(* What one sample may show wrong, and what it then shows as dark.         *)
Wrong == {{}} \cup {{i} : i \in Sensors}
Dark(l, d) == (Covered(l) \cup d) \ (Covered(l) \cap d)

(* The histories hold the samples before, d[i] is what was wrong in the    *)
(* i-th of them, and the snapshot is their vote.                           *)
Recorded(d) ==
  LET n == Len(under)
  IN  /\ \A i \in 1 .. 3 : d[i] # {} => calm = i - 1
      /\ n = 0 => active = {}
      /\ n \in {1, 2} => d[n] = {} /\ active = Dark(under[n], d[n])
      /\ n >= 1 => history1 = Pins(under[1], d[1])
      /\ n = 1 => history2 = history1
      /\ n >= 2 => history2 = Pins(under[2], d[2])
      /\ n = 3 => active = Majority(Dark(under[1], d[1]), Dark(under[2], d[2]),
                                    Dark(under[3], d[3]))

(* The status is that of the snapshot's sensors. *)
Judged ==
  /\ active \subseteq Sensors
  /\ status = "OK" => active \notin {{}, Sensors} /\ position = Average(active)
  /\ active \notin {{}, Sensors} => status = "OK"
  /\ status = "FULL" => active = Sensors

VoteInv ==
  /\ under \in Seq(Floor) /\ Len(under) <= 3
  /\ calm \in 0 .. 2
  /\ voted = IF Len(under) = 0 THEN 0 ELSE 1
  /\ \A i, j \in 1 .. Len(under) : i < j => Near(under[i], under[j], j - i)
  /\ Judged
  /\ \E d \in [1 .. 3 -> Wrong] : Recorded(d)

LEMMA DarkIsOnSensors ==
  ASSUME NEW l, NEW d \in Wrong
  PROVE  Dark(l, d) \subseteq Sensors
  BY DEF Dark, Wrong, Covered

(* The vote on what the pins read is the vote on what is dark, for either  *)
(* polarity of the sensors.                                                *)
LEMMA VoteOnDark ==
  ASSUME NEW A \in SUBSET Sensors, NEW B \in SUBSET Sensors, NEW C \in SUBSET Sensors
  PROVE  ActiveMask(Majority(IF ActiveLow THEN Sensors \ A ELSE A,
                             IF ActiveLow THEN Sensors \ B ELSE B,
                             IF ActiveLow THEN Sensors \ C ELSE C))
           = Majority(A, B, C)
<1>1. CASE ActiveLow
  BY <1>1 DEF ActiveMask, Majority
<1>2. CASE ~ ActiveLow
  BY <1>2 DEF ActiveMask, Majority
<1> QED BY <1>1, <1>2

LEMMA PinsVote ==
  ASSUME NEW k, NEW l, NEW m, NEW c \in Wrong, NEW d \in Wrong, NEW e \in Wrong
  PROVE  ActiveMask(Majority(Pins(k, c), Pins(l, d), Pins(m, e)))
           = Majority(Dark(k, c), Dark(l, d), Dark(m, e))
  BY VoteOnDark, DarkIsOnSensors, Zenon DEF Pins, Dark

(* For Zenon, which does no arithmetic. *)
LEMMA UpToThree ==
  /\ 1 # 0 /\ 2 # 0 /\ 3 # 0 /\ 1 # 2 /\ 1 # 3 /\ 2 # 3
  /\ 1 >= 1 /\ 2 >= 1 /\ 3 >= 1 /\ ~ (1 >= 2) /\ 2 >= 2 /\ 3 >= 2
  OBVIOUS

(* One sample more: the histories and the vote, if the first sample was    *)
(* not disturbed.                                                          *)
LEMMA RecordStep ==
  ASSUME VoteInv, NEW l \in Floor, NEW w \in Wrong,
         NEW d \in [1 .. 3 -> Wrong], Recorded(d),
         w # {} => calm = 2 /\ voted = 1,
         ReadRawMask(Pins(l, w)), active' = ActiveMask(raw'),
         under' = SubSeq(<<l>> \o under, 1, Min({Len(under) + 1, 3})),
         calm' = IF w # {} THEN 0 ELSE Min({calm + 1, 2})
  PROVE  \E e \in [1 .. 3 -> Wrong] : Recorded(e)'
<1> DEFINE n == Len(under)
           e == [i \in 1 .. 3 |-> IF i = 1 THEN w ELSE d[i - 1]]
<1>1. /\ n \in 0 .. 3 /\ calm \in 0 .. 2
      /\ voted = IF n = 0 THEN 0 ELSE 1
  <2>1. under \in Seq(Floor) /\ n <= 3
    BY DEF VoteInv
  <2>2. n \in 0 .. 3
    <3>1. n \in Nat
      BY ONLY <2>1
    <3> HIDE DEF n
    <3> QED BY ONLY <2>1, <3>1
  <2>3. calm \in 0 .. 2 /\ voted = IF Len(under) = 0 THEN 0 ELSE 1
    BY DEF VoteInv
  <2> QED BY <2>2, <2>3
<1>2. /\ Len(under') = IF n < 3 THEN n + 1 ELSE 3
      /\ under'[1] = l
      /\ \A i \in 2 .. Len(under') : under'[i] = under[i - 1]
  BY SamplesMove DEF VoteInv
<1>3. e \in [1 .. 3 -> Wrong] /\ e[1] = w /\ e[2] = d[1] /\ e[3] = d[2]
  OBVIOUS
<1>4. d[1] \in Wrong /\ d[2] \in Wrong /\ d[3] \in Wrong
  OBVIOUS
<1>5. calm' = IF w # {} THEN 0 ELSE IF calm < 2 THEN calm + 1 ELSE 2
  <2>1. Min({calm + 1, 2}) = IF calm < 2 THEN calm + 1 ELSE 2
    BY <1>1, LesserOf
  <2> QED BY <2>1
<1> HIDE DEF e
<1>6. (w # {} => calm' = 0) /\ (d[1] # {} => calm' = 1) /\ (d[2] # {} => calm' = 2)
  BY <1>1, <1>5 DEF Recorded
<1>7. \A i \in 1 .. 3 : e[i] # {} => calm' = i - 1
  BY <1>3, <1>6
<1>8. history1' = Pins(l, w)
  BY DEF ReadRawMask
<1>9. CASE n = 0
  <2>1. w = {} /\ Len(under') = 1
    <3>1. voted = 0
      BY <1>1, <1>9
    <3>2. Len(under') = 1
      BY ONLY <1>2, <1>9
    <3> QED BY ONLY <3>1, <3>2, w # {} => calm = 2 /\ voted = 1
  <2>2. history2' = Pins(l, w) /\ raw' = Majority(Pins(l, w), Pins(l, w), Pins(l, w))
    BY <1>1, <1>9 DEF ReadRawMask
  <2>3. active' = Dark(l, w)
    <3>1. active' = Majority(Dark(l, w), Dark(l, w), Dark(l, w))
      BY <2>2, PinsVote
    <3> QED BY <3>1 DEF Majority
  <2>4. Recorded(e)'
    BY ONLY <1>2, <1>3, <1>7, <1>8, <2>1, <2>2, <2>3, UpToThree, Zenon DEF Recorded
  <2> QED BY <1>3, <2>4
<1>10. CASE n = 1
  <2>1. /\ d[1] = {} /\ history1 = Pins(under[1], d[1]) /\ history2 = history1
        /\ Len(under') = 2 /\ under'[2] = under[1]
    BY ONLY <1>1, <1>2, <1>10, Recorded(d) DEF Recorded
  <2>2. history2' = history1 /\ raw' = Majority(Pins(l, w), history1, history2)
    BY <1>1, <1>10 DEF ReadRawMask
  <2>3. active' = Dark(under[1], d[1])
    <3>1. active' = Majority(Dark(l, w), Dark(under[1], d[1]), Dark(under[1], d[1]))
      BY <1>4, <2>1, <2>2, PinsVote
    <3> QED BY <3>1 DEF Majority
  <2>4. Recorded(e)'
    BY ONLY <1>2, <1>3, <1>7, <1>8, <2>1, <2>2, <2>3, UpToThree, Zenon DEF Recorded
  <2> QED BY <1>3, <2>4
<1>11. CASE n \in {2, 3}
  <2>1. /\ history1 = Pins(under[1], d[1]) /\ history2 = Pins(under[2], d[2])
        /\ Len(under') = 3 /\ under'[2] = under[1] /\ under'[3] = under[2]
    BY ONLY <1>1, <1>2, <1>11, Recorded(d) DEF Recorded
  <2>2. history2' = history1 /\ raw' = Majority(Pins(l, w), history1, history2)
    BY <1>1, <1>11 DEF ReadRawMask
  <2>3. active' = Majority(Dark(l, w), Dark(under[1], d[1]), Dark(under[2], d[2]))
    BY <1>4, <2>1, <2>2, PinsVote
  <2>4. Recorded(e)'
    BY ONLY <1>2, <1>3, <1>7, <1>8, <2>1, <2>2, <2>3, UpToThree, Zenon DEF Recorded
  <2> QED BY <1>3, <2>4
<1> QED BY <1>1, <1>9, <1>10, <1>11

LEMMA JudgedStep ==
  ASSUME NEW mask \in SUBSET Sensors, Update(mask)
  PROVE  Judged'
<1>1. Sensors # {}
  BY LineSensorAssumption DEF Sensors
<1>2. active' = mask
  BY DEF Update
<1>3. CASE mask = {} /\ status' = "LOST"
  BY <1>2, <1>3 DEF Judged
<1>4. CASE mask = Sensors /\ status' = "FULL"
  BY <1>2, <1>4 DEF Judged
<1>5. CASE mask \notin {{}, Sensors} /\ status' = "OK" /\ position' = Average(mask)
  BY <1>2, <1>5 DEF Judged, Average
<1> QED BY <1>3, <1>4, <1>5 DEF Update

LEMMA VoteStep ==
  ASSUME QuietStart, VoteInv, RunOnce
  PROVE  VoteInv'
<1>1. PICK l \in Floor, w \in Wrong :
        /\ MayFollow(l)
        /\ w # {} => calm = 2 /\ (QuietStart => voted = 1)
        /\ ReadRawMask(Pins(l, w))
        /\ under' = SubSeq(<<l>> \o under, 1, Min({Len(under) + 1, 3}))
        /\ calm' = IF w # {} THEN 0 ELSE Min({calm + 1, 2})
  BY DEF RunOnce, Floor, Wrong
<1>2. Update(ActiveMask(raw'))
  BY DEF RunOnce
<1>3. active' = ActiveMask(raw')
  BY <1>2 DEF Update
<1>4. PICK d \in [1 .. 3 -> Wrong] : Recorded(d)
  BY DEF VoteInv
<1>5. \E e \in [1 .. 3 -> Wrong] : Recorded(e)'
  BY <1>1, <1>3, <1>4, RecordStep
<1>6. /\ under' \in Seq(Floor)
      /\ Len(under') = IF Len(under) < 3 THEN Len(under) + 1 ELSE 3
      /\ under'[1] = l
      /\ \A i \in 2 .. Len(under') : under'[i] = under[i - 1]
  BY <1>1, SamplesMove DEF VoteInv
<1>7. Len(under) \in 0 .. 3 /\ calm \in 0 .. 2
  <2>1. under \in Seq(Floor) /\ Len(under) <= 3 /\ calm \in 0 .. 2
    BY DEF VoteInv
  <2>2. Len(under) \in Nat
    BY ONLY <2>1
  <2>3. \A n \in Nat : n <= 3 => n \in 0 .. 3
    OBVIOUS
  <2> QED BY ONLY <2>1, <2>2, <2>3
<1>8. Len(under') <= 3 /\ Len(under') # 0
  BY ONLY <1>6, <1>7
<1>9. calm' \in 0 .. 2 /\ voted' = 1
  <2>1. Min({calm + 1, 2}) = IF calm < 2 THEN calm + 1 ELSE 2
    BY <1>7, LesserOf
  <2>2. calm' \in 0 .. 2
    BY ONLY <1>1, <1>7, <2>1
  <2> QED BY <1>1, <2>2 DEF ReadRawMask
<1>10. ASSUME NEW i \in 1 .. Len(under'), NEW j \in 1 .. Len(under'), i < j
       PROVE  Near(under'[i], under'[j], j - i)
  <2>1. j \in 2 .. Len(under') /\ j - 1 \in 1 .. Len(under) /\ j - 1 <= 2 /\ i \in Int /\ j \in Int
    BY ONLY <1>6, <1>7, <1>8, <1>10
  <2>2. under'[j] = under[j - 1]
    BY <1>6, <2>1
  <2>3. CASE i = 1
    <3>1. Min({Len(under), 2}) = IF Len(under) <= 2 THEN Len(under) ELSE 2
      BY <1>7, LesserOf
    <3>2. j - 1 \in 1 .. Min({Len(under), 2})
      BY <1>7, <2>1, <3>1
    <3>3. Near(l, under[j - 1], j - 1)
      BY <1>1, <3>2 DEF MayFollow
    <3> QED BY <1>6, <2>2, <2>3, <3>3
  <2>4. CASE i # 1
    <3>1. /\ i \in 2 .. Len(under') /\ i - 1 \in 1 .. Len(under) /\ i - 1 < j - 1
          /\ (j - 1) - (i - 1) = j - i
      BY ONLY <1>6, <1>7, <1>10, <2>1, <2>4
    <3>2. under'[i] = under[i - 1]
      BY <1>6, <3>1
    <3>3. Near(under[i - 1], under[j - 1], (j - 1) - (i - 1))
      BY <2>1, <3>1 DEF VoteInv
    <3> QED BY <2>2, <3>1, <3>2, <3>3
  <2> QED BY <2>3, <2>4
<1>11. Judged'
  <2>1. ActiveMask(raw') \in SUBSET Sensors
    <3>1. \E e \in [1 .. 3 -> Wrong] : Recorded(e)'
      BY <1>5
    <3>2. ASSUME NEW e \in [1 .. 3 -> Wrong], Recorded(e)'
          PROVE  active' \subseteq Sensors
      <4>1. e[1] \in Wrong /\ e[2] \in Wrong /\ e[3] \in Wrong
        OBVIOUS
      <4>2. Len(under') \in {1, 2, 3}
        BY ONLY <1>6, <1>7
      <4>3. \/ active' = Dark(under'[1], e[1])
            \/ active' = Dark(under'[2], e[2])
            \/ active' = Majority(Dark(under'[1], e[1]), Dark(under'[2], e[2]),
                                 Dark(under'[3], e[3]))
        BY ONLY <3>2, <4>2, UpToThree, Zenon DEF Recorded
      <4>4. ASSUME NEW A \in SUBSET Sensors, NEW B \in SUBSET Sensors, NEW C \in SUBSET Sensors
            PROVE  Majority(A, B, C) \subseteq Sensors
        BY DEF Majority
      <4>5. /\ Dark(under'[1], e[1]) \in SUBSET Sensors
            /\ Dark(under'[2], e[2]) \in SUBSET Sensors
            /\ Dark(under'[3], e[3]) \in SUBSET Sensors
        BY <4>1, DarkIsOnSensors
      <4> QED BY ONLY <4>3, <4>4, <4>5
    <3> QED BY <1>3, <3>1, <3>2
  <2> QED BY <1>2, <2>1, JudgedStep
<1> QED BY <1>5, <1>6, <1>8, <1>9, <1>10, <1>11 DEF VoteInv

(***************************************************************************)
(* What the vote shows                                                     *)
(***************************************************************************)
Cover(i) == Covered(under[i])

(* Of three samples one may be wrong at one sensor: the other sensors are  *)
(* shown by the majority, nothing is shown that none covered, and what all *)
(* three covered is shown.                                                 *)
LEMMA VoteTruth ==
  ASSUME VoteInv, Len(under) = 3
  PROVE  /\ \E e : \A p : p # e => (p \in active <=> p \in Majority(Cover(1), Cover(2), Cover(3)))
         /\ active \subseteq Cover(1) \cup Cover(2) \cup Cover(3)
         /\ Cover(1) \cap Cover(2) \cap Cover(3) \subseteq active
<1>1. PICK d \in [1 .. 3 -> Wrong] : Recorded(d)
  BY DEF VoteInv
<1>2. /\ active = Majority(Dark(under[1], d[1]), Dark(under[2], d[2]), Dark(under[3], d[3]))
      /\ \A i \in 1 .. 3 : d[i] # {} => calm = i - 1
  BY <1>1 DEF Recorded
<1>3. d[1] \in Wrong /\ d[2] \in Wrong /\ d[3] \in Wrong
  OBVIOUS
<1>4. /\ d[1] # {} => calm = 0
      /\ d[2] # {} => calm = 1
      /\ d[3] # {} => calm = 2
  BY <1>2
<1>5. \/ d[2] = {} /\ d[3] = {}
      \/ d[1] = {} /\ d[3] = {}
      \/ d[1] = {} /\ d[2] = {}
  BY ONLY <1>4
<1>6. \A l : Dark(l, {}) = Covered(l)
  BY DEF Dark
<1>7. \A l, w : Dark(l, w) = (Covered(l) \cup w) \ (Covered(l) \cap w)
  BY DEF Dark
<1>8. \A w \in Wrong : \E e : w \in {{}, {e}}
  BY DEF Wrong
<1>9. CASE d[2] = {} /\ d[3] = {}
  <2>1. PICK e : d[1] \in {{}, {e}}
    BY <1>3, <1>8
  <2>2. active = Majority(
                         (Cover(1) \cup d[1]) \ (Cover(1) \cap d[1]), Cover(2), Cover(3))
    BY <1>2, <1>6, <1>7, <1>9 DEF Cover
  <2>3. \A p : p # e => (p \in active <=> p \in Majority(Cover(1), Cover(2), Cover(3)))
    BY ONLY <2>1, <2>2 DEF Majority
  <2>4. /\ active \subseteq Cover(1) \cup Cover(2) \cup Cover(3)
        /\ Cover(1) \cap Cover(2) \cap Cover(3) \subseteq active
    BY ONLY <2>2 DEF Majority
  <2> QED BY <2>3, <2>4
<1>10. CASE d[1] = {} /\ d[3] = {}
  <2>1. PICK e : d[2] \in {{}, {e}}
    BY <1>3, <1>8
  <2>2. active = Majority(Cover(1),
                         (Cover(2) \cup d[2]) \ (Cover(2) \cap d[2]), Cover(3))
    BY <1>2, <1>6, <1>7, <1>10 DEF Cover
  <2>3. \A p : p # e => (p \in active <=> p \in Majority(Cover(1), Cover(2), Cover(3)))
    BY ONLY <2>1, <2>2 DEF Majority
  <2>4. /\ active \subseteq Cover(1) \cup Cover(2) \cup Cover(3)
        /\ Cover(1) \cap Cover(2) \cap Cover(3) \subseteq active
    BY ONLY <2>2 DEF Majority
  <2> QED BY <2>3, <2>4
<1>11. CASE d[1] = {} /\ d[2] = {}
  <2>1. PICK e : d[3] \in {{}, {e}}
    BY <1>3, <1>8
  <2>2. active = Majority(Cover(1), Cover(2),
                         (Cover(3) \cup d[3]) \ (Cover(3) \cap d[3]))
    BY <1>2, <1>6, <1>7, <1>11 DEF Cover
  <2>3. \A p : p # e => (p \in active <=> p \in Majority(Cover(1), Cover(2), Cover(3)))
    BY ONLY <2>1, <2>2 DEF Majority
  <2>4. /\ active \subseteq Cover(1) \cup Cover(2) \cup Cover(3)
        /\ Cover(1) \cap Cover(2) \cap Cover(3) \subseteq active
    BY ONLY <2>2 DEF Majority
  <2> QED BY <2>3, <2>4
<1> QED BY <1>5, <1>9, <1>10, <1>11

LEMMA LineOfSensors ==
  ASSUME NEW l \in Lines
  PROVE  /\ l.lo \in Int /\ l.hi \in Int
         /\ l.lo + 1 <= l.hi /\ l.hi <= l.lo + MaxWidth - 1
         /\ l # Bar
<1>1. SensorCount \in Nat /\ MaxWidth \in Nat /\ MaxWidth < SensorCount
  BY LineSensorAssumption
<1>2. l.lo \in Int /\ l.hi \in Int /\ l.hi - l.lo + 1 \in 2 .. MaxWidth
  BY <1>1 DEF Lines
<1>3. Bar.lo = 1 /\ Bar.hi = SensorCount
  BY DEF Bar, Line
<1>4. l.lo + 1 <= l.hi /\ l.hi <= l.lo + MaxWidth - 1
  BY ONLY <1>1, <1>2
<1>5. l # Bar
  <2> SUFFICES ASSUME l = Bar PROVE FALSE
    OBVIOUS
  <2>1. l.lo = 1 /\ l.hi = SensorCount
    BY <1>3
  <2> QED BY ONLY <1>1, <1>4, <2>1
<1> QED BY <1>2, <1>4, <1>5

LEMMA CoverOfLine ==
  ASSUME NEW l \in Floor, l # Bar, NEW p \in Covered(l)
  PROVE  /\ l \in Lines /\ p \in Sensors /\ p \in Int
         /\ l.lo <= p /\ p <= l.hi
<1>1. p \in Sensors /\ p \in l.lo .. l.hi
  BY DEF Covered
<1>2. p \in Int
  BY <1>1, LineSensorAssumption DEF Sensors
<1>3. l # Gap
  <2> SUFFICES ASSUME l = Gap PROVE FALSE
    OBVIOUS
  <2>1. l.lo = 1 /\ l.hi = 0
    BY DEF Gap, Line
  <2> QED BY ONLY <1>1, <2>1
<1>4. l \in Lines
  BY <1>3 DEF Floor
<1>5. l.lo <= p /\ p <= l.hi
  <2>1. l.lo \in Int /\ l.hi \in Int
    BY <1>4, LineOfSensors
  <2> QED BY ONLY <1>1, <2>1
<1> QED BY <1>1, <1>2, <1>4, <1>5

(* What is under the sensors at one of three samples is never far from     *)
(* what is there at another.                                               *)
LEMMA SensorsApart ==
  ASSUME VoteInv, Len(under) = 3, NEW i \in 1 .. 3, NEW j \in 1 .. 3,
         under[i] # Bar, under[j] # Bar, NEW p \in Cover(i), NEW q \in Cover(j)
  PROVE  q - p <= MaxWidth + 1
<1> DEFINE k == under[i]
           l == under[j]
<1>1. k \in Floor /\ l \in Floor
  BY DEF VoteInv
<1>2. /\ k \in Lines /\ p \in Int /\ k.lo <= p
      /\ l \in Lines /\ q \in Int /\ q <= l.hi
  BY <1>1, CoverOfLine DEF Cover
<1>3. /\ k.lo \in Int /\ k.hi \in Int /\ k.hi <= k.lo + MaxWidth - 1
      /\ l.lo \in Int /\ l.hi \in Int /\ l.hi <= l.lo + MaxWidth - 1
  BY <1>2, LineOfSensors
<1>4. l.hi <= k.hi + 2
  <2>1. CASE i = j
    BY <1>3, <2>1
  <2>2. CASE i < j
    <3>1. Near(k, l, j - i)
      BY <2>2 DEF VoteInv
    <3>2. k.hi - l.hi \in (-(j - i)) .. (j - i)
      BY <1>2, <3>1 DEF Near
    <3> QED BY ONLY <1>3, <3>2, i \in 1 .. 3, j \in 1 .. 3
  <2>3. CASE j < i
    <3>1. Near(l, k, i - j)
      BY <2>3 DEF VoteInv
    <3>2. l.hi - k.hi \in (-(i - j)) .. (i - j)
      BY <1>2, <3>1 DEF Near
    <3> QED BY ONLY <1>3, <3>2, i \in 1 .. 3, j \in 1 .. 3
  <2> QED BY <2>1, <2>2, <2>3
<1> HIDE DEF k, l
<1>5. MaxWidth \in Int
  BY LineSensorAssumption
<1> QED BY ONLY <1>2, <1>3, <1>4, <1>5

(* A snapshot of all sensors has two bars behind it. *)
LEMMA FullNeedsBars ==
  ASSUME VoteInv, Len(under) = 3, active = Sensors, MaxWidth <= SensorCount - 4
  PROVE  \E i \in 1 .. 3, j \in 1 .. 3 : i # j /\ under[i] = Bar /\ under[j] = Bar
<1> SUFFICES ASSUME \A i \in 1 .. 3, j \in 1 .. 3 : i # j => under[i] # Bar \/ under[j] # Bar
             PROVE  FALSE
  OBVIOUS
<1>1. PICK e : \A p : p # e => (p \in active <=> p \in Majority(Cover(1), Cover(2), Cover(3)))
  BY VoteTruth
<1>2. ASSUME NEW p \in Sensors, p # e
      PROVE  \E i \in 1 .. 3 : under[i] # Bar /\ p \in Cover(i)
  <2>1. p \in Majority(Cover(1), Cover(2), Cover(3))
    BY <1>1, <1>2
  <2>2. \E i \in 1 .. 3, j \in 1 .. 3 : i # j /\ p \in Cover(i) /\ p \in Cover(j)
    <3>1. \/ p \in Cover(1) /\ p \in Cover(2)
          \/ p \in Cover(1) /\ p \in Cover(3)
          \/ p \in Cover(2) /\ p \in Cover(3)
      BY <2>1 DEF Majority
    <3>2. 1 \in 1 .. 3 /\ 2 \in 1 .. 3 /\ 3 \in 1 .. 3 /\ 1 # 2 /\ 1 # 3 /\ 2 # 3
      OBVIOUS
    <3> QED BY ONLY <3>1, <3>2, Zenon
  <2> QED BY <2>2
<1>3. SensorCount \in Nat /\ MaxWidth \in Nat /\ MaxWidth >= 2
  BY LineSensorAssumption
<1>4. ASSUME NEW p \in Sensors, NEW q \in Sensors, p # e, q # e
      PROVE  q - p <= MaxWidth + 1
  <2>1. PICK i \in 1 .. 3 : under[i] # Bar /\ p \in Cover(i)
    BY <1>2, <1>4
  <2>2. PICK j \in 1 .. 3 : under[j] # Bar /\ q \in Cover(j)
    BY <1>2, <1>4
  <2> QED BY <2>1, <2>2, SensorsApart
<1> DEFINE n == SensorCount
<1>5. 1 \in Sensors /\ 2 \in Sensors /\ n \in Sensors /\ n - 1 \in Sensors
  BY <1>3 DEF Sensors
<1>6. \/ 1 # e /\ n # e
      \/ 2 # e /\ n # e
      \/ 1 # e /\ n - 1 # e
  <2>1. 1 # 2 /\ 1 # n /\ n # n - 1
    BY <1>3, MaxWidth <= SensorCount - 4
  <2> QED BY ONLY <2>1
<1>7. n - 1 <= MaxWidth + 1 \/ n - 2 <= MaxWidth + 1 \/ n - 1 - 1 <= MaxWidth + 1
  BY <1>4, <1>5, <1>6
<1> QED BY ONLY <1>3, <1>7, MaxWidth <= SensorCount - 4

(* Neighbouring samples of a line share a sensor. *)
LEMMA LinesOverlap ==
  ASSUME NEW k \in Lines, NEW l \in Lines, Near(k, l, 1),
         Covered(k) # {}, Covered(l) # {}
  PROVE  Covered(k) \cap Covered(l) # {}
<1>1. /\ k.lo \in Int /\ k.hi \in Int /\ k.lo + 1 <= k.hi /\ k # Bar
      /\ l.lo \in Int /\ l.hi \in Int /\ l.lo + 1 <= l.hi /\ l # Bar
  BY LineOfSensors
<1>2. k.lo - l.lo \in (-1) .. 1 /\ k.hi - l.hi \in (-1) .. 1
  BY DEF Near
<1>3. SensorCount \in Nat
  BY LineSensorAssumption
<1>4. PICK p \in Covered(k), q \in Covered(l) : TRUE
  OBVIOUS
<1>5. /\ p \in 1 .. SensorCount /\ k.lo <= p /\ p <= k.hi
      /\ q \in 1 .. SensorCount /\ l.lo <= q /\ q <= l.hi
  BY <1>1, CoverOfLine DEF Floor, Sensors
<1> DEFINE most == IF k.lo >= l.lo THEN k.lo ELSE l.lo
           a == IF most >= 1 THEN most ELSE 1
<1>6. /\ a \in 1 .. SensorCount
      /\ k.lo <= a /\ a <= k.hi /\ l.lo <= a /\ a <= l.hi
  BY ONLY <1>1, <1>2, <1>3, <1>5
<1> HIDE DEF a
<1>7. a \in Covered(k) /\ a \in Covered(l)
  BY <1>1, <1>6 DEF Covered, Sensors
<1> QED BY <1>7

(***************************************************************************)
(* The line is shown                                                       *)
(***************************************************************************)
LEMMA FewSamples ==
  ASSUME VoteInv
  PROVE  /\ Len(under) \in {0, 1, 2, 3}
         /\ Len(under) = 0 => active = {}
         /\ Len(under) = 1 => active = Cover(1)
         /\ Len(under) = 2 => active = Cover(2)
<1>1. PICK d \in [1 .. 3 -> Wrong] : Recorded(d)
  BY DEF VoteInv
<1>2. \A l : Dark(l, {}) = Covered(l)
  BY DEF Dark
<1>3. under \in Seq(Floor) /\ Len(under) <= 3
  BY DEF VoteInv
<1>4. Len(under) \in Nat
  BY ONLY <1>3
<1>5. \A n \in Nat : n <= 3 => n \in {0, 1, 2, 3}
  OBVIOUS
<1>6. Len(under) \in {0, 1, 2, 3}
  BY ONLY <1>3, <1>4, <1>5
<1>7. Len(under) = 0 => active = {}
  BY <1>1 DEF Recorded
<1>8. Len(under) = 1 => active = Cover(1)
  BY ONLY <1>1, <1>2, Zenon DEF Recorded, Cover
<1>9. Len(under) = 2 => active = Cover(2)
  BY ONLY <1>1, <1>2, Zenon DEF Recorded, Cover
<1> QED BY ONLY <1>6, <1>7, <1>8, <1>9

LEMMA NoChatter == ASSUME VoteInv PROVE ChatterRejected
<1>1. RecentlyCovered = UNION {Cover(i) : i \in DOMAIN under}
  BY DEF RecentlyCovered, Cover
<1>2. under \in Seq(Floor)
  BY DEF VoteInv
<1>3. DOMAIN under = 1 .. Len(under)
  BY ONLY <1>2
<1>4. ASSUME NEW p \in active
      PROVE  \E i \in 1 .. Len(under) : p \in Cover(i)
  <2>1. CASE Len(under) = 0
    BY <2>1, FewSamples
  <2>2. CASE Len(under) = 1
    <3>1. p \in Cover(1) /\ 1 \in 1 .. Len(under)
      BY <2>2, FewSamples
    <3> QED BY <3>1
  <2>3. CASE Len(under) = 2
    <3>1. p \in Cover(2) /\ 2 \in 1 .. Len(under)
      BY <2>3, FewSamples
    <3> QED BY <3>1
  <2>4. CASE Len(under) = 3
    <3>1. p \in Cover(1) \/ p \in Cover(2) \/ p \in Cover(3)
      BY <2>4, VoteTruth
    <3>2. 1 \in 1 .. Len(under) /\ 2 \in 1 .. Len(under) /\ 3 \in 1 .. Len(under)
      BY <2>4
    <3> QED BY ONLY <3>1, <3>2, Zenon
  <2> QED BY <2>1, <2>2, <2>3, <2>4, FewSamples
<1>5. active \subseteq RecentlyCovered
  BY <1>1, <1>3, <1>4
<1> QED BY <1>5 DEF ChatterRejected

LEMMA KeepsLine ==
  ASSUME VoteInv, MaxWidth <= SensorCount - 4
  PROVE  LineKept
<1> SUFFICES ASSUME Len(under) = 3,
                    \A i \in 1 .. 3 : under[i] \in Lines /\ Covered(under[i]) # {}
             PROVE  status = "OK"
  BY DEF LineKept, Settled
<1>1. active # Sensors
  <2> SUFFICES ASSUME active = Sensors PROVE FALSE
    OBVIOUS
  <2>1. PICK i \in 1 .. 3 : under[i] = Bar
    BY FullNeedsBars
  <2> QED BY <2>1, LineOfSensors
<1>2. /\ under[1] \in Lines /\ under[2] \in Lines /\ under[3] \in Lines
      /\ Cover(1) # {} /\ Cover(2) # {} /\ Cover(3) # {}
  BY DEF Cover
<1>3. Near(under[1], under[2], 1) /\ Near(under[2], under[3], 1)
  <2>1. Near(under[1], under[2], 2 - 1) /\ Near(under[2], under[3], 3 - 2)
    BY DEF VoteInv
  <2> QED BY <2>1
<1>4. PICK a : a \in Cover(1) /\ a \in Cover(2)
  BY <1>2, <1>3, LinesOverlap DEF Cover
<1>5. PICK b : b \in Cover(2) /\ b \in Cover(3)
  BY <1>2, <1>3, LinesOverlap DEF Cover
<1>6. active # {}
  <2>1. PICK e : \A p : p # e => (p \in active <=> p \in Majority(Cover(1), Cover(2), Cover(3)))
    BY VoteTruth
  <2>2. a \in Majority(Cover(1), Cover(2), Cover(3)) /\ b \in Majority(Cover(1), Cover(2), Cover(3))
    BY <1>4, <1>5 DEF Majority
  <2>3. CASE a # e \/ b # e
    BY <2>1, <2>2, <2>3
  <2>4. CASE a = b
    <3>1. a \in Cover(1) \cap Cover(2) \cap Cover(3)
      BY <1>4, <1>5, <2>4
    <3> QED BY <3>1, VoteTruth
  <2> QED BY <2>3, <2>4
<1> QED BY <1>1, <1>6 DEF VoteInv, Judged

LEMMA ShowsSteadyLine == ASSUME VoteInv PROVE SteadyLineShown
<1> SUFFICES ASSUME Len(under) = 3, under[1] = under[2], under[2] = under[3]
             PROVE  active = Covered(under[1])
  BY DEF SteadyLineShown, Settled
<1>1. Cover(2) = Cover(1) /\ Cover(3) = Cover(1)
  BY DEF Cover
<1>2. active \subseteq Cover(1) \cup Cover(2) \cup Cover(3)
      /\ Cover(1) \cap Cover(2) \cap Cover(3) \subseteq active
  BY VoteTruth
<1>3. active = Cover(1)
  BY ONLY <1>1, <1>2
<1> QED BY <1>3 DEF Cover

LEMMA ConfirmsBar ==
  ASSUME VoteInv, MaxWidth <= SensorCount - 4
  PROVE  BarConfirmed
<1> SUFFICES ASSUME Len(under) = 3, status = "FULL"
             PROVE  Cardinality({i \in 1 .. 3 : under[i] = Bar}) >= 2
  BY DEF BarConfirmed, Settled
<1>1. active = Sensors
  BY DEF VoteInv, Judged
<1>2. PICK i \in 1 .. 3, j \in 1 .. 3 : i # j /\ under[i] = Bar /\ under[j] = Bar
  BY <1>1, FullNeedsBars
<1> DEFINE bars == {k \in 1 .. 3 : under[k] = Bar}
<1>3. i \in bars /\ j \in bars /\ bars \subseteq 1 .. 3
  BY <1>2
<1> HIDE DEF bars
<1>4. IsFiniteSet(bars)
  <2>1. IsFiniteSet(1 .. 3)
    <3>1. 1 \in Int /\ 3 \in Int
      OBVIOUS
    <3> QED BY <3>1, FS_Interval, Zenon
  <2> QED BY <1>3, <2>1, FS_Subset
<1>5. Cardinality({i, j}) = 2
  <2>1. IsFiniteSet({i}) /\ Cardinality({i}) = 1
    BY FS_Singleton
  <2>2. Cardinality({i} \cup {j}) = 1 + 1
    BY <1>2, <2>1, FS_AddElement
  <2>3. {i} \cup {j} = {i, j}
    OBVIOUS
  <2> QED BY <2>2, <2>3
<1>6. Cardinality({i, j}) <= Cardinality(bars)
  BY <1>3, <1>4, FS_Subset
<1>7. Cardinality(bars) \in Nat
  BY <1>4, FS_CardinalityType
<1> QED BY <1>5, <1>6, <1>7 DEF bars

LEMMA PositionIsOnLine == ASSUME VoteInv PROVE PositionOnLine
<1> SUFFICES ASSUME status = "OK"
             PROVE  /\ \E i \in RecentlyCovered : 1000 * i <= position
                    /\ \E i \in RecentlyCovered : position <= 1000 * i
  BY DEF PositionOnLine
<1>1. active \in SUBSET Sensors /\ active # {} /\ position = Average(active)
  BY DEF VoteInv, Judged
<1>2. active \subseteq RecentlyCovered
  BY NoChatter DEF ChatterRejected
<1>3. /\ \E i \in active : 1000 * i <= position
      /\ \E i \in active : position <= 1000 * i
  BY <1>1, AverageBetween
<1> QED BY <1>2, <1>3

LEMMA VoteInit == SensorInit => VoteInv
<1> SUFFICES ASSUME SensorInit PROVE VoteInv
  OBVIOUS
<1>1. under = << >> /\ Len(under) = 0 /\ under \in Seq(Floor)
  BY DEF SensorInit
<1>2. Judged
  BY DEF SensorInit, Judged
<1>3. \E d \in [1 .. 3 -> Wrong] : Recorded(d)
  <2> DEFINE d == [i \in 1 .. 3 |-> {}]
  <2>1. d \in [1 .. 3 -> Wrong] /\ \A i \in 1 .. 3 : d[i] = {}
    BY DEF Wrong
  <2>2. active = {}
    BY DEF SensorInit
  <2>3. 0 # 1 /\ 0 # 2 /\ 0 # 3 /\ ~ (0 >= 1) /\ ~ (0 >= 2)
    OBVIOUS
  <2> HIDE DEF d
  <2>4. Recorded(d)
    BY ONLY <1>1, <2>1, <2>2, <2>3, Zenon DEF Recorded
  <2> QED BY <2>1, <2>4
<1>4. calm \in 0 .. 2 /\ voted = 0
  BY DEF SensorInit
<1>5. \A i, j \in 1 .. Len(under) : FALSE
  BY <1>1
<1>6. Len(under) <= 3
  BY <1>1
<1> QED BY ONLY <1>1, <1>2, <1>3, <1>4, <1>5, <1>6 DEF VoteInv

(* With a first sample that is not disturbed the vote keeps its invariant, *)
(* for every number of sensors, either polarity and every line.            *)
THEOREM VoteInvariance == ASSUME QuietStart PROVE SensorSpec => []VoteInv
<1>1. VoteInv /\ [SensorNext]_sensorVars => VoteInv'
  <2> SUFFICES ASSUME VoteInv, [SensorNext]_sensorVars PROVE VoteInv'
    OBVIOUS
  <2>1. CASE RunOnce
    BY <2>1, VoteStep
  <2>2. CASE UNCHANGED sensorVars
    <3>1. /\ history1' = history1 /\ history2' = history2 /\ voted' = voted
          /\ active' = active /\ position' = position /\ status' = status
          /\ under' = under /\ calm' = calm
      BY <2>2 DEF sensorVars, vote, tracker
    <3>2. Judged'
      BY <3>1 DEF VoteInv, Judged
    <3>3. \A d : Recorded(d)' <=> Recorded(d)
      BY ONLY <3>1, Zenon DEF Recorded
    <3> QED BY ONLY <3>1, <3>2, <3>3, VoteInv, Zenon DEF VoteInv
  <2> QED BY <2>1, <2>2 DEF SensorNext
<1> QED BY <1>1, VoteInit, PTL DEF SensorSpec

(* What the control task is shown is the line under the sensors            *)
(* (bsp_line_sensor.c:52): one wrong reading never shows, a moving line is *)
(* neither lost nor taken for a bar, and the position lies on it; for      *)
(* every line that leaves four sensors free.                               *)
THEOREM LineIsAlwaysShown ==
  ASSUME QuietStart, MaxWidth <= SensorCount - 4
  PROVE  SensorSpec => []LineIsShown
<1>1. VoteInv => LineIsShown
  <2> SUFFICES ASSUME VoteInv PROVE LineIsShown
    OBVIOUS
  <2> QED BY NoChatter, KeepsLine, ShowsSteadyLine, ConfirmsBar, PositionIsOnLine DEF LineIsShown
<1> QED BY <1>1, VoteInvariance, PTL
=============================================================================
