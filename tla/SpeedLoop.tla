----------------------------- MODULE SpeedLoop -----------------------------
(***************************************************************************)
(* The arithmetic of one wheel in AppChassis_SpeedControlRun: the          *)
(* feedforward of the target, and behind it PidController_Run with its     *)
(* clamped integral and its truncating division.  Chassis has the tasks    *)
(* and takes any output of the range; here is which output it is.  One     *)
(* action is one period of the chassis task, one call of the control task, *)
(* or a change of the tuning.  No value leaves its width: the outputs are  *)
(* clamped before they are narrowed to int16_t.                            *)
(***************************************************************************)
EXTENDS Integers

CONSTANTS
  Targets,       (* target speeds, in counts per period                    *)
  Deltas,        (* measured speeds                                        *)
  Tunings,       (* <<kp, ki, kd>>, in units of 1 / Scale                  *)
  Scale,         (* BOARD_CHASSIS_SPEED_PID_SCALE                          *)
  IntegralMin, IntegralMax, OutputMin, OutputMax,
  Feedforward,   (* the duty at rated speed                                *)
  Rated,         (* BOARD_CHASSIS_RATED_SPEED_DELTA                        *)
  MaxSpeed       (* APP_CHASSIS_MAX_SPEED                                  *)

ASSUME SpeedLoopAssumption ==
  /\ Targets \subseteq Int /\ 0 \in Targets
  /\ Deltas \subseteq Int
  /\ Tunings \subseteq Nat \X Nat \X Nat
  /\ Scale \in Nat \ {0} /\ Rated \in Nat \ {0}
  /\ IntegralMin \in Int /\ IntegralMax \in Int /\ IntegralMin <= 0 /\ IntegralMax >= 0
  /\ OutputMin \in Int /\ OutputMax \in Int /\ OutputMin <= 0 /\ OutputMax >= 0
  /\ Feedforward \in Int /\ MaxSpeed \in Nat

VARIABLES
  target,        (* g_left_target_speed                                    *)
  tuning,        (* g_left_speed_pid_kp_x100 and its two neighbours        *)
  applied,       (* g_applied_left_pid_kp_x100 and its two neighbours      *)
  pidTarget,     (* pid->target                                            *)
  error,         (* pid->error, which is also pid->last_error              *)
  integral,      (* pid->integral                                          *)
  control        (* g_left_control_output                                  *)

pid == <<pidTarget, error, integral>>
vars == <<target, tuning, applied, pid, control>>

(***************************************************************************)
(* Arithmetic                                                              *)
(***************************************************************************)
(* C's division of a by a positive b. *)
Quotient(a, b) == IF a < 0 THEN -((-a) \div b) ELSE a \div b

ClampTo(low, high, x) ==
  IF x > high THEN high ELSE IF x < low THEN low ELSE x

(* speed_feedforward *)
SpeedFeedforward(t) ==
  ClampTo(-MaxSpeed, MaxSpeed,
          Quotient(t * ClampTo(0, MaxSpeed, Feedforward), Rated))

(* Mutant: the sum is clamped before the new error is added. *)
IntegratedBefore(i, e) == ClampTo(IntegralMin, IntegralMax, i) + e

(* Mutant: the error replaces the sum. *)
IntegratedLast(i, e) == ClampTo(IntegralMin, IntegralMax, e)

Integrated(i, e) ==
  IF IntegralMin < IntegralMax THEN ClampTo(IntegralMin, IntegralMax, i + e) ELSE i + e

(* The output of PidController_Run for error e after error last. *)
Correction(k, e, last, i) ==
  LET output == Quotient(k[1] * e + k[2] * i + k[3] * (e - last), Scale)
  IN  IF OutputMin < OutputMax THEN ClampTo(OutputMin, OutputMax, output) ELSE output

(***************************************************************************)
(* Actions                                                                 *)
(***************************************************************************)
Reset(p, e, i) == p = 0 /\ e = 0 /\ i = 0

(* A standing wheel forgets. *)
Rest ==
  /\ target = 0
  /\ applied' = tuning
  /\ Reset(pidTarget', error', integral')
  /\ control' = 0
  /\ UNCHANGED <<target, tuning>>

(* A driven wheel: a new tuning resets the controller before it is used. *)
Drive(delta) ==
  LET fresh == tuning # applied
      i == Integrated(IF fresh THEN 0 ELSE integral, target - delta)
  IN  /\ target # 0
      /\ applied' = tuning
      /\ pidTarget' = target
      /\ error' = target - delta
      /\ integral' = i
      /\ control' = ClampTo(-MaxSpeed, MaxSpeed,
                            SpeedFeedforward(target)
                              + Correction(tuning, target - delta, IF fresh THEN 0 ELSE error, i))
      /\ UNCHANGED <<target, tuning>>

SpeedControlRun == Rest \/ \E delta \in Deltas : Drive(delta)

SetTarget ==
  /\ target' \in Targets
  /\ UNCHANGED <<tuning, applied, pid, control>>

(* The tunings are volatile variables a debugger writes. *)
Tune ==
  /\ tuning' \in Tunings
  /\ UNCHANGED <<target, applied, pid, control>>

Init ==
  /\ target = 0
  /\ tuning \in Tunings /\ applied = tuning
  /\ pidTarget = 0 /\ error = 0 /\ integral = 0
  /\ control = 0

Next == SpeedControlRun \/ SetTarget \/ Tune

Spec == Init /\ [][Next]_vars

(***************************************************************************)
(* Properties                                                              *)
(***************************************************************************)
TypeOK ==
  /\ target \in Targets /\ pidTarget \in Targets
  /\ tuning \in Tunings /\ applied \in Tunings
  /\ error \in Int
  /\ integral \in Int
  /\ control \in (-MaxSpeed) .. MaxSpeed

(* The past changes the effort only within the authority of the integral:  *)
(* however long a wheel was blocked, its effort is that of the feedforward *)
(* and the present error, plus at most ki times the limit of the sum.      *)
WindupBounded ==
  pidTarget # 0 /\ applied[3] = 0 /\ IntegralMin < IntegralMax
    => LET now(i) == ClampTo(-MaxSpeed, MaxSpeed,
                             SpeedFeedforward(pidTarget) + Correction(applied, error, error, i))
       IN  now(IntegralMin) <= control /\ control <= now(IntegralMax)

(* A wheel that stays behind its target and gets no faster is never driven *)
(* with less effort than the period before, through clamp and truncation.  *)
EffortGrowsWhileSlow ==
  [][pidTarget # 0 /\ pidTarget' = pidTarget /\ applied' = applied /\ applied[3] = 0
     => /\ 0 <= error /\ error <= error' => control <= control'
        /\ error' <= error /\ error <= 0 => control' <= control]_vars
=============================================================================
