--------------------------- MODULE SpeedEstimate ---------------------------
(***************************************************************************)
(* The speed shown of one wheel: RateFilter_Update of lib_rate_filter.c as *)
(* AppChassis_UpdateEncoder calls it every period, and the reset of        *)
(* SpeedControlRun when both targets are zero.  The pulses of a window are *)
(* turned into a speed, which a truncating low-pass filter follows.        *)
(* A speed is narrowed to 16 bits as in the code; the product before it    *)
(* fits 32 bits for the pulses assumed, a hundred times the rated speed.   *)
(***************************************************************************)
EXTENDS Integers

CONSTANTS
  Deltas,          (* pulses of a period                                   *)
  UnitsPerCycle,   (* BOARD_ENCODER_OUTPUT_PULSES_PER_REV                  *)
  PeriodMs,        (* BOARD_CONTROL_TASK_PERIOD_MS                         *)
  WindowSamples,   (* APP_CHASSIS_RPM_WINDOW_SAMPLES                       *)
  FilterDiv        (* APP_CHASSIS_RPM_FILTER_DIV                           *)

(* What the constants may be. *)
SpeedEstimateAssumption ==
  /\ Deltas \subseteq Int
  /\ UnitsPerCycle \in Nat \ {0} /\ PeriodMs \in Nat \ {0}
  /\ WindowSamples \in Nat \ {0} /\ FilterDiv \in Nat \ {0}
  /\ \A delta \in Deltas : delta * WindowSamples \in -35791 .. 35791

VARIABLES
  windowDelta, windowCount, instant, windowed, filtered,   (* RateFilter   *)
  least, greatest,  (* least and greatest pulses of a period since the     *)
                    (* reset                                               *)
  paces             (* the pulses the wheel may turn in a period: all, or  *)
                    (* one when it has come to run steadily                *)

estimate == <<windowDelta, windowCount, instant, windowed, filtered>>
vars == <<estimate, least, greatest, paces>>

(***************************************************************************)
(* Arithmetic                                                              *)
(***************************************************************************)
Quotient(a, b) == IF a < 0 THEN -((-a) \div b) ELSE a \div b

Int16(x) == ((x + 32768) % 65536) - 32768

(* Mutant: the product is narrowed to 16 bits before the division. *)
DeltaToRateNarrow(delta, samples) ==
  Quotient(Int16(delta * 60000), UnitsPerCycle * PeriodMs * samples)

(* delta_to_rate *)
DeltaToRate(delta, samples) ==
  Int16(Quotient(delta * 60000, UnitsPerCycle * PeriodMs * samples))

(* The speed of a wheel that turns this far in every period. *)
Rpm(delta) == Quotient(delta * 60000, UnitsPerCycle * PeriodMs)

(***************************************************************************)
(* Actions                                                                 *)
(***************************************************************************)
Seen(delta) ==
  /\ least' = IF delta < least THEN delta ELSE least
  /\ greatest' = IF delta > greatest THEN delta ELSE greatest

(* RateFilter_Update *)
Update(delta) ==
  LET sum == windowDelta + delta
      full == windowCount + 1 >= WindowSamples
      rate == IF full THEN DeltaToRate(sum, windowCount + 1) ELSE windowed
  IN  /\ instant' = DeltaToRate(delta, 1)
      /\ windowDelta' = IF full THEN 0 ELSE sum
      /\ windowCount' = IF full THEN 0 ELSE windowCount + 1
      /\ windowed' = rate
      /\ filtered' = filtered + Quotient(rate - filtered, FilterDiv)
      /\ Seen(delta)

(* RateFilter_Reset, with both targets zero. *)
Reset ==
  /\ paces = Deltas
  /\ windowDelta' = 0 /\ windowCount' = 0 /\ instant' = 0
  /\ windowed' = 0 /\ filtered' = 0
  /\ least' = 0 /\ greatest' = 0
  /\ UNCHANGED paces

Init ==
  /\ windowDelta = 0 /\ windowCount = 0 /\ instant = 0
  /\ windowed = 0 /\ filtered = 0
  /\ least = 0 /\ greatest = 0
  /\ paces = Deltas

UpdateEncoder == (\E delta \in paces : Update(delta)) /\ UNCHANGED paces

RunSteadily ==
  /\ paces = Deltas
  /\ \E delta \in Deltas : paces' = {delta}
  /\ UNCHANGED <<estimate, least, greatest>>

Next == UpdateEncoder \/ Reset \/ RunSteadily

(* The chassis task runs every period. *)
Spec == Init /\ [][Next]_vars /\ WF_vars(UpdateEncoder)

(***************************************************************************)
(* Properties                                                              *)
(***************************************************************************)
TypeOK ==
  /\ windowDelta \in Int /\ instant \in Int
  /\ windowCount \in 0 .. (WindowSamples - 1)
  /\ windowed \in -32768 .. 32767
  /\ filtered \in Int
  /\ paces \subseteq Deltas

(* What is shown lies between the slowest and the fastest period since the *)
(* wheels last stood (or zero): no window counts a pulse twice, no product *)
(* wraps at the speeds of the car, and the filter does not overshoot.      *)
SpeedWithinSeen ==
  /\ Rpm(least) <= windowed /\ windowed <= Rpm(greatest)
  /\ Rpm(least) <= filtered /\ filtered <= Rpm(greatest)

(* On a wheel that runs steadily the shown speed comes closer than the     *)
(* divisor of the filter and stays so, whatever was shown before: no more  *)
(* than that is lost to truncation.                                        *)
SpeedShownSettles ==
  \A delta \in Deltas :
    paces = {delta}
      ~> [](filtered - Rpm(delta) \in (1 - FilterDiv) .. (FilterDiv - 1))
=============================================================================
