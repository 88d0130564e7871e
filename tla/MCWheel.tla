------------------------------ MODULE MCWheel ------------------------------
(***************************************************************************)
(* A wheel, from its pulses to its effort: the encoders, the speed that is *)
(* shown, the controller under any demand, and the controller driving a    *)
(* motor from rest.  They share no variable but the controller's, so one   *)
(* of them moves in a behaviour and the others stand in a state of theirs. *)
(* The numbers are those of the car but for the window of three periods.   *)
(* One encoder is inverted, as on the car; its shaft turns an edge and     *)
(* back, and that of the other passes all four states both ways.           *)
(***************************************************************************)
EXTENDS Wheel, Encoder

VARIABLES windowDelta, windowCount, instant, windowed, filtered, least,
          greatest, paces

Shown == INSTANCE SpeedEstimate WITH
  Deltas <- {-20, 0, 75}, UnitsPerCycle <- 1500, PeriodMs <- 10,
  WindowSamples <- 3, FilterDiv <- 8

ASSUME Shown!SpeedEstimateAssumption

VARIABLE part

MCTargets == {-75, 0, 75}
MCDeltas == {0, 40, 75}
MCTunings == {<<30, 5, 0>>, <<30, 7, 0>>}
MCDrives == {-75, -25, -2, 1, 2, 5, 10, 15, 25, 50, 75}
MCLoads == -4 .. 4
MCIntegralMin == -1200
MCOutputMin == -1000
MCInverted == {"right"}
MCReach == [left |-> -1 .. 2, right |-> 0 .. 1]

shownVars == <<windowDelta, windowCount, instant, windowed, filtered, least,
               greatest, paces>>

Only(p) == part = p /\ UNCHANGED part

Controls == Only("control") /\ UNCHANGED <<load, speed, encoderVars, shownVars>>
Turns    == Only("drive") /\ UNCHANGED <<encoderVars, shownVars>>
Counts   == Only("pulses") /\ UNCHANGED <<wheelVars, shownVars>>
Shows    == Only("shown") /\ UNCHANGED <<wheelVars, encoderVars>>

MCInit ==
  /\ part \in {"control", "drive", "pulses", "shown"}
  /\ WheelInit
  /\ part # "drive" => load = 0
  /\ part \in {"pulses", "shown"} => tuning = <<30, 5, 0>>
  /\ EncoderInit
  /\ Shown!Init

MCNext ==
  \/ Controls /\ Next
  \/ Turns /\ WheelNext
  \/ Counts /\ EncoderNext
  \/ Shows /\ Shown!Next

MCSpec ==
  /\ MCInit
  /\ [][MCNext]_<<wheelVars, encoderVars, shownVars, part>>
  /\ WF_wheelVars(Turns /\ Start) /\ WF_wheelVars(Turns /\ Period)
  /\ SF_encoderVars(Counts /\ Interrupt)
  /\ WF_encoderVars(Counts /\ ReadDelta)
  /\ WF_shownVars(Shows /\ Shown!UpdateEncoder)

(* A driven wheel comes to its target and stays within a count of it.      *)
DriveSettles == part = "drive" => SettlesOnTarget

(* The speed shown of a steady wheel comes to that speed, and stays.       *)
SpeedShownSettles == Shown!SpeedShownSettles
=============================================================================
