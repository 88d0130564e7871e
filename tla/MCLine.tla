------------------------------- MODULE MCLine -------------------------------
(***************************************************************************)
(* From the line to the wheels: the sensors with their vote, the commands  *)
(* in every history of Steering, and the line loop on a line that keeps    *)
(* its place.  The sensors share no variable with the commands, and the    *)
(* steady line is a behaviour of the same variables with other numbers;    *)
(* one of the three moves in a behaviour.                                  *)
(* The commands take the numbers of the car scaled down: errors in units   *)
(* of 250, so that the dead band, the gain and the reduction keep their    *)
(* proportions, and speeds in units of three counts, with one speed below  *)
(* a count.  The steady line takes the numbers of the car: errors where    *)
(* one or two neighbouring sensors are on the line, and 60 and 100 rpm.    *)
(* The sensors are the seven of the car, a line covers two or three.       *)
(***************************************************************************)
EXTENDS Steering, LineSensor

MCSamples == {<<-12, -1>>, <<-4, 0>>, <<0, 0>>, <<0, -1>>, <<4, 0>>, <<12, 1>>}
MCMismatches == {-4, 0, 4}
MCLineRpms == {-1, 4, 9}
MCCruiseRpms == {10}
MCSearchRpms == {3}
MCPivotRpms == {6}

CarSamples ==
  {<<500 * i, IF i = -6 THEN -1 ELSE IF i = 6 THEN 1 ELSE 0>> :
     i \in {-6, -4, -1, 0, 2, 4, 6}}

VARIABLE place

Steady == INSTANCE SteadyLine WITH
  Samples <- CarSamples, Mismatches <- {0}, LineRpms <- {60, 100},
  CruiseRpms <- {120, 80}, SearchRpms <- {60, 50, 40, 30}, Turns <- {-7},
  PulsesPerRev <- 1500, PeriodMs <- 10, RatedRpm <- 300, RecoveryRpm <- 60,
  PivotRpms <- {70, 60, 50}, TransitionRpm <- 60, DefaultSpeed <- 25,
  FilterDiv <- 3, Deadband <- 600, GainP <- 4, GainD <- 0, GainScale <- 1000,
  TurnSlew <- 4, ReductionDiv <- 125, MaxTurn <- 1000,
  SyncGain <- 1000, SyncScale <- 1000, SyncMax <- 6, Trim <- 1,
  WheelSlew <- 4, Rated <- 75

VARIABLE part

steadyVars == <<vars, place>>

Only(p) == part = p /\ UNCHANGED part

Commands == Only("commands") /\ UNCHANGED <<place, sensorVars>>
Keeps    == Only("steady") /\ UNCHANGED sensorVars
Shows    == Only("sensors") /\ UNCHANGED steadyVars

MCInit ==
  /\ part \in {"commands", "steady", "sensors"}
  /\ IF part = "steady" THEN Steady!SteadyInit ELSE Init /\ place = <<0, 0>>
  /\ SensorInit

MCNext ==
  \/ Commands /\ Next
  \/ Keeps /\ Steady!Iterate
  \/ Shows /\ SensorNext

MCSpec ==
  /\ MCInit
  /\ [][MCNext]_<<steadyVars, sensorVars, part>>
  /\ WF_steadyVars(Keeps /\ Steady!Iterate)

(* The car comes to steer towards the line and stays so.                   *)
SteersTowardsLine == part = "steady" => Steady!SteersTowardsLine
=============================================================================
