--------------------------------- MODULE Car ---------------------------------
(***************************************************************************)
(* The operator's keys, the race task and the control task together:       *)
(* RaceConfig with Route as its control task.  The race task writes        *)
(* g_snapshot field by field and control reads it between any two writes;  *)
(* several keys may be served between two iterations of control.           *)
(***************************************************************************)
EXTENDS RaceConfig

CONSTANTS Q1Confirm, Confirm, ArmCycles, LostConfirm, RecoveryStop,
          SettleCycles, Delay, Samples

(* The route code knows four modes, of which the last is the lap race. *)
ASSUME CarAssumption == MaxMode = 4

VARIABLES
  active, phase, found, arm, lost, recovery, settle, laps, lineSeen,
  exitAlign, launch, waited, dist, line, command, event

routeVars == <<active, phase, found, arm, lost, recovery, settle, laps,
               lineSeen, exitAlign, launch, waited, dist, line, command,
               event>>
carVars == <<configVars, routeVars>>

Control == INSTANCE Route WITH Laps <- MaxLaps

CarInit ==
  /\ Init
  /\ Control!Init

(* What the reports of an iteration do to the configuration. *)
ReportsReach ==
  CASE event' = "finish"  -> SetFinished
    [] event' = "lap"     -> SetLapProgress(laps')
    [] event' = "lastLap" -> SetLastLap
    [] OTHER              -> UNCHANGED configVars

ControlIteration ==
  /\ Control!Iteration
  /\ ReportsReach

(* key_scan and race: the route is not touched. *)
OperatorStep ==
  /\ (\E k \in Keys : KeyTimer(k)) \/ RaceStep
  /\ UNCHANGED routeVars

CarNext == ControlIteration \/ OperatorStep

CarSpec == CarInit /\ [][CarNext]_carVars

(* Both periodic tasks keep running; control has the higher priority. *)
CarFairness ==
  /\ WF_carVars(ControlIteration)
  /\ WF_carVars(RaceStep /\ UNCHANGED routeVars)

-----------------------------------------------------------------------------
(* A finished race never drives, whichever key handler is under way while  *)
(* control finishes it.                                                    *)
FinishedStands == state = "FINISHED" => command # "drive"

(* A finished race shows its laps: all of them in the lap race, none in    *)
(* the other modes, whatever handler was half-way through g_snapshot when  *)
(* control finished it.                                                    *)
FinishedShowsLaps ==
  state = "FINISHED" /\ pc = "pop"
    => currentLap = (IF mode = MaxMode THEN MaxLaps ELSE 0)

(* The finish is final for wheels and display.                             *)
FinishIsFinal == FinishedStands /\ FinishedShowsLaps

(* A race that is not running makes the car stop commanding the wheels,    *)
(* for good if nobody starts it again.                                     *)
StandsInTheEnd == <>[](state # "RUNNING") => <>[](command = "stop")
==============================================================================
