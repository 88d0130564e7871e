----------------------------- MODULE RouteAlone -----------------------------
(***************************************************************************)
(* Route with an operator who presses one key at a time, so that control   *)
(* runs an iteration between any two presses (Car drops that restriction), *)
(* and two history variables for its properties.                           *)
(***************************************************************************)
EXTENDS Route

VARIABLES
  seen,    (* the last key has been followed by an iteration               *)
  course,  (* history: the mode in which the active track was begun        *)
  tracked  (* history: good samples since the last change of phase         *)

historyVars == <<course, tracked>>
vars == <<mode, state, controlVars, seen, historyVars>>

AloneInit ==
  /\ Init
  /\ seen = TRUE
  /\ course = 0
  /\ tracked = 0

IsActive(a) == \E t \in Tracks : a[t] = 1

ControlIteration ==
  /\ Iteration
  /\ course' = IF ~IsActive(active') THEN 0
               ELSE IF IsActive(active) THEN course ELSE mode
  /\ tracked' = IF phase' # phase THEN IF line \in OK THEN 1 ELSE 0
                ELSE IF line \in OK THEN Min(tracked + 1, ArmCycles)
                ELSE tracked
  /\ seen' = TRUE

Press(s, m) ==
  /\ seen
  /\ seen' = FALSE
  /\ state' = s
  /\ mode' = m
  /\ UNCHANGED <<controlVars, historyVars>>

PressStart ==
  Press(CASE state = "READY" -> "RUNNING"   [] state = "RUNNING" -> "STOPPED"
          [] state = "STOPPED" -> "RUNNING" [] OTHER -> "READY", mode)

PressMode == Press("READY", IF mode = 4 THEN 1 ELSE mode + 1)

PressLap == Press("READY", mode)

AloneNext == ControlIteration \/ PressStart \/ PressMode \/ PressLap

AloneSpec == AloneInit /\ [][AloneNext]_vars

-----------------------------------------------------------------------------
(* Counters stay within their limits, whatever is paused and resumed, and  *)
(* a track that is not driven has no phase.                                *)
TypeOK ==
  /\ mode \in Modes
  /\ state \in States
  /\ active \in [Tracks -> 0 .. 1]
  /\ phase \in [LineTracks -> Phases]
  /\ \A t \in LineTracks : active[t] = 0 <=> phase[t] = "IDLE"
  /\ found \in [Tracks -> Nat]
  /\ found["Q1"] \in 0 .. Q1Confirm
  /\ \A t \in LineTracks : found[t] \in 0 .. Confirm - 1
  /\ arm \in [LineTracks -> 0 .. ArmCycles]
  /\ lost \in [LineTracks -> 0 .. LostConfirm - 1]
  /\ recovery \in [LineTracks -> 0 .. RecoveryStop]
  /\ settle \in [LineTracks -> 0 .. SettleCycles]
  /\ laps \in 0 .. Laps
  /\ lineSeen \in 0 .. 1
  /\ exitAlign \in 0 .. 1
  /\ launch \in {"idle", "waiting", "done"}
  /\ waited \in 0 .. Delay
  /\ dist \in 0 .. HardStop
  /\ line \in Samples
  /\ command \in {"stop", "brake", "drive"}
  /\ event \in {"none", "point", "lap", "finish", "lastLap"}
  /\ course \in 0 .. 4
  /\ tracked \in 0 .. ArmCycles

(* Once control has seen the race stop, or has finished it, the car is not *)
(* commanded to drive.                                                     *)
StandsWhenNotRunning == seen /\ state # "RUNNING" => command # "drive"

(* The end of an arc is taken from the line only after ArmCycles good      *)
(* samples of that same arc, whichever arc or lap came before and however  *)
(* often the race was paused; otherwise the hard stop of Q3 ended it.      *)
EndpointArmed ==
  [][\A t \in LineTracks :
       event' # "none" /\ phase[t] \in Arcs /\ phase'[t] # phase[t]
         => tracked >= ArmCycles \/ (t = "Q3" /\ dist + 1 >= HardStop)]_vars

(* A valid line sample releases the brake of a failed recovery, unless the *)
(* same iteration ends the arc.                                            *)
LineReleasesBrake ==
  [][ControlIteration /\ state = "RUNNING" /\ launch = "done" /\ command = "brake"
       /\ {line, line'} \subseteq OK /\ event' = "none"
         => command' = "drive"]_vars
==============================================================================
