-------------------------------- MODULE Route --------------------------------
(***************************************************************************)
(* The route logic of control_task.c: one action is one 10 ms iteration of *)
(* StartcontrolTask.  Race, display and key_scan cannot run inside it in a *)
(* way it notices; the line task can, which is why the line is read twice: *)
(* an iteration decides on the sample line and steers by line'.            *)
(*                                                                         *)
(* Wheel travel is kept as the last mark passed in the current segment, a  *)
(* line sample as its class, a chassis call as its kind.  The marks are    *)
(* those of the default tuning (every distance and angle is positive).     *)
(* The right-angle corner code is compiled out                             *)
(* (CONTROL_TASK_ENABLE_CORNER_RECOVERY is 0) and left out.                *)
(***************************************************************************)
EXTENDS Integers

CONSTANTS
  Q1Confirm,     (* g_q1_line_confirm_cycles                               *)
  Confirm,       (* CONTROL_POINT_CONFIRM_CYCLES                           *)
  ArmCycles,     (* g_arc_endpoint_arm_cycles                              *)
  LostConfirm,   (* g_q2_arc_lost_confirm_cycles                           *)
  RecoveryStop,  (* g_q2_arc_recovery_stop_cycles                          *)
  SettleCycles,  (* CONTROL_Q2_C_ALIGN_SETTLE_CYCLES                       *)
  Delay,         (* CONTROL_TASK_START_DELAY_MS in iterations              *)
  Laps,          (* laps of mode 4                                         *)
  Samples        (* the classes of line sample that may occur              *)

ASSUME RouteAssumption ==
  /\ Q1Confirm \in Nat \ {0}    /\ Confirm \in Nat \ {0}
  /\ ArmCycles \in Nat \ {0}    /\ LostConfirm \in Nat \ {0}
  /\ RecoveryStop \in Nat \ {0} /\ SettleCycles \in Nat
  /\ Delay \in Nat \ {0}        /\ Laps \in Nat \ {0}
  /\ Samples \subseteq {"lost", "full", "edge", "centre"}

Modes  == 1 .. 4
States == {"READY", "RUNNING", "STOPPED", "FINISHED"}

(* Modes 3 and 4 share the variables and the code of the Q3 track. *)
Tracks == {"Q1", "Q2", "Q3"}
LineTracks == {"Q2", "Q3"}
TrackOf == [m \in Modes |-> <<"Q1", "Q2", "Q3", "Q3">>[m]]

(* Classes of AppLineFollow_Snapshot: no sensor, all sensors, or status OK *)
(* with the line under the centre sensors or not.                          *)
OK == {"edge", "centre"}

(* Marks of the travel in a segment; a turn only has its target angle. *)
Window   == 1
Target   == 2
HardStop == 3

AfterPhase ==
  [AB_STRAIGHT |-> "FIND_B_LINE", FIND_B_LINE |-> "BC_ARC",
   BC_ARC      |-> "C_ALIGN",     C_ALIGN     |-> "CD_STRAIGHT",
   CD_STRAIGHT |-> "FIND_D_LINE", FIND_D_LINE |-> "DA_ARC",
   START_ALIGN |-> "AC_STRAIGHT", AC_STRAIGHT |-> "FIND_C_LINE",
   FIND_C_LINE |-> "CB_ARC",      CB_ARC      |-> "B_ALIGN",
   B_ALIGN     |-> "BD_STRAIGHT", BD_STRAIGHT |-> "FIND_D_LINE"]

Phases    == DOMAIN AfterPhase \union {"IDLE", "DA_ARC"}
Straights == {"AB_STRAIGHT", "CD_STRAIGHT", "AC_STRAIGHT", "BD_STRAIGHT"}
Finds     == {"FIND_B_LINE", "FIND_C_LINE", "FIND_D_LINE"}
Arcs      == {"BC_ARC", "CB_ARC", "DA_ARC"}
Aligns    == {"C_ALIGN", "B_ALIGN", "START_ALIGN"}
FirstPhase == [t \in LineTracks |->
  IF t = "Q2" THEN "AB_STRAIGHT" ELSE "START_ALIGN"]

VARIABLES
  mode, state,  (* of app_race_config.c                                    *)
  active,       (* q1_active, q2_active, q3_active                         *)
  phase,        (* q2_phase, q3_phase                                      *)
  found,        (* q1_, q2_ and q3_line_found_count                        *)
  arm,          (* q2_ and q3_arc_tracking_count                           *)
  lost,         (* q2_ and q3_arc_lost_count                               *)
  recovery,     (* q2_ and q3_arc_recovery_lost_count                      *)
  settle,       (* q2_c_align_ and q3_straight_settle_cycles               *)
  laps,         (* q4_completed_laps                                       *)
  lineSeen,     (* line_seen_since_run                                     *)
  exitAlign,    (* exit_align_active                                       *)
  launch,       (* start_delay_state                                       *)
  waited,       (* iterations since start_delay_tick                       *)
  dist,         (* the last mark passed since the segment entry; 0 between *)
                (* two routes, where no segment is entered                 *)
  line,         (* the published line sample                               *)
  command,      (* the last chassis call: "stop", "brake" or "drive"       *)
  event         (* what the last iteration reported to app_race_config.c   *)

trackVars   == <<active, phase, found, arm, lost, recovery, settle>>
launchVars  == <<launch, waited>>
steerVars   == <<lineSeen, exitAlign>>
controlVars == <<trackVars, laps, steerVars, launchVars, dist, line, command,
                 event>>

Min(a, b) == IF a < b THEN a ELSE b

RouteInit ==
  /\ active = [t \in Tracks |-> 0]
  /\ phase = [t \in LineTracks |-> "IDLE"]
  /\ found = [t \in Tracks |-> 0]
  /\ arm = [t \in LineTracks |-> 0]
  /\ lost = [t \in LineTracks |-> 0]
  /\ recovery = [t \in LineTracks |-> 0]
  /\ settle = [t \in LineTracks |-> 0]
  /\ laps = 0
  /\ lineSeen = 0
  /\ exitAlign = 0
  /\ launch = "idle"
  /\ waited = 0
  /\ dist = 0
  /\ line \in Samples
  /\ command = "stop"
  /\ event = "none"

Init == mode = 1 /\ state = "READY" /\ RouteInit

(***************************************************************************)
(* Not running, and the launch delay                                       *)
(***************************************************************************)
(* Mutant: STOP forgets the route too. *)
ForgetsRouteAlways(s) == TRUE

(* STOP is a pause; any other state starts a new route. *)
ForgetsRoute(s) == s # "STOPPED"

ResetTracks ==
  /\ active' = [t \in Tracks |-> 0]
  /\ phase' = [t \in LineTracks |-> "IDLE"]
  /\ found' = [t \in Tracks |-> 0]
  /\ arm' = [t \in LineTracks |-> 0]
  /\ lost' = [t \in LineTracks |-> 0]
  /\ recovery' = [t \in LineTracks |-> 0]
  /\ settle' = [t \in LineTracks |-> 0]
  /\ laps' = 0
  /\ dist' = 0

(* Mutant: the wheels are stopped together with the route only. *)
NotRunningHolds ==
  /\ state # "RUNNING"
  /\ IF ForgetsRoute(state)
     THEN ResetTracks /\ command' = "stop"
     ELSE UNCHANGED <<trackVars, laps, dist, command>>
  /\ lineSeen' = 0
  /\ exitAlign' = 0
  /\ launch' = "idle"
  /\ waited' = 0
  /\ event' = "none"
  /\ UNCHANGED state

NotRunning ==
  /\ state # "RUNNING"
  /\ IF ForgetsRoute(state) THEN ResetTracks
                            ELSE UNCHANGED <<trackVars, laps, dist>>
  /\ lineSeen' = 0
  /\ exitAlign' = 0
  /\ launch' = "idle"
  /\ waited' = 0
  /\ command' = "stop"
  /\ event' = "none"
  /\ UNCHANGED state

DelayOver == launch = "done" \/ (launch = "waiting" /\ waited >= Delay)

AwaitLaunch ==
  /\ state = "RUNNING"
  /\ ~DelayOver
  /\ launch' = "waiting"
  /\ waited' = IF launch = "idle" THEN 1 ELSE waited + 1
  /\ command' = "stop"
  /\ event' = "none"
  /\ UNCHANGED <<state, trackVars, laps, steerVars, dist>>

(***************************************************************************)
(* Helpers of the running iteration                                        *)
(***************************************************************************)
(* The tracks that the else branches passed before t's code switch off.    *)
Dropped(t) == CASE t = "Q1" -> {} [] t = "Q2" -> {"Q1"}
                [] t = "Q3" -> {"Q1", "Q2"}

(* f with t's value set to v and the tracks of others set to off.          *)
With(f, t, v, others, off) ==
  [u \in DOMAIN f |->
    IF u = t THEN v ELSE IF u \in others THEN off ELSE f[u]]

(* The tracks switched off by an iteration of t that ends in the line      *)
(* follower: for Q2 it runs through the else branch of Q3 as well.         *)
DroppedBy(t, follows) ==
  Dropped(t) \union (IF follows /\ t = "Q2" THEN {"Q3"} ELSE {})

(* Every running iteration in the mode of track t, with its new phase.     *)
OnTrack(t, a, p, f, follows) ==
  /\ active' = With(active, t, a, DroppedBy(t, follows), 0)
  /\ phase' = With(phase, t, p, DroppedBy(t, follows), "IDLE")
  /\ found' = With(found, t, f, DroppedBy(t, follows) \ {"Q1"}, 0)

(* The counters of t; a dropped Q2 keeps all but its recovery count.       *)
Counters(t, a, l, r, follows) ==
  LET others == DroppedBy(t, follows) IN
  /\ arm' = With(arm, t, a, others \ {"Q2"}, 0)
  /\ lost' = With(lost, t, l, others \ {"Q2"}, 0)
  /\ recovery' = With(recovery, t, r, others, 0)

SameCounters(t) == Counters(t, arm[t], lost[t], recovery[t], FALSE)

Finishes(e) == e \in {"finish", "lastLap"}

Report(e) ==
  /\ event' = e
  /\ state' = IF Finishes(e) THEN "FINISHED" ELSE state

(* The travel when the iteration reads it: no iteration passes two marks.  *)
Travel == {d \in 0 .. HardStop : d \in {dist, dist + 1}}

PointSeen(t, p) ==
  IF t = "Q3" /\ p \in {"BD_STRAIGHT", "FIND_D_LINE"}
  THEN line # "lost"
  ELSE line = "centre"

Confirmed(count, hit, bound) == IF hit THEN Min(count + 1, bound) ELSE 0

Running(t) ==
  /\ TrackOf[mode] = t
  /\ launch' = "done"
  /\ waited' = 0

(***************************************************************************)
(* The first iteration of a run: the segment begins here, so no distance   *)
(* or angle is reached yet.                                                *)
(***************************************************************************)
Begin(t) ==
  /\ Running(t)
  /\ active[t] = 0
  /\ active' = With(active, t, 1, Dropped(t), 0)
  /\ found' = With(found, t, 0, Dropped(t) \ {"Q1"}, 0)
  /\ IF t = "Q1" THEN UNCHANGED <<phase, arm, lost, recovery, settle>>
     ELSE /\ phase' = With(phase, t, FirstPhase[t], Dropped(t), "IDLE")
          /\ Counters(t, 0, 0, 0, FALSE)
          /\ settle' = IF t = "Q3" THEN [settle EXCEPT ![t] = 0] ELSE settle
  /\ dist' = 0
  /\ command' = "drive"
  /\ event' = "none"
  /\ UNCHANGED <<state, laps, steerVars>>

(***************************************************************************)
(* Q1: the straight A-B                                                    *)
(***************************************************************************)
DriveQ1(d) ==
  LET count == Confirmed(found["Q1"], d >= Window /\ PointSeen("Q1", "AB"),
                         Q1Confirm)
      arrived == count >= Q1Confirm \/ d >= HardStop
  IN
  /\ Running("Q1")
  /\ active["Q1"] = 1
  /\ active' = [active EXCEPT !["Q1"] = IF arrived THEN 0 ELSE 1]
  /\ found' = [found EXCEPT !["Q1"] = IF arrived THEN 0 ELSE count]
  /\ command' = IF arrived THEN "brake" ELSE "drive"
  /\ Report(IF arrived THEN "finish" ELSE "none")
  /\ dist' = d
  /\ UNCHANGED <<phase, arm, lost, recovery, settle, laps, steerVars>>

(***************************************************************************)
(* Straights, turns and the search for a point                             *)
(***************************************************************************)
InPhase(t, phases) ==
  /\ Running(t)
  /\ active[t] = 1
  /\ phase[t] \in phases

(* Both wheels get the same target until the turn before the straight has  *)
(* settled.  Q2 settles on C-D only.                                       *)
Settling(t) == settle[t] > 0 /\ phase[t] # "AB_STRAIGHT"

Settle(t, d) ==
  /\ InPhase(t, Straights)
  /\ Settling(t)
  /\ settle' = [settle EXCEPT ![t] = @ - 1]
  /\ OnTrack(t, 1, phase[t], found[t], FALSE)
  /\ SameCounters(t)
  /\ dist' = d
  /\ command' = "drive"
  /\ Report("none")
  /\ UNCHANGED <<laps, steerVars>>

StraightQ2(d) ==
  /\ InPhase("Q2", Straights)
  /\ ~Settling("Q2")
  /\ IF d >= Target
     THEN OnTrack("Q2", 1, AfterPhase[phase["Q2"]], 0, FALSE)
     ELSE OnTrack("Q2", 1, phase["Q2"], found["Q2"], FALSE)
  /\ SameCounters("Q2")
  /\ dist' = d
  /\ command' = "drive"
  /\ Report("none")
  /\ UNCHANGED <<settle, laps, steerVars>>

(* A diagonal of Q3 looks for its point near its end already; the arc      *)
(* begins with the next iteration.                                         *)
StraightQ3(d) ==
  LET p == phase["Q3"]
      count == Confirmed(found["Q3"], d >= Window /\ PointSeen("Q3", p),
                         Confirm)
  IN
  /\ InPhase("Q3", Straights)
  /\ ~Settling("Q3")
  /\ IF count >= Confirm
     THEN /\ OnTrack("Q3", 1, AfterPhase[AfterPhase[p]], 0, FALSE)
          /\ Counters("Q3", 0, 0, 0, FALSE)
          /\ dist' = 0
          /\ lineSeen' = 1
          /\ Report("point")
     ELSE /\ IF d >= Target
             THEN OnTrack("Q3", 1, AfterPhase[p], 0, FALSE)
             ELSE OnTrack("Q3", 1, p, count, FALSE)
          /\ SameCounters("Q3")
          /\ dist' = d
          /\ UNCHANGED lineSeen
          /\ Report("none")
  /\ command' = "drive"
  /\ UNCHANGED <<settle, laps, exitAlign>>

(* A pivot of a fixed angle, after which a straight begins.                *)
Align(t, d) ==
  /\ InPhase(t, Aligns)
  /\ IF d >= Target
     THEN /\ OnTrack(t, 1, AfterPhase[phase[t]], found[t], FALSE)
          /\ settle' = [settle EXCEPT ![t] = SettleCycles]
          /\ dist' = 0
          /\ IF phase[t] = "B_ALIGN"
             THEN Counters(t, 0, 0, 0, FALSE) /\ lineSeen' = 1
             ELSE SameCounters(t) /\ UNCHANGED lineSeen
     ELSE /\ OnTrack(t, 1, phase[t], found[t], FALSE)
          /\ SameCounters(t)
          /\ dist' = d
          /\ UNCHANGED <<settle, lineSeen>>
  /\ command' = "drive"
  /\ Report("none")
  /\ UNCHANGED <<laps, exitAlign>>

Search(t, d) ==
  LET count == Confirmed(found[t], PointSeen(t, phase[t]), Confirm) IN
  /\ InPhase(t, Finds)
  /\ count < Confirm
  /\ OnTrack(t, 1, phase[t], count, FALSE)
  /\ SameCounters(t)
  /\ dist' = d
  /\ command' = "drive"
  /\ Report("none")
  /\ UNCHANGED <<settle, laps, steerVars>>

(***************************************************************************)
(* Arcs                                                                    *)
(***************************************************************************)
(* Mutant: line_seen_since_run is tested before the sample. *)
FollowLineSeenFirst(lineSeenNow) ==
  IF lineSeenNow = 0
  THEN command' = "stop" /\ UNCHANGED steerVars
  ELSE /\ lineSeen' = 1
       /\ exitAlign' = IF line' \in OK THEN 0 ELSE 1
       /\ command' = "drive"

(* The line follower behind the route code, which reads the line again.    *)
FollowLine(lineSeenNow) ==
  IF line' \in OK
  THEN lineSeen' = 1 /\ exitAlign' = 0 /\ command' = "drive"
  ELSE /\ lineSeen' = lineSeenNow
       /\ IF lineSeenNow = 0
          THEN command' = "stop" /\ UNCHANGED exitAlign
          ELSE /\ exitAlign' = 1
               /\ \/ command' = "drive"
                  \/ exitAlign = 1 /\ command' = "stop"

(* Without a good sample the arc is driven blind for RecoveryStop          *)
(* iterations and then braked.                                             *)
FollowArc(t, p, f, a, l, r, lineSeenNow) ==
  IF line \in OK
  THEN /\ OnTrack(t, 1, p, f, TRUE)
       /\ Counters(t, a, l, 0, TRUE)
       /\ settle' = IF t = "Q2" THEN [settle EXCEPT !["Q3"] = 0] ELSE settle
       /\ FollowLine(lineSeenNow)
  ELSE LET blind == Min(r + 1, RecoveryStop) IN
       /\ OnTrack(t, 1, p, f, FALSE)
       /\ Counters(t, a, l, blind, FALSE)
       /\ command' = IF blind >= RecoveryStop THEN "brake" ELSE "drive"
       /\ lineSeen' = lineSeenNow
       /\ UNCHANGED <<settle, exitAlign>>

(* Mutant: the tracking count of the previous arc is carried over. *)
EnterArcStillArmed(t) ==
  /\ InPhase(t, Finds)
  /\ Confirmed(found[t], PointSeen(t, phase[t]), Confirm) >= Confirm
  /\ FollowArc(t, AfterPhase[phase[t]], 0, arm[t], 0, 0, 1)
  /\ dist' = 0
  /\ Report("point")
  /\ UNCHANGED laps

(* The point is confirmed: the arc begins in the same iteration, with its  *)
(* counters cleared.                                                       *)
EnterArc(t) ==
  /\ InPhase(t, Finds)
  /\ Confirmed(found[t], PointSeen(t, phase[t]), Confirm) >= Confirm
  /\ FollowArc(t, AfterPhase[phase[t]], 0,
               IF line \in OK THEN 1 ELSE 0, 0, 0, 1)
  /\ dist' = 0
  /\ Report("point")
  /\ UNCHANGED laps

Armed(t) == IF line \in OK THEN Min(arm[t] + 1, ArmCycles) ELSE arm[t]

LostFor(t) ==
  IF Armed(t) >= ArmCycles /\ line = "lost"
  THEN Min(lost[t] + 1, LostConfirm) ELSE 0

Blind(t) == IF line \in OK THEN 0 ELSE recovery[t]

ArcEnds(t, d) ==
  LostFor(t) >= LostConfirm \/ (t = "Q3" /\ d >= HardStop)

Arc(t, d) ==
  /\ InPhase(t, Arcs)
  /\ ~ArcEnds(t, d)
  /\ FollowArc(t, phase[t], found[t], Armed(t), LostFor(t), Blind(t), lineSeen)
  /\ dist' = d
  /\ Report("none")
  /\ UNCHANGED laps

(* C on Q2, B on Q3.  Q3 issues no chassis call in this iteration.         *)
LeaveFirstArc(t, d) ==
  /\ InPhase(t, Arcs \ {"DA_ARC"})
  /\ ArcEnds(t, d)
  /\ OnTrack(t, 1, AfterPhase[phase[t]], found[t], FALSE)
  /\ Counters(t, Armed(t), 0, Blind(t), FALSE)
  /\ dist' = 0
  /\ command' = IF t = "Q2" THEN "drive" ELSE command
  /\ Report("point")
  /\ UNCHANGED <<settle, laps, steerVars>>

(* Mutant: the finish is reported but the car is not braked. *)
FinishAtARolling(t, d) ==
  /\ mode # 4
  /\ InPhase(t, {"DA_ARC"})
  /\ ArcEnds(t, d)
  /\ OnTrack(t, 0, "IDLE", found[t], FALSE)
  /\ Counters(t, Armed(t), 0, Blind(t), FALSE)
  /\ dist' = 0
  /\ Report("finish")
  /\ UNCHANGED <<command, settle, laps, steerVars>>

(* A in modes 2 and 3. *)
FinishAtA(t, d) ==
  /\ mode # 4
  /\ InPhase(t, {"DA_ARC"})
  /\ ArcEnds(t, d)
  /\ OnTrack(t, 0, "IDLE", found[t], FALSE)
  /\ Counters(t, Armed(t), 0, Blind(t), FALSE)
  /\ dist' = 0
  /\ command' = "brake"
  /\ Report("finish")
  /\ UNCHANGED <<settle, laps, steerVars>>

(* A in mode 4. *)
CompleteLap(d) ==
  LET completed == Min(laps + 1, Laps) IN
  /\ mode = 4
  /\ InPhase("Q3", {"DA_ARC"})
  /\ ArcEnds("Q3", d)
  /\ laps' = completed
  /\ IF completed >= Laps
     THEN /\ OnTrack("Q3", 0, "IDLE", found["Q3"], FALSE)
          /\ Counters("Q3", Armed("Q3"), 0, Blind("Q3"), FALSE)
          /\ command' = "brake"
          /\ Report("lastLap")
     ELSE /\ OnTrack("Q3", 1, "START_ALIGN", found["Q3"], FALSE)
          /\ Counters("Q3", 0, 0, 0, FALSE)
          /\ command' = "stop"
          /\ Report("lap")
  /\ dist' = 0
  /\ UNCHANGED <<settle, steerVars>>

(***************************************************************************)
(* One iteration of the control task                                       *)
(***************************************************************************)
RunTrack(t, d) ==
  \/ Settle(t, d)         \/ Align(t, d)  \/ Search(t, d)
  \/ EnterArc(t)          \/ Arc(t, d)
  \/ LeaveFirstArc(t, d)  \/ FinishAtA(t, d)

RunIteration ==
  /\ state = "RUNNING"
  /\ DelayOver
  /\ \/ \E t \in Tracks : Begin(t)
     \/ \E d \in Travel :
          \/ DriveQ1(d)
          \/ \E t \in LineTracks : RunTrack(t, d)
          \/ StraightQ2(d) \/ StraightQ3(d) \/ CompleteLap(d)

Iteration ==
  /\ line' \in Samples
  /\ NotRunning \/ AwaitLaunch \/ RunIteration
  /\ UNCHANGED mode
==============================================================================
