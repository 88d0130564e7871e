---------------------------- MODULE RouteProofs ----------------------------
(***************************************************************************)
(* The route logic with an operator who presses one key at a time, for     *)
(* every tuning of its counters, number of laps and kind of line sample:   *)
(* the course is kept, the end of an arc is taken only when it is armed,   *)
(* and a car that is not running stands.                                   *)
(***************************************************************************)
EXTENDS RouteRefinement, TLAPS

(* At most one track is driven: that of the mode in which it was begun,    *)
(* which is the mode shown as long as the race is running or paused.       *)
OneTrack ==
  /\ \A t \in Tracks : active[t] = 1 <=> (course # 0 /\ t = TrackOf[course])
  /\ course # 0 /\ state \in {"RUNNING", "STOPPED"} => course = mode
  /\ state = "FINISHED" \/ (seen /\ state = "READY") => course = 0

(* A course begins without laps, and one under way has laps left.          *)
LapsLeft ==
  /\ course = 4 => laps < Laps
  /\ course = 0 /\ (state \in {"RUNNING", "STOPPED"} \/ (seen /\ state = "READY"))
       => laps = 0

(* The arming count of an arc counts good samples of this very arc.        *)
ArmIsTracked == \A t \in LineTracks : phase[t] \in Arcs => arm[t] <= tracked

IInv == TypeOK /\ OneTrack /\ LapsLeft /\ ArmIsTracked /\ StandsWhenNotRunning

(* The part of the type invariant an iteration of a line track works on    *)
(* besides active and phase.                                               *)
FoundOK ==
  /\ found \in [Tracks -> Nat]
  /\ found["Q1"] \in 0 .. Q1Confirm
  /\ \A t \in LineTracks : found[t] \in 0 .. Confirm - 1

CountersOK ==
  /\ arm \in [LineTracks -> 0 .. ArmCycles]
  /\ lost \in [LineTracks -> 0 .. LostConfirm - 1]
  /\ recovery \in [LineTracks -> 0 .. RecoveryStop]

SteerOK ==
  /\ settle \in [LineTracks -> 0 .. SettleCycles]
  /\ lineSeen \in 0 .. 1
  /\ exitAlign \in 0 .. 1
  /\ dist \in 0 .. HardStop
  /\ command \in {"stop", "brake", "drive"}

WorkOK == FoundOK /\ CountersOK /\ SteerOK

(* The active track goes to phase p; with a = 0 it is left.                *)
Moves(t, a, p) ==
  /\ active' = [active EXCEPT ![t] = a]
  /\ phase' = [phase EXCEPT ![t] = p]

(* The arming count a track may have in an arc it has just entered.        *)
FirstArm == IF line \in OK THEN 1 ELSE 0

(* The four things an iteration of a line track can do to the course.      *)
StaysOn(t, p) ==
  /\ Moves(t, 1, p)
  /\ p \in Phases \ {"IDLE"}
  /\ PassedIn[p] = PassedIn[phase[t]]
  /\ p \in Arcs => p = phase[t] /\ arm'[t] <= Armed(t)
  /\ phase[t] \in Arcs => p = phase[t]
  /\ event' = "none"
  /\ UNCHANGED <<state, laps>>

PassesPoint(t, p, d) ==
  /\ Moves(t, 1, p)
  /\ p \in Phases \ {"IDLE"}
  /\ PassedIn[phase[t]] < 3
  /\ PassedIn[p] = PassedIn[phase[t]] + 1
  /\ p \in Arcs => arm'[t] <= FirstArm
  /\ p # phase[t]
  /\ phase[t] \in Arcs => ArcEnds(t, d)
  /\ event' = "point"
  /\ UNCHANGED <<state, laps>>

StartsNextLap(t, d) ==
  /\ mode = 4 /\ t = "Q3"
  /\ Moves(t, 1, "START_ALIGN")
  /\ phase[t] = "DA_ARC"
  /\ ArcEnds(t, d)
  /\ laps' = laps + 1
  /\ laps + 1 < Laps
  /\ event' = "lap"
  /\ UNCHANGED state

EndsCourse(t, d) ==
  /\ Moves(t, 0, "IDLE")
  /\ phase[t] = "DA_ARC"
  /\ ArcEnds(t, d)
  /\ IF mode = 4 THEN laps + 1 >= Laps ELSE UNCHANGED laps
  /\ laps' \in 0 .. Laps
  /\ event' \in {"finish", "lastLap"}
  /\ state' = "FINISHED"
  /\ command' = "brake"

TrackStep(t, d) ==
  \/ \E p \in Phases : StaysOn(t, p) \/ PassesPoint(t, p, d)
  \/ StartsNextLap(t, d)
  \/ EndsCourse(t, d)

-----------------------------------------------------------------------------
(* In a course on a line track no other track is active, so that the else  *)
(* branches an iteration runs through find nothing to switch off.          *)
LEMMA OnlyTrack ==
  ASSUME TypeOK, OneTrack, NEW t \in Tracks, active[t] = 1
  PROVE  \A u \in Tracks \ {t} :
           active[u] = 0 /\ (u \in LineTracks => phase[u] = "IDLE")
  BY DEF TypeOK, OneTrack, Tracks, LineTracks

LEMMA TrackMoves ==
  ASSUME TypeOK, OneTrack, NEW t \in LineTracks, active[t] = 1,
         NEW a \in 0 .. 1, NEW p \in Phases, NEW f \in 0 .. Confirm - 1,
         NEW follows \in BOOLEAN, OnTrack(t, a, p, f, follows)
  PROVE  Moves(t, a, p) /\ FoundOK'
<1>1. \A u \in Tracks \ {t} :
        active[u] = 0 /\ (u \in LineTracks => phase[u] = "IDLE")
  BY OnlyTrack DEF LineTracks, Tracks
<1>2. active' = [active EXCEPT ![t] = a]
  <2>1. active \in [Tracks -> 0 .. 1]
    BY DEF TypeOK
  <2> QED BY <1>1, <2>1 DEF OnTrack, With
<1>3. phase' = [phase EXCEPT ![t] = p]
  <2>1. phase \in [LineTracks -> Phases] /\ LineTracks \subseteq Tracks
    BY DEF TypeOK, LineTracks, Tracks
  <2> QED BY <1>1, <2>1 DEF OnTrack, With
<1>4. FoundOK'
  <2>1. found \in [Tracks -> Nat] /\ found["Q1"] \in 0 .. Q1Confirm
        /\ \A u \in LineTracks : found[u] \in 0 .. Confirm - 1
    BY DEF TypeOK
  <2>2. found' = [u \in Tracks |-> IF u = t THEN f
                   ELSE IF u \in DroppedBy(t, follows) \ {"Q1"} THEN 0
                   ELSE found[u]]
    BY <2>1 DEF OnTrack, With
  <2>3. Confirm \in Nat \ {0} /\ t # "Q1"
    BY RouteAssumption DEF LineTracks
  <2> QED BY <2>1, <2>2, <2>3 DEF FoundOK, LineTracks, Tracks
<1> QED BY <1>2, <1>3, <1>4 DEF Moves

LEMMA CountersMove ==
  ASSUME TypeOK, NEW t \in LineTracks, NEW a \in 0 .. ArmCycles,
         NEW l \in 0 .. LostConfirm - 1, NEW r \in 0 .. RecoveryStop,
         NEW follows \in BOOLEAN, Counters(t, a, l, r, follows)
  PROVE  CountersOK' /\ arm'[t] = a
<1>1. /\ arm \in [LineTracks -> 0 .. ArmCycles]
      /\ lost \in [LineTracks -> 0 .. LostConfirm - 1]
      /\ recovery \in [LineTracks -> 0 .. RecoveryStop]
  BY DEF TypeOK
<1>2. 0 \in 0 .. ArmCycles /\ 0 \in 0 .. LostConfirm - 1 /\ 0 \in 0 .. RecoveryStop
  BY RouteAssumption
<1> QED BY <1>1, <1>2 DEF Counters, With, CountersOK

LEMMA SameCountersMove ==
  ASSUME TypeOK, NEW t \in LineTracks, SameCounters(t)
  PROVE  CountersOK' /\ arm'[t] = arm[t]
<1>1. /\ arm[t] \in 0 .. ArmCycles /\ lost[t] \in 0 .. LostConfirm - 1
      /\ recovery[t] \in 0 .. RecoveryStop
  BY DEF TypeOK
<1>2. Counters(t, arm[t], lost[t], recovery[t], FALSE)
  BY DEF SameCounters
<1> QED BY <1>1, <1>2, CountersMove

(* The order of the phases, and the points passed in each of them.         *)
LEMMA PhaseOrder ==
  /\ PassedIn \in [Phases -> 0 .. 3]
  /\ \A p \in Straights :
       /\ AfterPhase[p] \in Finds /\ PassedIn[AfterPhase[p]] = PassedIn[p]
       /\ AfterPhase[AfterPhase[p]] \in Arcs
       /\ PassedIn[AfterPhase[AfterPhase[p]]] = PassedIn[p] + 1
       /\ PassedIn[p] < 3
  /\ \A p \in Finds :
       /\ AfterPhase[p] \in Arcs /\ PassedIn[AfterPhase[p]] = PassedIn[p] + 1
       /\ PassedIn[p] < 3
  /\ \A p \in Aligns :
       AfterPhase[p] \in Straights /\ PassedIn[AfterPhase[p]] = PassedIn[p]
  /\ \A p \in Arcs \ {"DA_ARC"} :
       /\ AfterPhase[p] \in Aligns /\ PassedIn[AfterPhase[p]] = PassedIn[p] + 1
       /\ PassedIn[p] < 3
  /\ PassedIn["DA_ARC"] = 3 /\ PassedIn["START_ALIGN"] = 0
  /\ PassedIn["AB_STRAIGHT"] = 0
<1>1. Phases = {"AB_STRAIGHT", "FIND_B_LINE", "BC_ARC", "C_ALIGN",
                "CD_STRAIGHT", "FIND_D_LINE", "START_ALIGN", "AC_STRAIGHT",
                "FIND_C_LINE", "CB_ARC", "B_ALIGN", "BD_STRAIGHT", "IDLE",
                "DA_ARC"}
  BY DEF Phases, AfterPhase
<1> QED BY <1>1 DEF PassedIn, AfterPhase, Straights, Finds, Arcs, Aligns

LEMMA PhaseSets ==
  /\ Straights \cup Finds \cup Arcs \cup Aligns \subseteq Phases \ {"IDLE"}
  /\ Arcs \cap (Straights \cup Finds \cup Aligns) = {}
  /\ Straights \cap (Finds \cup Aligns) = {} /\ Finds \cap Aligns = {}
  /\ "IDLE" \in Phases /\ "START_ALIGN" \in Aligns /\ "DA_ARC" \in Arcs
  BY DEF Straights, Finds, Arcs, Aligns, Phases, AfterPhase

-----------------------------------------------------------------------------
(***************************************************************************)
(* What each iteration of a line track does to the course                  *)
(***************************************************************************)
LEMMA TravelType ==
  ASSUME TypeOK, NEW d \in Travel
  PROVE  d \in 0 .. HardStop /\ d <= dist + 1
  BY DEF TypeOK, Travel, HardStop

LEMMA SettleStep ==
  ASSUME TypeOK, OneTrack, NEW t \in LineTracks, NEW d \in Travel, Settle(t, d)
  PROVE  WorkOK' /\ TrackStep(t, d)
<1>1. /\ active[t] = 1 /\ phase[t] \in Straights /\ found[t] \in 0 .. Confirm - 1
  BY DEF Settle, InPhase, TypeOK
<1>2. /\ OnTrack(t, 1, phase[t], found[t], FALSE) /\ SameCounters(t)
  BY DEF Settle
<1>3. phase[t] \in Phases \ {"IDLE"} /\ phase[t] \notin Arcs
  BY <1>1, PhaseSets
<1>4. Moves(t, 1, phase[t]) /\ FoundOK'
  <2>1. 1 \in 0 .. 1 /\ FALSE \in BOOLEAN
    OBVIOUS
  <2> QED BY <1>1, <1>2, <1>3, <2>1, TrackMoves, Zenon
<1>5. CountersOK'
  BY <1>2, SameCountersMove
<1>6. SteerOK'
  <2>1. settle \in [LineTracks -> 0 .. SettleCycles] /\ settle[t] > 0
        /\ SettleCycles \in Nat /\ settle' = [settle EXCEPT ![t] = @ - 1]
    BY RouteAssumption DEF Settle, Settling, TypeOK
  <2>2. settle' \in [LineTracks -> 0 .. SettleCycles]
    BY <2>1
  <2> QED BY <2>2, TravelType DEF Settle, SteerOK, TypeOK, steerVars
<1>7. StaysOn(t, phase[t])
  BY <1>3, <1>4 DEF Settle, StaysOn, Report, Finishes
<1> QED BY <1>3, <1>4, <1>5, <1>6, <1>7 DEF WorkOK, TrackStep

LEMMA StraightQ2Step ==
  ASSUME TypeOK, OneTrack, NEW d \in Travel, StraightQ2(d)
  PROVE  WorkOK' /\ TrackStep("Q2", d)
<1> DEFINE p == IF d >= Target THEN AfterPhase[phase["Q2"]] ELSE phase["Q2"]
<1>1. /\ active["Q2"] = 1 /\ phase["Q2"] \in Straights /\ "Q2" \in LineTracks
      /\ found["Q2"] \in 0 .. Confirm - 1 /\ 0 \in 0 .. Confirm - 1
  BY RouteAssumption DEF StraightQ2, InPhase, TypeOK, LineTracks
<1>2. p \in Straights \cup Finds /\ PassedIn[p] = PassedIn[phase["Q2"]]
  BY <1>1, PhaseOrder
<1>3. p \in Phases \ {"IDLE"} /\ p \notin Arcs /\ phase["Q2"] \notin Arcs
  BY <1>1, <1>2, PhaseSets
<1>4. Moves("Q2", 1, p) /\ FoundOK'
  <2>1. OnTrack("Q2", 1, p, 0, FALSE) \/ OnTrack("Q2", 1, p, found["Q2"], FALSE)
    BY DEF StraightQ2
  <2>2. 1 \in 0 .. 1 /\ FALSE \in BOOLEAN
    OBVIOUS
  <2> HIDE DEF p
  <2> QED BY <1>1, <1>3, <2>1, <2>2, TrackMoves, Zenon
<1> HIDE DEF p
<1>5. CountersOK'
  BY <1>1, SameCountersMove DEF StraightQ2
<1>6. SteerOK'
  BY TravelType DEF StraightQ2, SteerOK, TypeOK, steerVars
<1>7. StaysOn("Q2", p)
  BY <1>2, <1>3, <1>4 DEF StraightQ2, StaysOn, Report, Finishes
<1> QED BY <1>3, <1>4, <1>5, <1>6, <1>7 DEF WorkOK, TrackStep

LEMMA StraightQ3Step ==
  ASSUME TypeOK, OneTrack, NEW d \in Travel, StraightQ3(d)
  PROVE  WorkOK' /\ TrackStep("Q3", d)
<1> DEFINE p     == phase["Q3"]
           count == Confirmed(found["Q3"], d >= Window /\ PointSeen("Q3", p),
                              Confirm)
<1>1. /\ active["Q3"] = 1 /\ p \in Straights /\ "Q3" \in LineTracks
      /\ found["Q3"] \in 0 .. Confirm - 1 /\ Confirm \in Nat \ {0}
  BY RouteAssumption DEF StraightQ3, InPhase, TypeOK, LineTracks
<1>2. 1 \in 0 .. 1 /\ FALSE \in BOOLEAN /\ 0 \in 0 .. Confirm - 1
  BY <1>1
<1>3. p \in Phases \ {"IDLE"} /\ p \notin Arcs
  BY <1>1, PhaseSets
<1>4. SteerOK'
  <2>1. settle' = settle /\ exitAlign' = exitAlign /\ command' = "drive"
        /\ lineSeen' \in {1, lineSeen} /\ dist' \in {0, d}
    BY DEF StraightQ3
  <2> QED BY <2>1, TravelType DEF SteerOK, TypeOK, HardStop
<1>5. CASE count >= Confirm
  <2> DEFINE q == AfterPhase[AfterPhase[p]]
  <2>1. q \in Arcs /\ PassedIn[q] = PassedIn[p] + 1 /\ PassedIn[p] < 3
    BY <1>1, PhaseOrder
  <2>2. q \in Phases \ {"IDLE"} /\ q # p
    BY <1>3, <2>1, PhaseSets
  <2>3. OnTrack("Q3", 1, q, 0, FALSE) /\ Counters("Q3", 0, 0, 0, FALSE)
        /\ Report("point") /\ UNCHANGED laps
    BY <1>5 DEF StraightQ3
  <2> HIDE DEF q
  <2>4. Moves("Q3", 1, q) /\ FoundOK'
    BY <1>1, <1>2, <2>2, <2>3, TrackMoves, Zenon
  <2>5. 0 \in 0 .. ArmCycles /\ 0 \in 0 .. LostConfirm - 1
        /\ 0 \in 0 .. RecoveryStop
    BY RouteAssumption
  <2>6. CountersOK' /\ arm'["Q3"] = 0
    BY <1>1, <1>2, <2>3, <2>5, CountersMove, Zenon
  <2>7. PassesPoint("Q3", q, d)
    BY <1>3, <2>1, <2>2, <2>3, <2>4, <2>6
    DEF PassesPoint, Report, Finishes, FirstArm
  <2> QED BY <1>4, <2>2, <2>4, <2>6, <2>7 DEF WorkOK, TrackStep
<1>6. CASE ~(count >= Confirm)
  <2> DEFINE q == IF d >= Target THEN AfterPhase[p] ELSE p
  <2>1. q \in Straights \cup Finds /\ PassedIn[q] = PassedIn[p]
    BY <1>1, PhaseOrder
  <2>2. q \in Phases \ {"IDLE"} /\ q \notin Arcs
    BY <2>1, PhaseSets
  <2>3. count \in 0 .. Confirm - 1
    BY <1>1, <1>6 DEF Confirmed, Min
  <2>4. OnTrack("Q3", 1, q, 0, FALSE) \/ OnTrack("Q3", 1, q, count, FALSE)
    BY <1>6 DEF StraightQ3
  <2>5. SameCounters("Q3") /\ Report("none") /\ UNCHANGED laps
    BY <1>6 DEF StraightQ3
  <2> HIDE DEF q, count
  <2>6. Moves("Q3", 1, q) /\ FoundOK'
    BY <1>1, <1>2, <2>2, <2>3, <2>4, TrackMoves, Zenon
  <2>7. CountersOK'
    BY <1>1, <2>5, SameCountersMove
  <2>8. StaysOn("Q3", q)
    BY <1>3, <2>1, <2>2, <2>5, <2>6 DEF StaysOn, Report, Finishes
  <2> QED BY <1>4, <2>2, <2>6, <2>7, <2>8 DEF WorkOK, TrackStep
<1> QED BY <1>5, <1>6

LEMMA AlignStep ==
  ASSUME TypeOK, OneTrack, NEW t \in LineTracks, NEW d \in Travel, Align(t, d)
  PROVE  WorkOK' /\ TrackStep(t, d)
<1> DEFINE p == IF d >= Target THEN AfterPhase[phase[t]] ELSE phase[t]
<1>1. /\ active[t] = 1 /\ phase[t] \in Aligns
      /\ found[t] \in 0 .. Confirm - 1
  BY DEF Align, InPhase, TypeOK
<1>2. p \in Straights \cup Aligns /\ PassedIn[p] = PassedIn[phase[t]]
  BY <1>1, PhaseOrder
<1>3. p \in Phases \ {"IDLE"} /\ p \notin Arcs /\ phase[t] \notin Arcs
  BY <1>1, <1>2, PhaseSets
<1>4. OnTrack(t, 1, p, found[t], FALSE) /\ Report("none") /\ UNCHANGED laps
  BY DEF Align
<1>5. Counters(t, 0, 0, 0, FALSE) \/ SameCounters(t)
  BY DEF Align
<1> HIDE DEF p
<1>6. 1 \in 0 .. 1 /\ FALSE \in BOOLEAN /\ 0 \in 0 .. ArmCycles
      /\ 0 \in 0 .. LostConfirm - 1 /\ 0 \in 0 .. RecoveryStop
  BY RouteAssumption
<1>7. Moves(t, 1, p) /\ FoundOK'
  BY <1>1, <1>3, <1>4, <1>6, TrackMoves, Zenon
<1>8. CountersOK'
  BY <1>5, <1>6, SameCountersMove, CountersMove, Zenon
<1>9. SteerOK'
  <2>1. settle \in [LineTracks -> 0 .. SettleCycles]
        /\ SettleCycles \in 0 .. SettleCycles
    BY RouteAssumption DEF TypeOK
  <2>2. settle' \in [LineTracks -> 0 .. SettleCycles]
    BY <2>1 DEF Align
  <2>3. exitAlign' = exitAlign /\ command' = "drive"
        /\ lineSeen' \in {1, lineSeen} /\ dist' \in {0, d}
    BY DEF Align
  <2> QED BY <2>2, <2>3, TravelType DEF SteerOK, TypeOK, HardStop
<1>10. StaysOn(t, p)
  BY <1>2, <1>3, <1>4, <1>7 DEF StaysOn, Report, Finishes
<1> QED BY <1>3, <1>7, <1>8, <1>9, <1>10 DEF WorkOK, TrackStep

LEMMA SearchStep ==
  ASSUME TypeOK, OneTrack, NEW t \in LineTracks, NEW d \in Travel, Search(t, d)
  PROVE  WorkOK' /\ TrackStep(t, d)
<1> DEFINE count == Confirmed(found[t], PointSeen(t, phase[t]), Confirm)
<1>1. /\ active[t] = 1 /\ phase[t] \in Finds /\ Confirm \in Nat \ {0}
      /\ found[t] \in 0 .. Confirm - 1
  BY RouteAssumption DEF Search, InPhase, TypeOK
<1>2. count \in 0 .. Confirm - 1
  BY <1>1 DEF Search, Confirmed, Min
<1>3. phase[t] \in Phases \ {"IDLE"} /\ phase[t] \notin Arcs
      /\ PassedIn[phase[t]] \in Nat
  BY <1>1, PhaseSets, PhaseOrder
<1>4. OnTrack(t, 1, phase[t], count, FALSE) /\ SameCounters(t)
  BY DEF Search
<1>5. 1 \in 0 .. 1 /\ FALSE \in BOOLEAN
  OBVIOUS
<1> HIDE DEF count
<1>6. Moves(t, 1, phase[t]) /\ FoundOK'
  BY <1>1, <1>2, <1>3, <1>4, <1>5, TrackMoves, Zenon
<1>7. CountersOK'
  BY <1>4, SameCountersMove
<1>8. SteerOK'
  BY TravelType DEF Search, SteerOK, TypeOK, steerVars
<1>9. StaysOn(t, phase[t])
  BY <1>3, <1>6 DEF Search, StaysOn, Report, Finishes
<1> QED BY <1>3, <1>6, <1>7, <1>8, <1>9 DEF WorkOK, TrackStep

(* The line follower, wherever it takes over. *)
LEMMA FollowArcStep ==
  ASSUME TypeOK, OneTrack, NEW t \in LineTracks, active[t] = 1,
         NEW p \in Phases, NEW f \in 0 .. Confirm - 1, NEW a \in 0 .. ArmCycles,
         NEW l \in 0 .. LostConfirm - 1, NEW r \in 0 .. RecoveryStop,
         NEW s \in 0 .. 1, FollowArc(t, p, f, a, l, r, s),
         dist' \in 0 .. HardStop
  PROVE  WorkOK' /\ Moves(t, 1, p) /\ arm'[t] = a
<1> DEFINE blind == Min(r + 1, RecoveryStop)
<1>1. 1 \in 0 .. 1 /\ FALSE \in BOOLEAN /\ TRUE \in BOOLEAN
      /\ 0 \in 0 .. RecoveryStop /\ blind \in 0 .. RecoveryStop
  BY RouteAssumption DEF Min
<1>2. OnTrack(t, 1, p, f, TRUE) \/ OnTrack(t, 1, p, f, FALSE)
  BY DEF FollowArc
<1>3. Counters(t, a, l, 0, TRUE) \/ Counters(t, a, l, blind, FALSE)
  BY DEF FollowArc
<1>4. Moves(t, 1, p) /\ FoundOK'
  BY <1>1, <1>2, TrackMoves, Zenon
<1>5. CountersOK' /\ arm'[t] = a
  <2> HIDE DEF blind
  <2> QED BY <1>1, <1>3, CountersMove, Zenon
<1>6. SteerOK'
  <2>1. settle \in [LineTracks -> 0 .. SettleCycles] /\ 0 \in 0 .. SettleCycles
        /\ exitAlign \in 0 .. 1 /\ s \in 0 .. 1
    BY RouteAssumption DEF TypeOK
  <2>2. settle' \in [LineTracks -> 0 .. SettleCycles]
    BY <2>1 DEF FollowArc
  <2>3. lineSeen' \in {1, s} /\ exitAlign' \in {0, 1, exitAlign}
        /\ command' \in {"stop", "brake", "drive"}
    <3>1. CASE line \in OK
      BY <3>1 DEF FollowArc, FollowLine
    <3>2. CASE line \notin OK
      BY <3>2 DEF FollowArc
    <3> QED BY <3>1, <3>2
  <2> QED BY <2>1, <2>2, <2>3 DEF SteerOK
<1> QED BY <1>4, <1>5, <1>6 DEF WorkOK

LEMMA CountTypes ==
  ASSUME TypeOK, NEW t \in LineTracks
  PROVE  /\ Armed(t) \in 0 .. ArmCycles
         /\ LostFor(t) \in 0 .. LostConfirm
         /\ Blind(t) \in 0 .. RecoveryStop
         /\ 0 \in 0 .. LostConfirm - 1
         /\ found[t] \in 0 .. Confirm - 1
  BY RouteAssumption DEF TypeOK, Armed, LostFor, Blind, Min

LEMMA EnterArcStep ==
  ASSUME TypeOK, OneTrack, NEW t \in LineTracks, NEW d \in Travel, EnterArc(t)
  PROVE  WorkOK' /\ TrackStep(t, d)
<1> DEFINE p == AfterPhase[phase[t]]
           a == IF line \in OK THEN 1 ELSE 0
<1>1. /\ active[t] = 1 /\ phase[t] \in Finds
      /\ FollowArc(t, p, 0, a, 0, 0, 1)
      /\ dist' = 0 /\ Report("point") /\ UNCHANGED laps
  BY DEF EnterArc, InPhase
<1>2. /\ p \in Arcs /\ PassedIn[p] = PassedIn[phase[t]] + 1
      /\ PassedIn[phase[t]] < 3
  BY <1>1, PhaseOrder
<1>3. /\ p \in Phases \ {"IDLE"} /\ phase[t] \notin Arcs /\ p # phase[t]
  BY <1>1, <1>2, PhaseSets
<1>4. /\ a \in 0 .. ArmCycles /\ 0 \in 0 .. Confirm - 1 /\ 1 \in 0 .. 1
      /\ 0 \in 0 .. LostConfirm - 1 /\ 0 \in 0 .. RecoveryStop
      /\ dist' \in 0 .. HardStop /\ a = FirstArm
  BY <1>1, RouteAssumption DEF HardStop, FirstArm
<1> HIDE DEF p, a
<1>5. WorkOK' /\ Moves(t, 1, p) /\ arm'[t] = a
  BY <1>1, <1>3, <1>4, FollowArcStep, Zenon
<1>6. a <= FirstArm
  BY <1>4
<1>7. PassesPoint(t, p, d)
  BY <1>1, <1>2, <1>3, <1>5, <1>6 DEF PassesPoint, Report, Finishes
<1> QED BY <1>3, <1>5, <1>7 DEF TrackStep

LEMMA ArcStep ==
  ASSUME TypeOK, OneTrack, NEW t \in LineTracks, NEW d \in Travel, Arc(t, d)
  PROVE  WorkOK' /\ TrackStep(t, d)
<1> DEFINE p == phase[t]
<1>1. /\ active[t] = 1 /\ p \in Arcs /\ ~ArcEnds(t, d)
      /\ FollowArc(t, p, found[t], Armed(t), LostFor(t), Blind(t), lineSeen)
      /\ dist' = d /\ Report("none") /\ UNCHANGED laps
  BY DEF Arc, InPhase
<1>2. /\ LostFor(t) \in 0 .. LostConfirm - 1 /\ Armed(t) \in 0 .. ArmCycles
      /\ Blind(t) \in 0 .. RecoveryStop /\ found[t] \in 0 .. Confirm - 1
  BY <1>1, CountTypes, RouteAssumption DEF ArcEnds
<1>3. /\ p \in Phases \ {"IDLE"} /\ lineSeen \in 0 .. 1
      /\ dist' \in 0 .. HardStop
  BY <1>1, PhaseSets, TravelType DEF TypeOK
<1>4. WorkOK' /\ Moves(t, 1, p) /\ arm'[t] = Armed(t)
  BY <1>1, <1>2, <1>3, FollowArcStep, Zenon
<1>5. arm'[t] <= Armed(t)
  BY <1>2, <1>4
<1>6. StaysOn(t, p)
  BY <1>1, <1>3, <1>4, <1>5 DEF StaysOn, Report, Finishes
<1> QED BY <1>3, <1>4, <1>6 DEF TrackStep

LEMMA LeaveFirstArcStep ==
  ASSUME TypeOK, OneTrack, NEW t \in LineTracks, NEW d \in Travel,
         LeaveFirstArc(t, d)
  PROVE  WorkOK' /\ TrackStep(t, d)
<1> DEFINE p == AfterPhase[phase[t]]
<1>1. /\ active[t] = 1 /\ phase[t] \in Arcs \ {"DA_ARC"} /\ ArcEnds(t, d)
      /\ OnTrack(t, 1, p, found[t], FALSE)
      /\ Counters(t, Armed(t), 0, Blind(t), FALSE)
      /\ Report("point") /\ UNCHANGED laps
  BY DEF LeaveFirstArc, InPhase
<1>2. /\ p \in Aligns /\ PassedIn[p] = PassedIn[phase[t]] + 1
      /\ PassedIn[phase[t]] < 3
  BY <1>1, PhaseOrder
<1>3. p \in Phases \ {"IDLE"} /\ p \notin Arcs /\ p # phase[t]
  BY <1>1, <1>2, PhaseSets
<1>4. 1 \in 0 .. 1 /\ FALSE \in BOOLEAN
  OBVIOUS
<1> HIDE DEF p
<1>5. Moves(t, 1, p) /\ FoundOK'
  BY <1>1, <1>3, <1>4, CountTypes, TrackMoves, Zenon
<1>6. CountersOK'
  BY <1>1, <1>4, CountTypes, CountersMove, Zenon
<1>7. SteerOK'
  <2>1. /\ settle' = settle /\ exitAlign' = exitAlign /\ lineSeen' = lineSeen
        /\ command' \in {"drive", command} /\ dist' = 0
    BY DEF LeaveFirstArc, steerVars
  <2> QED BY <2>1 DEF SteerOK, TypeOK, HardStop
<1>8. PassesPoint(t, p, d)
  BY <1>1, <1>2, <1>3, <1>5 DEF PassesPoint, Report, Finishes
<1> QED BY <1>3, <1>5, <1>6, <1>7, <1>8 DEF WorkOK, TrackStep

LEMMA FinishAtAStep ==
  ASSUME TypeOK, OneTrack, NEW t \in LineTracks, NEW d \in Travel,
         FinishAtA(t, d)
  PROVE  WorkOK' /\ TrackStep(t, d)
<1>1. /\ active[t] = 1 /\ phase[t] = "DA_ARC" /\ ArcEnds(t, d)
      /\ OnTrack(t, 0, "IDLE", found[t], FALSE)
      /\ Counters(t, Armed(t), 0, Blind(t), FALSE)
      /\ mode # 4 /\ Report("finish") /\ UNCHANGED laps
  BY DEF FinishAtA, InPhase
<1>2. 0 \in 0 .. 1 /\ FALSE \in BOOLEAN /\ "IDLE" \in Phases
  BY PhaseSets
<1>3. Moves(t, 0, "IDLE") /\ FoundOK'
  BY <1>1, <1>2, CountTypes, TrackMoves, Zenon
<1>4. CountersOK'
  BY <1>1, <1>2, CountTypes, CountersMove, Zenon
<1>5. SteerOK'
  <2>1. /\ settle' = settle /\ exitAlign' = exitAlign /\ lineSeen' = lineSeen
        /\ command' = "brake" /\ dist' = 0
    BY DEF FinishAtA, steerVars
  <2> QED BY <2>1 DEF SteerOK, TypeOK, HardStop
<1>6. EndsCourse(t, d)
  <2>1. laps \in 0 .. Laps /\ command' = "brake"
    BY DEF TypeOK, FinishAtA
  <2> QED BY <1>1, <1>3, <2>1 DEF EndsCourse, Report, Finishes
<1> QED BY <1>3, <1>4, <1>5, <1>6 DEF WorkOK, TrackStep

LEMMA CompleteLapStep ==
  ASSUME TypeOK, OneTrack, NEW d \in Travel, CompleteLap(d)
  PROVE  WorkOK' /\ TrackStep("Q3", d)
<1> DEFINE completed == Min(laps + 1, Laps)
<1>1. /\ active["Q3"] = 1 /\ phase["Q3"] = "DA_ARC" /\ ArcEnds("Q3", d)
      /\ mode = 4 /\ laps' = completed /\ "Q3" \in LineTracks
  BY DEF CompleteLap, InPhase, LineTracks
<1>2. laps \in 0 .. Laps /\ Laps \in Nat \ {0} /\ completed \in 0 .. Laps
      /\ (completed < Laps => completed = laps + 1 /\ laps + 1 < Laps)
      /\ (completed >= Laps => laps + 1 >= Laps)
  BY RouteAssumption DEF TypeOK, Min
<1>3. /\ 0 \in 0 .. 1 /\ 1 \in 0 .. 1 /\ FALSE \in BOOLEAN
      /\ "IDLE" \in Phases /\ "START_ALIGN" \in Phases
      /\ 0 \in 0 .. ArmCycles /\ 0 \in 0 .. RecoveryStop
  BY PhaseSets, RouteAssumption
<1>4. SteerOK'
  <2>1. /\ settle' = settle /\ exitAlign' = exitAlign /\ lineSeen' = lineSeen
        /\ command' \in {"brake", "stop"} /\ dist' = 0
    BY DEF CompleteLap, steerVars
  <2> QED BY <2>1 DEF SteerOK, TypeOK, HardStop
<1>5. CASE completed >= Laps
  <2>1. /\ OnTrack("Q3", 0, "IDLE", found["Q3"], FALSE)
        /\ Counters("Q3", Armed("Q3"), 0, Blind("Q3"), FALSE)
        /\ command' = "brake" /\ Report("lastLap")
    BY <1>5 DEF CompleteLap
  <2>2. Moves("Q3", 0, "IDLE") /\ FoundOK'
    BY <1>1, <1>3, <2>1, CountTypes, TrackMoves, Zenon
  <2>3. CountersOK'
    BY <1>1, <1>3, <2>1, CountTypes, CountersMove, Zenon
  <2>4. EndsCourse("Q3", d)
    BY <1>1, <1>2, <1>5, <2>1, <2>2 DEF EndsCourse, Report, Finishes
  <2> QED BY <1>4, <2>2, <2>3, <2>4 DEF WorkOK, TrackStep
<1>6. CASE ~(completed >= Laps)
  <2>1. /\ OnTrack("Q3", 1, "START_ALIGN", found["Q3"], FALSE)
        /\ Counters("Q3", 0, 0, 0, FALSE) /\ Report("lap")
    BY <1>6 DEF CompleteLap
  <2>2. Moves("Q3", 1, "START_ALIGN") /\ FoundOK'
    BY <1>1, <1>3, <2>1, CountTypes, TrackMoves, Zenon
  <2>3. CountersOK'
    BY <1>1, <1>3, <2>1, CountTypes, CountersMove, Zenon
  <2>4. StartsNextLap("Q3", d)
    BY <1>1, <1>2, <1>6, <2>1, <2>2 DEF StartsNextLap, Report, Finishes
  <2> QED BY <1>4, <2>2, <2>3, <2>4 DEF WorkOK, TrackStep
<1> QED BY <1>5, <1>6

LineTrackRuns(d) ==
  \/ \E t \in LineTracks : RunTrack(t, d)
  \/ StraightQ2(d) \/ StraightQ3(d) \/ CompleteLap(d)

LEMMA LineTrackStep ==
  ASSUME TypeOK, OneTrack, NEW d \in Travel, LineTrackRuns(d)
  PROVE  \E t \in LineTracks :
           /\ Running(t) /\ active[t] = 1 /\ phase[t] # "IDLE"
           /\ WorkOK' /\ TrackStep(t, d)
<1>1. ASSUME NEW t \in LineTracks, RunTrack(t, d)
      PROVE  Running(t) /\ active[t] = 1 /\ WorkOK' /\ TrackStep(t, d)
  <2>1. Running(t) /\ active[t] = 1
    BY <1>1 DEF RunTrack, Settle, Align, Search, EnterArc, Arc, LeaveFirstArc,
                FinishAtA, InPhase
  <2>2. WorkOK' /\ TrackStep(t, d)
    BY <1>1, SettleStep, AlignStep, SearchStep, EnterArcStep, ArcStep,
       LeaveFirstArcStep, FinishAtAStep DEF RunTrack
  <2> QED BY <2>1, <2>2
<1>2. CASE StraightQ2(d)
  <2>1. Running("Q2") /\ active["Q2"] = 1 /\ "Q2" \in LineTracks
    BY <1>2 DEF StraightQ2, InPhase, LineTracks
  <2>2. phase["Q2"] # "IDLE"
    BY <2>1 DEF TypeOK
  <2> QED BY <1>2, <2>1, <2>2, StraightQ2Step
<1>3. CASE StraightQ3(d) \/ CompleteLap(d)
  <2>1. Running("Q3") /\ active["Q3"] = 1 /\ "Q3" \in LineTracks
    BY <1>3 DEF StraightQ3, CompleteLap, InPhase, LineTracks
  <2>2. phase["Q3"] # "IDLE"
    BY <2>1 DEF TypeOK
  <2> QED BY <1>3, <2>1, <2>2, StraightQ3Step, CompleteLapStep
<1> QED BY <1>1, <1>2, <1>3 DEF LineTrackRuns, TypeOK

-----------------------------------------------------------------------------
(***************************************************************************)
(* The invariant                                                           *)
(***************************************************************************)
LEMMA CourseIsActive ==
  ASSUME TypeOK, OneTrack
  PROVE  IsActive(active) <=> course # 0
<1>1. ASSUME course # 0 PROVE TrackOf[course] \in Tracks
  BY <1>1 DEF TypeOK, TrackOf, Modes, Tracks
<1> QED BY <1>1 DEF OneTrack, IsActive

LEMMA HistoryTypes ==
  ASSUME TypeOK, ControlIteration
  PROVE  course' \in 0 .. 4 /\ tracked' \in 0 .. ArmCycles /\ seen' = TRUE
         /\ mode' = mode /\ line' \in Samples
  BY RouteAssumption DEF TypeOK, ControlIteration, Iteration, Modes, Min

LEMMA InitOK == AloneInit => IInv
<1> SUFFICES ASSUME AloneInit PROVE IInv
  OBVIOUS
<1> USE DEF AloneInit, Init, RouteInit
<1>1. TypeOK
  BY RouteAssumption
  DEF TypeOK, Modes, States, Phases, AfterPhase, Tracks, LineTracks, HardStop
<1>2. OneTrack /\ LapsLeft /\ ArmIsTracked /\ StandsWhenNotRunning
  BY DEF OneTrack, LapsLeft, ArmIsTracked, StandsWhenNotRunning, Arcs, Tracks,
         LineTracks
<1> QED BY <1>1, <1>2 DEF IInv

LEMMA PressOK ==
  ASSUME IInv, PressStart \/ PressMode \/ PressLap
  PROVE  IInv'
<1>1. PICK s \in {"READY", "RUNNING", "STOPPED"}, m \in Modes :
        /\ Press(s, m)
        /\ s \in {"RUNNING", "STOPPED"} => m = mode /\ state \in {"RUNNING", "STOPPED", "READY"}
  BY DEF PressStart, PressMode, PressLap, IInv, TypeOK, Modes
<1>2. UNCHANGED <<active, phase, found, arm, lost, recovery, settle, laps,
                  lineSeen, exitAlign, launch, waited, dist, line, command,
                  event, course, tracked>>
      /\ state' = s /\ mode' = m /\ seen' = FALSE /\ seen
  BY <1>1 DEF Press, controlVars, trackVars, steerVars, launchVars, historyVars
<1>3. TypeOK'
  BY <1>2 DEF IInv, TypeOK, States
<1>4. OneTrack'
  BY <1>1, <1>2 DEF IInv, OneTrack, TypeOK
<1>5. LapsLeft'
  BY <1>1, <1>2 DEF IInv, LapsLeft
<1>6. ArmIsTracked' /\ StandsWhenNotRunning'
  BY <1>2 DEF IInv, ArmIsTracked, StandsWhenNotRunning
<1> QED BY <1>3, <1>4, <1>5, <1>6 DEF IInv

LEMMA NotRunningOK ==
  ASSUME IInv, ControlIteration, NotRunning
  PROVE  IInv'
<1>1. course' \in 0 .. 4 /\ tracked' \in 0 .. ArmCycles /\ seen' = TRUE
      /\ mode' = mode /\ line' \in Samples
  BY HistoryTypes DEF IInv
<1>2. /\ lineSeen' = 0 /\ exitAlign' = 0 /\ launch' = "idle" /\ waited' = 0
      /\ command' = "stop" /\ event' = "none" /\ state' = state
      /\ state # "RUNNING"
  BY DEF NotRunning
<1>3. CASE ForgetsRoute(state)
  <2>1. ResetTracks
    BY <1>3 DEF NotRunning
  <2>2. course' = 0
    BY <2>1 DEF ControlIteration, ResetTracks, IsActive
  <2>3. TypeOK'
    BY <1>1, <1>2, <2>1, RouteAssumption
    DEF ResetTracks, IInv, TypeOK, Phases, Tracks, LineTracks, HardStop
  <2>4. OneTrack' /\ LapsLeft' /\ ArmIsTracked' /\ StandsWhenNotRunning'
    BY <1>2, <2>1, <2>2
    DEF ResetTracks, OneTrack, LapsLeft, ArmIsTracked, StandsWhenNotRunning,
        Arcs, Tracks, LineTracks
  <2> QED BY <2>3, <2>4 DEF IInv
<1>4. CASE ~ForgetsRoute(state)
  <2>1. UNCHANGED <<active, phase, found, arm, lost, recovery, settle, laps,
                    dist>>
        /\ state = "STOPPED"
    BY <1>4 DEF NotRunning, trackVars, ForgetsRoute
  <2>2. course' = course
    BY <2>1, CourseIsActive DEF ControlIteration, IInv
  <2>3. TypeOK'
    BY <1>1, <1>2, <2>1, RouteAssumption DEF IInv, TypeOK
  <2>4. tracked <= tracked'
    BY <2>1, RouteAssumption DEF ControlIteration, Min, IInv, TypeOK
  <2>5. ArmIsTracked'
    BY <1>1, <2>1, <2>4 DEF IInv, ArmIsTracked, TypeOK
  <2>6. OneTrack' /\ LapsLeft' /\ StandsWhenNotRunning'
    BY <1>1, <1>2, <2>1, <2>2 DEF IInv, OneTrack, LapsLeft, StandsWhenNotRunning
  <2> QED BY <2>3, <2>5, <2>6 DEF IInv
<1> QED BY <1>3, <1>4

LEMMA AwaitLaunchOK ==
  ASSUME IInv, ControlIteration, AwaitLaunch
  PROVE  IInv'
<1>1. course' \in 0 .. 4 /\ tracked' \in 0 .. ArmCycles /\ seen' = TRUE
      /\ mode' = mode /\ line' \in Samples
  BY HistoryTypes DEF IInv
<1>2. /\ UNCHANGED <<state, active, phase, found, arm, lost, recovery, settle,
                     laps, lineSeen, exitAlign, dist>>
      /\ state = "RUNNING" /\ launch' = "waiting"
      /\ command' = "stop" /\ event' = "none"
  BY DEF AwaitLaunch, trackVars, steerVars
<1>3. waited' \in 0 .. Delay
  BY RouteAssumption DEF AwaitLaunch, DelayOver, IInv, TypeOK
<1>4. course' = course
  BY <1>2, CourseIsActive DEF ControlIteration, IInv
<1>5. TypeOK'
  BY <1>1, <1>2, <1>3 DEF IInv, TypeOK
<1>6. tracked <= tracked'
  BY <1>2, RouteAssumption DEF ControlIteration, Min, IInv, TypeOK
<1>7. ArmIsTracked'
  BY <1>1, <1>2, <1>6 DEF IInv, ArmIsTracked, TypeOK
<1>8. OneTrack' /\ LapsLeft' /\ StandsWhenNotRunning'
  BY <1>1, <1>2, <1>4 DEF IInv, OneTrack, LapsLeft, StandsWhenNotRunning
<1> QED BY <1>5, <1>7, <1>8 DEF IInv

LEMMA BeginOK ==
  ASSUME IInv, ControlIteration, state = "RUNNING",
         NEW t \in Tracks, Begin(t)
  PROVE  IInv' /\ course = 0 /\ course' = mode /\ laps = 0
<1> USE DEF IInv
<1>1. course' \in 0 .. 4 /\ tracked' \in 0 .. ArmCycles /\ seen' = TRUE
      /\ mode' = mode /\ line' \in Samples /\ mode \in 1 .. 4
  BY HistoryTypes DEF TypeOK, Modes
<1>2. TrackOf[mode] = t /\ launch' = "done" /\ waited' = 0 /\ active[t] = 0
      /\ dist' = 0 /\ command' = "drive" /\ event' = "none"
      /\ UNCHANGED <<state, laps, lineSeen, exitAlign>>
  BY DEF Begin, Running, steerVars
<1>3. course = 0 /\ laps = 0 /\ \A u \in Tracks : active[u] = 0
  BY <1>2 DEF OneTrack, LapsLeft, TypeOK
<1>4. \A u \in LineTracks : phase[u] = "IDLE"
  BY <1>3 DEF TypeOK, Tracks, LineTracks
<1>5. active' = [u \in Tracks |-> IF u = t THEN 1 ELSE 0]
  <2>1. active \in [Tracks -> 0 .. 1] /\ active' = With(active, t, 1, Dropped(t), 0)
    BY DEF TypeOK, Begin
  <2> QED BY <1>3, <2>1 DEF With
<1>6. phase' = [u \in LineTracks |-> IF u = t THEN FirstPhase[t] ELSE "IDLE"]
  <2>1. phase \in [LineTracks -> Phases]
    BY DEF TypeOK
  <2>2. CASE t = "Q1"
    BY <1>4, <2>1, <2>2 DEF Begin, LineTracks
  <2>3. CASE t # "Q1"
    BY <1>4, <2>1, <2>3 DEF Begin, With, LineTracks
  <2> QED BY <2>2, <2>3
<1>7. FirstPhase \in [LineTracks -> {"AB_STRAIGHT", "START_ALIGN"}]
  BY DEF FirstPhase
<1>8. {"AB_STRAIGHT", "START_ALIGN"} \subseteq Phases \ (Arcs \cup {"IDLE"})
  BY DEF Phases, Arcs, AfterPhase
<1>9. course' = mode
  BY <1>3, <1>5 DEF ControlIteration, IsActive
<1>10. FoundOK'
  <2>1. found \in [Tracks -> Nat] /\ found["Q1"] \in 0 .. Q1Confirm
        /\ \A u \in LineTracks : found[u] \in 0 .. Confirm - 1
    BY DEF TypeOK
  <2>2. found' = [u \in Tracks |-> IF u = t THEN 0
                   ELSE IF u \in Dropped(t) \ {"Q1"} THEN 0 ELSE found[u]]
    BY <2>1 DEF Begin, With
  <2> QED BY <2>1, <2>2, RouteAssumption DEF FoundOK, LineTracks, Tracks
<1>11. CountersOK'
  <2>1. CASE t = "Q1"
    BY <2>1 DEF Begin, CountersOK, TypeOK
  <2>2. CASE t # "Q1"
    <3>1. t \in LineTracks /\ Counters(t, 0, 0, 0, FALSE)
      BY <2>2 DEF Begin, LineTracks, Tracks
    <3>2. 0 \in 0 .. ArmCycles /\ 0 \in 0 .. LostConfirm - 1
          /\ 0 \in 0 .. RecoveryStop /\ FALSE \in BOOLEAN
      BY RouteAssumption
    <3> QED BY <3>1, <3>2, CountersMove, Zenon
  <2> QED BY <2>1, <2>2
<1>12. settle' \in [LineTracks -> 0 .. SettleCycles]
  <2>1. settle \in [LineTracks -> 0 .. SettleCycles] /\ 0 \in 0 .. SettleCycles
    BY RouteAssumption DEF TypeOK
  <2>2. settle' = settle \/ settle' = [settle EXCEPT ![t] = 0]
    BY DEF Begin
  <2> QED BY <2>1, <2>2
<1>13. TypeOK'
  <2>1. /\ active' \in [Tracks -> 0 .. 1] /\ phase' \in [LineTracks -> Phases]
        /\ \A u \in LineTracks : active'[u] = 0 <=> phase'[u] = "IDLE"
    BY <1>5, <1>6, <1>7, <1>8 DEF Tracks, LineTracks, Phases
  <2>2. dist' \in 0 .. HardStop /\ waited' \in 0 .. Delay
    BY <1>2, RouteAssumption DEF HardStop
  <2>3. mode \in Modes /\ state \in States /\ laps \in 0 .. Laps
        /\ lineSeen \in 0 .. 1 /\ exitAlign \in 0 .. 1
    BY DEF TypeOK
  <2> QED BY <1>1, <1>2, <1>10, <1>11, <1>12, <2>1, <2>2, <2>3
          DEF TypeOK, FoundOK, CountersOK
<1>14. OneTrack'
  BY <1>1, <1>2, <1>5, <1>9 DEF OneTrack
<1>15. LapsLeft'
  BY <1>1, <1>2, <1>3, <1>9, RouteAssumption DEF LapsLeft
<1>16. ArmIsTracked' /\ StandsWhenNotRunning'
  <2>1. "IDLE" \notin Arcs
    BY DEF Arcs
  <2> QED BY <1>2, <1>6, <1>7, <1>8, <2>1 DEF ArmIsTracked, StandsWhenNotRunning
<1> QED BY <1>3, <1>9, <1>13, <1>14, <1>15, <1>16

LEMMA DriveQ1OK ==
  ASSUME IInv, ControlIteration, state = "RUNNING",
         NEW d \in Travel, DriveQ1(d)
  PROVE  /\ IInv' /\ course = 1
         /\ UNCHANGED <<phase, laps>>
         /\ \/ course' = 1 /\ event' = "none" /\ state' = state
               /\ command' = "drive"
            \/ course' = 0 /\ event' = "finish" /\ state' = "FINISHED"
<1> USE DEF IInv
<1> DEFINE count == Confirmed(found["Q1"], d >= Window /\ PointSeen("Q1", "AB"),
                              Q1Confirm)
           arrived == count >= Q1Confirm \/ d >= HardStop
<1>1. course' \in 0 .. 4 /\ tracked' \in 0 .. ArmCycles /\ seen' = TRUE
      /\ mode' = mode /\ line' \in Samples
  BY HistoryTypes
<1>2. TrackOf[mode] = "Q1" /\ launch' = "done" /\ waited' = 0
      /\ active["Q1"] = 1 /\ dist' = d
      /\ UNCHANGED <<phase, arm, lost, recovery, settle, laps, lineSeen, exitAlign>>
  BY DEF DriveQ1, Running, steerVars
<1>3. course = mode /\ mode = 1
  <2>1. mode \in Modes /\ course \in 0 .. 4
    BY DEF TypeOK
  <2>2. course # 0
    BY <1>2 DEF OneTrack, Tracks
  <2> QED BY <1>2, <2>1, <2>2 DEF OneTrack, TrackOf, Modes
<1>4. \A u \in LineTracks : active[u] = 0 /\ phase[u] = "IDLE"
  BY <1>2, OnlyTrack DEF Tracks, LineTracks
<1>5. count \in 0 .. Q1Confirm
  BY RouteAssumption DEF TypeOK, Confirmed, Min
<1>6. active' = [active EXCEPT !["Q1"] = IF arrived THEN 0 ELSE 1]
      /\ found' = [found EXCEPT !["Q1"] = IF arrived THEN 0 ELSE count]
      /\ command' = (IF arrived THEN "brake" ELSE "drive")
      /\ event' = (IF arrived THEN "finish" ELSE "none")
      /\ state' = (IF arrived THEN "FINISHED" ELSE state)
  BY DEF DriveQ1, Report, Finishes
<1> HIDE DEF count, arrived
<1>7. course' = IF arrived THEN 0 ELSE 1
  <2>1. active \in [Tracks -> 0 .. 1] /\ IsActive(active) /\ "Q1" \in Tracks
    BY <1>2 DEF TypeOK, IsActive, Tracks
  <2>2. IsActive(active') <=> ~arrived
    BY <1>4, <1>6, <2>1 DEF IsActive, Tracks, LineTracks
  <2> QED BY <1>3, <2>1, <2>2 DEF ControlIteration
<1>8. TypeOK'
  <2>1. active' \in [Tracks -> 0 .. 1]
        /\ \A u \in LineTracks : active'[u] = active[u]
    BY <1>6 DEF TypeOK, Tracks, LineTracks
  <2>2. /\ found' \in [Tracks -> Nat] /\ found'["Q1"] \in 0 .. Q1Confirm
        /\ \A u \in LineTracks : found'[u] \in 0 .. Confirm - 1
    BY <1>5, <1>6, RouteAssumption DEF TypeOK, Tracks, LineTracks
  <2>3. dist' \in 0 .. HardStop /\ waited' \in 0 .. Delay
    BY <1>2, TravelType, RouteAssumption
  <2>4. state' \in States
    BY <1>6 DEF TypeOK, States
  <2> QED BY <1>1, <1>2, <1>6, <2>1, <2>2, <2>3, <2>4 DEF TypeOK
<1>9. OneTrack'
  <2>1. \A u \in Tracks : active'[u] = 1 <=> (course' # 0 /\ u = TrackOf[course'])
    BY <1>3, <1>4, <1>6, <1>7 DEF TypeOK, Tracks, LineTracks, TrackOf, Modes
  <2> QED BY <1>1, <1>3, <1>6, <1>7, <2>1 DEF OneTrack
<1>10. LapsLeft' /\ ArmIsTracked' /\ StandsWhenNotRunning'
  <2>1. "IDLE" \notin Arcs
    BY DEF Arcs
  <2> QED BY <1>2, <1>3, <1>4, <1>6, <1>7, <2>1
          DEF LapsLeft, ArmIsTracked, StandsWhenNotRunning
<1> QED BY <1>2, <1>3, <1>6, <1>7, <1>8, <1>9, <1>10

(* The course an iteration of a line track belongs to, and when it ends. *)
LEMMA CourseOfStep ==
  ASSUME IInv, ControlIteration, state = "RUNNING",
         NEW t \in LineTracks, NEW d \in Travel,
         Running(t), active[t] = 1, TrackStep(t, d)
  PROVE  /\ course = mode /\ course \in 2 .. 4 /\ t = TrackOf[course]
         /\ \/ EndsCourse(t, d) /\ course' = 0
            \/ ~EndsCourse(t, d) /\ course' = course /\ state' = state
               /\ active' = active
<1> USE DEF IInv
<1>1. course = mode /\ course \in 2 .. 4 /\ t = TrackOf[course]
  <2>1. course # 0 /\ t = TrackOf[course]
    BY DEF OneTrack, Tracks, LineTracks
  <2>2. course = mode
    BY <2>1 DEF OneTrack
  <2> QED BY <2>1, <2>2 DEF TypeOK, Modes, TrackOf, LineTracks
<1>2. active \in [Tracks -> 0 .. 1] /\ t \in Tracks
  BY DEF TypeOK, Tracks, LineTracks
<1>3. IsActive(active)
  BY <1>2 DEF IsActive
<1>4. CASE EndsCourse(t, d)
  <2>1. active' = [active EXCEPT ![t] = 0]
    BY <1>4 DEF EndsCourse, Moves
  <2>2. ~IsActive(active')
    BY <1>2, <2>1, OnlyTrack DEF IsActive
  <2> QED BY <1>1, <1>4, <2>2 DEF ControlIteration
<1>5. CASE ~EndsCourse(t, d)
  <2>1. active' = [active EXCEPT ![t] = 1] /\ state' = state
    BY <1>5 DEF TrackStep, StaysOn, PassesPoint, StartsNextLap, Moves
  <2>2. active' = active
    BY <1>2, <2>1
  <2> QED BY <1>1, <1>3, <1>5, <2>1, <2>2 DEF ControlIteration
<1> QED BY <1>4, <1>5

LEMMA TrackStepOK ==
  ASSUME IInv, ControlIteration, state = "RUNNING",
         NEW t \in LineTracks, NEW d \in Travel,
         Running(t), active[t] = 1, phase[t] # "IDLE", WorkOK', TrackStep(t, d)
  PROVE  IInv'
<1> USE DEF IInv
<1>1. course' \in 0 .. 4 /\ tracked' \in 0 .. ArmCycles /\ seen' = TRUE
      /\ mode' = mode /\ line' \in Samples /\ launch' = "done" /\ waited' = 0
  BY HistoryTypes DEF Running
<1>2. /\ course = mode /\ course \in 2 .. 4 /\ t = TrackOf[course]
      /\ \/ EndsCourse(t, d) /\ course' = 0
         \/ ~EndsCourse(t, d) /\ course' = course /\ state' = state
            /\ active' = active
  BY CourseOfStep
<1>3. PICK p \in Phases, a \in 0 .. 1 :
        Moves(t, a, p) /\ (a = 0 <=> p = "IDLE")
  BY PhaseSets
  DEF TrackStep, StaysOn, PassesPoint, StartsNextLap, EndsCourse, Moves
<1>4. active \in [Tracks -> 0 .. 1] /\ phase \in [LineTracks -> Phases]
      /\ t \in Tracks /\ LineTracks \subseteq Tracks
  BY DEF TypeOK, Tracks, LineTracks
<1>5. /\ active' \in [Tracks -> 0 .. 1] /\ phase' \in [LineTracks -> Phases]
      /\ \A u \in LineTracks : active'[u] = 0 <=> phase'[u] = "IDLE"
  BY <1>3, <1>4 DEF Moves, TypeOK
<1>6. laps' \in 0 .. Laps /\ (course' = 4 => laps' < Laps)
      /\ event' \in {"none", "point", "lap", "finish", "lastLap"}
      /\ state' \in {"RUNNING", "FINISHED"}
      /\ (state' = "RUNNING" => course' = mode)
      /\ (state' = "FINISHED" => course' = 0 /\ command' = "brake")
  <2>1. laps \in 0 .. Laps /\ Laps \in Nat \ {0} /\ (course = 4 => laps < Laps)
    BY RouteAssumption DEF TypeOK, LapsLeft
  <2>2. CASE EndsCourse(t, d)
    BY <1>2, <2>1, <2>2 DEF EndsCourse
  <2>3. CASE ~EndsCourse(t, d)
    <3>1. CASE StartsNextLap(t, d)
      BY <1>2, <2>1, <2>3, <3>1 DEF StartsNextLap
    <3>2. CASE \E q \in Phases : StaysOn(t, q) \/ PassesPoint(t, q, d)
      BY <1>2, <2>1, <2>3, <3>2 DEF StaysOn, PassesPoint
    <3> QED BY <2>3, <3>1, <3>2 DEF TrackStep
  <2> QED BY <2>2, <2>3
<1>7. TypeOK'
  <2>1. waited' \in 0 .. Delay
    BY <1>1, RouteAssumption
  <2>2. state' \in States /\ mode' \in Modes
    BY <1>1, <1>6 DEF States, TypeOK
  <2>3. FoundOK' /\ CountersOK' /\ SteerOK'
    BY DEF WorkOK
  <2> QED BY <1>1, <1>5, <1>6, <2>1, <2>2, <2>3
          DEF TypeOK, FoundOK, CountersOK, SteerOK
<1>8. OneTrack'
  <2>1. \A u \in Tracks : active'[u] = 1 <=> (course' # 0 /\ u = TrackOf[course'])
    <3>1. CASE EndsCourse(t, d)
      BY <1>2, <1>4, <3>1, OnlyTrack DEF EndsCourse, Moves
    <3>2. CASE ~EndsCourse(t, d)
      BY <1>2, <3>2 DEF OneTrack
    <3> QED BY <3>1, <3>2
  <2> QED BY <1>1, <1>2, <1>6, <2>1 DEF OneTrack
<1>9. LapsLeft' /\ StandsWhenNotRunning'
  BY <1>1, <1>2, <1>6 DEF LapsLeft, StandsWhenNotRunning
<1>10. ArmIsTracked'
  <2>1. \A u \in LineTracks \ {t} : phase'[u] = "IDLE"
    BY <1>3, <1>4, OnlyTrack DEF Moves
  <2>2. "IDLE" \notin Arcs /\ "START_ALIGN" \notin Arcs
    BY DEF Arcs
  <2>3. phase'[t] \in Arcs => arm'[t] <= tracked'
    <3>1. arm[t] \in 0 .. ArmCycles /\ tracked \in 0 .. ArmCycles
          /\ arm'[t] \in 0 .. ArmCycles /\ ArmCycles \in Nat \ {0}
      BY RouteAssumption DEF TypeOK, WorkOK, CountersOK
    <3>2. ASSUME NEW q \in Phases, StaysOn(t, q), q \in Arcs
          PROVE  arm'[t] <= tracked'
      <4>1. phase'[t] = phase[t] /\ phase' = phase /\ phase[t] \in Arcs
            /\ arm'[t] <= Armed(t)
        BY <1>4, <3>2 DEF StaysOn, Moves
      <4>2. arm[t] <= tracked
        BY <4>1 DEF ArmIsTracked
      <4>3. tracked' = IF line \in OK THEN Min(tracked + 1, ArmCycles)
                       ELSE tracked
        BY <4>1 DEF ControlIteration
      <4> QED BY <3>1, <4>1, <4>2, <4>3 DEF Armed, Min
    <3>3. ASSUME NEW q \in Phases, PassesPoint(t, q, d), q \in Arcs
          PROVE  arm'[t] <= tracked'
      <4>1. phase'[t] = q /\ phase' # phase /\ arm'[t] <= FirstArm
        BY <1>4, <3>3 DEF PassesPoint, Moves
      <4>2. tracked' = IF line \in OK THEN 1 ELSE 0
        BY <4>1 DEF ControlIteration
      <4> QED BY <3>1, <4>1, <4>2 DEF FirstArm
    <3>4. CASE StartsNextLap(t, d) \/ EndsCourse(t, d)
      BY <1>4, <2>2, <3>4 DEF StartsNextLap, EndsCourse, Moves
    <3>5. \A q \in Phases : Moves(t, 1, q) => phase'[t] = q
      BY <1>4 DEF Moves
    <3> QED BY <3>2, <3>3, <3>4, <3>5 DEF TrackStep, StaysOn, PassesPoint
  <2> QED BY <2>1, <2>2, <2>3 DEF ArmIsTracked
<1> QED BY <1>7, <1>8, <1>9, <1>10

LEMMA IterationCases ==
  ASSUME IInv, ControlIteration
  PROVE  \/ NotRunning
         \/ AwaitLaunch
         \/ state = "RUNNING" /\ \E t \in Tracks : Begin(t)
         \/ state = "RUNNING" /\ \E d \in Travel : DriveQ1(d)
         \/ /\ state = "RUNNING"
            /\ \E d \in Travel, t \in LineTracks :
                 /\ Running(t) /\ active[t] = 1 /\ phase[t] # "IDLE"
                 /\ WorkOK' /\ TrackStep(t, d)
<1>1. ASSUME NEW d \in Travel, LineTrackRuns(d)
      PROVE  \E t \in LineTracks :
               /\ Running(t) /\ active[t] = 1 /\ phase[t] # "IDLE"
               /\ WorkOK' /\ TrackStep(t, d)
  BY <1>1, LineTrackStep DEF IInv
<1> QED BY <1>1 DEF ControlIteration, Iteration, RunIteration, LineTrackRuns

LEMMA NextOK == IInv /\ [AloneNext]_vars => IInv'
<1> SUFFICES ASSUME IInv, [AloneNext]_vars PROVE IInv'
  OBVIOUS
<1>1. CASE ControlIteration
  BY <1>1, IterationCases, NotRunningOK, AwaitLaunchOK, BeginOK, DriveQ1OK,
     TrackStepOK
<1>2. CASE PressStart \/ PressMode \/ PressLap
  BY <1>2, PressOK
<1>3. CASE UNCHANGED vars
  BY <1>3
  DEF vars, controlVars, trackVars, steerVars, launchVars, historyVars, IInv,
      TypeOK, OneTrack, LapsLeft, ArmIsTracked, StandsWhenNotRunning, IsActive
<1> QED BY <1>1, <1>2, <1>3 DEF AloneNext

(* The invariant holds for every tuning of the route. *)
THEOREM RouteInvariance == AloneSpec => []IInv
<1> QED BY InitOK, NextOK, PTL DEF AloneSpec

(* A car whose race is not running is not commanded to drive, from the     *)
(* first control iteration after the change (control_task.c:2146-2191).    *)
THEOREM CarStands == AloneSpec => []StandsWhenNotRunning
<1>1. IInv => StandsWhenNotRunning
  BY DEF IInv
<1> QED BY <1>1, RouteInvariance, PTL

LEMMA ArmedStep ==
  IInv /\ [AloneNext]_vars =>
    [\A t \in LineTracks :
       event' # "none" /\ phase[t] \in Arcs /\ phase'[t] # phase[t]
         => tracked >= ArmCycles \/ (t = "Q3" /\ dist + 1 >= HardStop)]_vars
<1> SUFFICES ASSUME IInv, AloneNext, NEW t \in LineTracks,
                    event' # "none", phase[t] \in Arcs, phase'[t] # phase[t]
             PROVE  tracked >= ArmCycles \/ (t = "Q3" /\ dist + 1 >= HardStop)
  OBVIOUS
<1> USE DEF IInv
<1>1. ControlIteration
  BY DEF AloneNext, PressStart, PressMode, PressLap, Press, controlVars, trackVars
<1>2. PICK d \in Travel, u \in LineTracks : active[u] = 1 /\ TrackStep(u, d)
  <2>1. ~NotRunning /\ ~AwaitLaunch /\ ~\E u \in Tracks : Begin(u)
    BY DEF NotRunning, AwaitLaunch, Begin
  <2>2. ~\E d \in Travel : DriveQ1(d)
    BY DEF DriveQ1
  <2> QED BY <1>1, <2>1, <2>2, IterationCases
<1>3. phase \in [LineTracks -> Phases]
  BY DEF TypeOK
<1>4. u = t
  BY <1>2, <1>3 DEF TrackStep, StaysOn, PassesPoint, StartsNextLap, EndsCourse,
                    Moves
<1>5. ArcEnds(t, d)
  BY <1>2, <1>3, <1>4
  DEF TrackStep, StaysOn, PassesPoint, StartsNextLap, EndsCourse, Moves
<1>6. CASE LostFor(t) >= LostConfirm
  <2>1. Armed(t) >= ArmCycles /\ line = "lost"
    BY <1>6, RouteAssumption DEF LostFor
  <2>2. arm[t] >= ArmCycles
    BY <2>1 DEF Armed, OK
  <2>3. arm[t] \in Nat /\ tracked \in Nat /\ arm[t] <= tracked
        /\ ArmCycles \in Nat
    BY RouteAssumption DEF ArmIsTracked, TypeOK
  <2> QED BY <2>2, <2>3
<1>7. CASE t = "Q3" /\ d >= HardStop
  BY <1>7, TravelType DEF HardStop, TypeOK
<1> QED BY <1>5, <1>6, <1>7 DEF ArcEnds

(* The end of an arc is reported only when the line has been followed for  *)
(* ArmCycles good samples of this arc, or at the hard stop of Q3, whatever *)
(* pauses, laps and arcs came before (control_task.c, q2_ and              *)
(* q3_arc_tracking_count).                                                 *)
THEOREM ArcsEndArmed == AloneSpec => EndpointArmed
<1> QED BY RouteInvariance, ArmedStep, PTL DEF AloneSpec, EndpointArmed

LEMMA ReleaseStep ==
  [AloneNext]_vars =>
    [ControlIteration /\ state = "RUNNING" /\ launch = "done"
       /\ command = "brake" /\ {line, line'} \subseteq OK /\ event' = "none"
       => command' = "drive"]_vars
<1> SUFFICES ASSUME ControlIteration, state = "RUNNING", launch = "done",
                    {line, line'} \subseteq OK, event' = "none"
             PROVE  command' = "drive"
  OBVIOUS
<1>1. (\E t \in Tracks : Begin(t))
      \/ \E d \in Travel : DriveQ1(d) \/ LineTrackRuns(d)
  BY DEF ControlIteration, Iteration, NotRunning, AwaitLaunch, DelayOver,
         RunIteration, LineTrackRuns
<1>2. CASE \E t \in Tracks : Begin(t)
  BY <1>2 DEF Begin
<1>3. ASSUME NEW d \in Travel, DriveQ1(d) PROVE command' = "drive"
  BY <1>3 DEF DriveQ1, Report
<1>4. ASSUME NEW d \in Travel, LineTrackRuns(d) PROVE command' = "drive"
  <2>1. ~CompleteLap(d)
    BY DEF CompleteLap, Report
  <2>2. StraightQ2(d) \/ StraightQ3(d) => command' = "drive"
    BY DEF StraightQ2, StraightQ3
  <2>3. ASSUME NEW t \in LineTracks, RunTrack(t, d) PROVE command' = "drive"
    <3>1. ~EnterArc(t) /\ ~LeaveFirstArc(t, d) /\ ~FinishAtA(t, d)
      BY DEF EnterArc, LeaveFirstArc, FinishAtA, Report
    <3>2. Settle(t, d) \/ Align(t, d) \/ Search(t, d) => command' = "drive"
      BY DEF Settle, Align, Search
    <3>3. Arc(t, d) => command' = "drive"
      BY DEF Arc, FollowArc, FollowLine
    <3> QED BY <2>3, <3>1, <3>2, <3>3 DEF RunTrack
  <2> QED BY <1>4, <2>1, <2>2, <2>3 DEF LineTrackRuns
<1> QED BY <1>1, <1>2, <1>3, <1>4

(* A good sample releases the brake of a failed recovery in the iteration  *)
(* that sees it (control_task.c, q2_ and q3_arc_recovery_lost_count).      *)
THEOREM BrakeIsReleased == AloneSpec => LineReleasesBrake
<1> QED BY ReleaseStep, PTL DEF AloneSpec, LineReleasesBrake

-----------------------------------------------------------------------------
(***************************************************************************)
(* The refinement of Course                                                *)
(***************************************************************************)
LEMMA CourseInit == AloneInit => Promise!Init
  BY DEF AloneInit, Init, RouteInit, Promise!Init, Passed, Reported

(* What the abstract course sees of an unchanged route. *)
LEMMA SamePassed ==
  ASSUME UNCHANGED <<phase, laps, course>>
  PROVE  UNCHANGED Passed
  BY DEF Passed

LEMMA NoneReported ==
  ASSUME event' = "none"
  PROVE  Reported' = "none"
  BY DEF Reported

LEMMA PressImplements ==
  ASSUME IInv, PressStart \/ PressMode \/ PressLap
  PROVE  Promise!Next
<1>1. UNCHANGED <<phase, laps, event, course>>
      /\ state' \in {"READY", "RUNNING", "STOPPED"}
      /\ (state = "FINISHED" => state' = "READY")
  BY DEF PressStart, PressMode, PressLap, Press, controlVars, trackVars,
         historyVars
<1>2. UNCHANGED <<course, Passed, Reported>>
  BY <1>1, SamePassed DEF Reported
<1>3. Promise!Operate
  BY <1>1, <1>2 DEF Promise!Operate
<1> QED BY <1>3 DEF Promise!Next

LEMMA NotDrivingImplements ==
  ASSUME IInv, ControlIteration, NotRunning \/ AwaitLaunch
  PROVE  Promise!Next
<1>1. event' = "none" /\ state' = state
  BY DEF NotRunning, AwaitLaunch
<1>2. CASE NotRunning /\ ForgetsRoute(state)
  <2>1. active' = [t \in Tracks |-> 0] /\ state \in {"READY", "FINISHED"}
    BY <1>2 DEF NotRunning, ForgetsRoute, ResetTracks, IInv, TypeOK, States
  <2>2. course' = 0
    BY <2>1 DEF ControlIteration, IsActive
  <2>3. Promise!Forget
    BY <1>1, <2>1, <2>2, NoneReported DEF Promise!Forget, Passed
  <2> QED BY <2>3 DEF Promise!Next
<1>3. CASE AwaitLaunch \/ ~ForgetsRoute(state)
  <2>1. UNCHANGED <<active, phase, laps>>
    BY <1>3 DEF NotRunning, AwaitLaunch, trackVars
  <2>2. course' = course
    BY <2>1, CourseIsActive DEF ControlIteration, IInv
  <2>3. Promise!Drive
    BY <1>1, <2>1, <2>2, SamePassed, NoneReported DEF Promise!Drive
  <2> QED BY <2>3 DEF Promise!Next
<1> QED BY <1>2, <1>3

LEMMA BeginImplements ==
  ASSUME IInv, ControlIteration, state = "RUNNING",
         NEW t \in Tracks, Begin(t)
  PROVE  Promise!Next
<1>1. course = 0 /\ course' = mode /\ laps = 0 /\ mode \in 1 .. 4
  BY BeginOK DEF IInv, TypeOK, Modes
<1>2. laps' = laps /\ state' = state /\ event' = "none" /\ TrackOf[mode] = t
  BY DEF Begin, Running
<1>3. mode # 1 =>
        t \in LineTracks /\ phase'[t] = FirstPhase[t] /\ t # "Q1"
  <2>1. mode # 1 => t \in LineTracks /\ t # "Q1"
    BY <1>1, <1>2 DEF TrackOf, Modes, LineTracks
  <2>2. phase \in [LineTracks -> Phases]
    BY DEF IInv, TypeOK
  <2> QED BY <2>1, <2>2 DEF Begin, With
<1>4. Passed' = 0
  <2>1. TrackOf[course'] = t /\ laps' = 0 /\ course' = mode
    BY <1>1, <1>2
  <2>2. CASE mode = 1
    BY <2>1, <2>2 DEF Passed
  <2>3. CASE mode # 1
    <3>1. FirstPhase[t] \in {"AB_STRAIGHT", "START_ALIGN"}
      BY <1>3, <2>3 DEF FirstPhase
    <3>2. PassedIn[phase'[t]] = 0
      BY <1>3, <2>3, <3>1, PhaseOrder
    <3> QED BY <2>1, <3>2 DEF Passed
  <2> QED BY <2>2, <2>3
<1>5. Promise!Begin
  BY <1>1, <1>2, <1>4, NoneReported DEF Promise!Begin, PointsOf
<1> QED BY <1>5 DEF Promise!Next

LEMMA DriveQ1Implements ==
  ASSUME IInv, ControlIteration, state = "RUNNING",
         NEW d \in Travel, DriveQ1(d)
  PROVE  Promise!Next
<1>1. /\ course = 1 /\ UNCHANGED <<phase, laps>>
      /\ \/ course' = 1 /\ event' = "none" /\ state' = state
         \/ course' = 0 /\ event' = "finish" /\ state' = "FINISHED"
  BY DriveQ1OK
<1>2. Passed = 0 /\ Passed' = 0
  BY <1>1 DEF Passed
<1>3. CASE course' = 1 /\ event' = "none" /\ state' = state
  BY <1>1, <1>2, <1>3, NoneReported DEF Promise!Next, Promise!Drive
<1>4. CASE course' = 0 /\ event' = "finish" /\ state' = "FINISHED"
  <2>1. Reported' = "finish"
    BY <1>4 DEF Reported
  <2>2. Promise!Finish
    BY <1>1, <1>2, <1>4, <2>1 DEF Promise!Finish, PointsOf
  <2> QED BY <2>2 DEF Promise!Next
<1> QED BY <1>1, <1>3, <1>4

LEMMA TrackImplements ==
  ASSUME IInv, ControlIteration, state = "RUNNING",
         NEW t \in LineTracks, NEW d \in Travel,
         Running(t), active[t] = 1, TrackStep(t, d)
  PROVE  Promise!Next
<1>1. /\ course = mode /\ course \in 2 .. 4 /\ t = TrackOf[course]
      /\ \/ EndsCourse(t, d) /\ course' = 0
         \/ ~EndsCourse(t, d) /\ course' = course /\ state' = state
  BY CourseOfStep
<1>2. phase \in [LineTracks -> Phases] /\ phase[t] \in Phases
      /\ laps \in Nat /\ Laps \in Nat /\ (course = 4 => laps < Laps)
  BY RouteAssumption DEF IInv, TypeOK, LapsLeft
<1> DEFINE Before == IF course = 4 THEN 4 * laps ELSE 0
<1>3. Passed = PassedIn[phase[t]] + Before /\ Before \in Nat
  BY <1>1, <1>2 DEF Passed
<1>4. PassedIn[phase[t]] \in 0 .. 3
  BY <1>2, PhaseOrder
<1>5. PointsOf[course] = IF course = 4 THEN 4 * Laps ELSE 4
  BY <1>1 DEF PointsOf
<1>6. course = 4 => Before + 4 <= 4 * Laps
  BY <1>2
<1>7. ASSUME NEW p \in Phases, StaysOn(t, p) PROVE Promise!Next
  <2>1. phase'[t] = p /\ PassedIn[p] = PassedIn[phase[t]] /\ laps' = laps
        /\ event' = "none" /\ state' = state /\ course' = course
    BY <1>1, <1>2, <1>7 DEF StaysOn, Moves, EndsCourse
  <2>2. Passed' = PassedIn[phase'[t]] + (IF course' = 4 THEN 4 * laps' ELSE 0)
    BY <1>1, <2>1 DEF Passed
  <2>3. Passed' = Passed
    BY <1>3, <2>1, <2>2
  <2>4. Promise!Drive
    BY <2>1, <2>3, NoneReported DEF Promise!Drive
  <2> QED BY <2>4 DEF Promise!Next
<1>8. ASSUME NEW p \in Phases, PassesPoint(t, p, d) PROVE Promise!Next
  <2>1. phase'[t] = p /\ PassedIn[p] = PassedIn[phase[t]] + 1 /\ laps' = laps
        /\ PassedIn[phase[t]] < 3
        /\ event' = "point" /\ state' = state /\ course' = course
    BY <1>1, <1>2, <1>8 DEF PassesPoint, Moves, EndsCourse
  <2>2. Passed' = PassedIn[phase'[t]] + (IF course' = 4 THEN 4 * laps' ELSE 0)
    BY <1>1, <2>1 DEF Passed
  <2>3. Passed' = Passed + 1
    BY <1>3, <1>4, <2>1, <2>2
  <2>4. Passed + 1 < PointsOf[course]
    <3>1. CASE course = 4
      BY <1>2, <1>3, <1>4, <1>5, <1>6, <2>1, <3>1
    <3>2. CASE course # 4
      BY <1>3, <1>4, <1>5, <2>1, <3>2
    <3> QED BY <3>1, <3>2
  <2>5. Reported' = "point"
    BY <2>1 DEF Reported
  <2>6. Promise!PassPoint
    BY <1>1, <2>1, <2>3, <2>4, <2>5 DEF Promise!PassPoint
  <2> QED BY <2>6 DEF Promise!Next
<1>9. CASE StartsNextLap(t, d)
  <2>1. phase'[t] = "START_ALIGN" /\ phase[t] = "DA_ARC" /\ laps' = laps + 1
        /\ laps + 1 < Laps /\ course = 4 /\ course' = 4 /\ state' = state
        /\ event' = "lap"
    BY <1>1, <1>2, <1>9 DEF StartsNextLap, Moves, EndsCourse
  <2>2. Passed' = PassedIn["START_ALIGN"] + 4 * laps'
    BY <1>1, <2>1 DEF Passed
  <2>3. Passed' = Passed + 1
    BY <1>2, <1>3, <2>1, <2>2, PhaseOrder
  <2>4. Passed + 1 < PointsOf[course]
    BY <1>2, <1>3, <1>5, <2>1, PhaseOrder
  <2>5. Reported' = "point"
    BY <2>1 DEF Reported
  <2>6. Promise!PassPoint
    BY <2>1, <2>3, <2>4, <2>5 DEF Promise!PassPoint
  <2> QED BY <2>6 DEF Promise!Next
<1>10. CASE EndsCourse(t, d)
  <2>1. phase[t] = "DA_ARC" /\ state' = "FINISHED" /\ course' = 0
        /\ event' \in {"finish", "lastLap"}
        /\ (course = 4 => laps + 1 >= Laps)
    BY <1>1, <1>10 DEF EndsCourse
  <2>2. Passed + 1 = PointsOf[course]
    BY <1>2, <1>3, <1>5, <2>1, PhaseOrder
  <2>3. Reported' = "finish" /\ Passed' = 0
    BY <2>1 DEF Reported, Passed
  <2>4. Promise!Finish
    BY <1>1, <2>1, <2>2, <2>3 DEF Promise!Finish
  <2> QED BY <2>4 DEF Promise!Next
<1> QED BY <1>7, <1>8, <1>9, <1>10 DEF TrackStep

LEMMA CourseStep == IInv /\ [AloneNext]_vars => [Promise!Next]_(Promise!vars)
<1> SUFFICES ASSUME IInv, [AloneNext]_vars
             PROVE  [Promise!Next]_(Promise!vars)
  OBVIOUS
<1>1. CASE ControlIteration
  BY <1>1, IterationCases, NotDrivingImplements, BeginImplements,
     DriveQ1Implements, TrackImplements
<1>2. CASE PressStart \/ PressMode \/ PressLap
  BY <1>2, PressImplements
<1>3. CASE UNCHANGED vars
  BY <1>3 DEF vars, controlVars, trackVars, historyVars, Promise!vars, Passed,
              Reported
<1> QED BY <1>1, <1>2, <1>3 DEF AloneNext

(* The route drives every course point by point: each point but the last   *)
(* is announced once, the last one ends the race once, a pause loses       *)
(* nothing, and READY or FINISHED forgets the course.                      *)
THEOREM CourseImplemented == AloneSpec => CourseIsKept
<1> QED BY CourseInit, CourseStep, RouteInvariance, PTL
        DEF AloneSpec, CourseIsKept, Promise!Spec
=============================================================================
