----------------------------- MODULE RaceProofs -----------------------------
(***************************************************************************)
(* The race configuration and its panel, for every number of modes, laps,  *)
(* queued presses and pages; and keys, race task and control together, for *)
(* every tuning of the route: control uses the race configuration as       *)
(* RaceConfig assumes, so that what is proved of the configuration holds   *)
(* of the car, and a finish is final.                                      *)
(***************************************************************************)
EXTENDS Car, RaceDisplay, TLAPS

(* The fixed number of laps is missing only between the writes of mode and *)
(* laps, and the free choice of laps is left to the other modes.           *)
LapsInv ==
  /\ mode = MaxMode /\ pc # "laps" => targetLaps = MaxLaps
  /\ pc \in {"inc", "wrap"} => mode # MaxMode

(* Only the START handler writes another state than READY, and while it is *)
(* on its way from READY to RUNNING nobody else writes state or lap.       *)
GoalInv ==
  /\ pc \in {"pop", "mode", "laps", "inc", "wrap", "read"} => goal = "READY"
  /\ pc = "lap" /\ goal = "RUNNING" => state = "READY"
  /\ pc = "state" /\ goal = "RUNNING" /\ state = "READY" => currentLap = 0

ConfigInv == TypeOK /\ LapsInv /\ GoalInv

LEMMA InitConfig == Init => ConfigInv
<1> SUFFICES ASSUME Init PROVE ConfigInv
  OBVIOUS
<1>1. TypeOK
  BY RaceConfigAssumption, SMTT(30) DEF Init, TypeOK, Keys, States, Steps
<1>2. LapsInv
  BY RaceConfigAssumption DEF Init, LapsInv
<1>3. GoalInv
  BY DEF Init, GoalInv
<1> QED
  BY <1>1, <1>2, <1>3 DEF ConfigInv

-----------------------------------------------------------------------------
(* Every write of the race task, every press and every report keeps the    *)
(* invariant.                                                              *)
LEMMA TypeStep == ConfigInv /\ Next => TypeOK'
<1> SUFFICES ASSUME ConfigInv, Next PROVE TypeOK'
  OBVIOUS
<1> USE RaceConfigAssumption DEF ConfigInv, TypeOK, Keys, States, Steps
<1>1. ASSUME NEW k \in Keys, KeyTimer(k) PROVE TypeOK'
  BY <1>1, SMTT(30) DEF KeyTimer, config
<1>2. CASE PopKey
  BY <1>2, SMTT(30) DEF PopKey, config, NextKey, FirstWrite, LapsInv
<1>3. CASE WriteMode
  BY <1>3, SMTT(30) DEF WriteMode
<1>4. CASE WriteLaps
  BY <1>4, SMTT(30) DEF WriteLaps
<1>5. CASE IncrementLaps
  BY <1>5, SMTT(30) DEF IncrementLaps
<1>6. CASE WrapLaps
  BY <1>6, SMTT(30) DEF WrapLaps
<1>7. CASE ReadState
  BY <1>7, SMTT(30) DEF ReadState, config, Toggled
<1>8. CASE ZeroLap
  BY <1>8, SMTT(30) DEF ZeroLap
<1>9. CASE WriteState
  BY <1>9, SMTT(30) DEF WriteState
<1>10. CASE SetDirty
  BY <1>10, SMTT(30) DEF SetDirty, config, NextKey
<1>11. CASE ControlReport
  <2>1. CASE SetFinished
    BY <2>1, SMTT(30) DEF SetFinished, raceVars
  <2>2. ASSUME NEW lap \in 1 .. MaxLaps, SetLapProgress(lap) PROVE TypeOK'
    BY <2>2, SMTT(30) DEF SetLapProgress, raceVars
  <2>3. CASE SetLastLap
    BY <2>3, SMTT(30) DEF SetLastLap, raceVars
  <2> QED
    BY <1>11, <2>1, <2>2, <2>3 DEF ControlReport
<1> QED
  BY <1>1, <1>2, <1>3, <1>4, <1>5, <1>6, <1>7, <1>8, <1>9, <1>10, <1>11
     DEF Next, RaceStep

LEMMA LapsStep == ConfigInv /\ Next => LapsInv'
<1> SUFFICES ASSUME ConfigInv, Next PROVE LapsInv'
  OBVIOUS
<1> USE RaceConfigAssumption DEF ConfigInv, LapsInv
<1>1. ASSUME NEW k \in Keys, KeyTimer(k) PROVE LapsInv'
  BY <1>1 DEF KeyTimer, config
<1>2. CASE PopKey
  BY <1>2 DEF PopKey, config, FirstWrite, TypeOK, Keys
<1>3. CASE WriteMode
  BY <1>3 DEF WriteMode
<1>4. CASE WriteLaps
  BY <1>4 DEF WriteLaps
<1>5. CASE IncrementLaps
  BY <1>5 DEF IncrementLaps
<1>6. CASE WrapLaps
  BY <1>6 DEF WrapLaps
<1>7. CASE ReadState
  BY <1>7 DEF ReadState, config
<1>8. CASE ZeroLap
  BY <1>8 DEF ZeroLap
<1>9. CASE WriteState
  BY <1>9 DEF WriteState
<1>10. CASE SetDirty
  BY <1>10 DEF SetDirty, config
<1>11. CASE ControlReport
  BY <1>11 DEF ControlReport, SetFinished, SetLapProgress, SetLastLap, raceVars
<1> QED
  BY <1>1, <1>2, <1>3, <1>4, <1>5, <1>6, <1>7, <1>8, <1>9, <1>10, <1>11
     DEF Next, RaceStep

LEMMA GoalStep == ConfigInv /\ Next => GoalInv'
<1> SUFFICES ASSUME ConfigInv, Next PROVE GoalInv'
  OBVIOUS
<1> USE DEF ConfigInv, GoalInv
<1>1. ASSUME NEW k \in Keys, KeyTimer(k) PROVE GoalInv'
  BY <1>1 DEF KeyTimer, config
<1>2. CASE PopKey
  BY <1>2 DEF PopKey, config, FirstWrite, TypeOK, Keys
<1>3. CASE WriteMode
  BY <1>3 DEF WriteMode
<1>4. CASE WriteLaps
  BY <1>4 DEF WriteLaps
<1>5. CASE IncrementLaps
  BY <1>5 DEF IncrementLaps
<1>6. CASE WrapLaps
  BY <1>6 DEF WrapLaps
<1>7. CASE ReadState
  BY <1>7 DEF ReadState, config, Toggled, TypeOK, States
<1>8. CASE ZeroLap
  BY <1>8 DEF ZeroLap
<1>9. CASE WriteState
  BY <1>9 DEF WriteState
<1>10. CASE SetDirty
  BY <1>10 DEF SetDirty, config
<1>11. CASE ControlReport
  BY <1>11 DEF ControlReport, SetFinished, SetLapProgress, SetLastLap, raceVars
<1> QED
  BY <1>1, <1>2, <1>3, <1>4, <1>5, <1>6, <1>7, <1>8, <1>9, <1>10, <1>11
     DEF Next, RaceStep

LEMMA ConfigStep == ConfigInv /\ [Next]_configVars => ConfigInv'
<1> SUFFICES ASSUME ConfigInv, [Next]_configVars PROVE ConfigInv'
  OBVIOUS
<1>1. CASE Next
  BY <1>1, TypeStep, LapsStep, GoalStep DEF ConfigInv
<1>2. CASE UNCHANGED configVars
  BY <1>2 DEF configVars, config, raceVars, ConfigInv, TypeOK, LapsInv, GoalInv
<1> QED
  BY <1>1, <1>2

(* The inductive invariant of the race configuration.                      *)
THEOREM ConfigInvariance == Spec => []ConfigInv
  BY InitConfig, ConfigStep, PTL DEF Spec

(* Between two key handlers the lap race has its fixed number of laps, in  *)
(* whatever order keys and lap reports come.                               *)
THEOREM LapRaceHasItsLaps == Spec => []LapsMatchMode
<1>1. ConfigInv => LapsMatchMode
  BY DEF ConfigInv, LapsInv, LapsMatchMode
<1> QED
  BY <1>1, ConfigInvariance, PTL

(* toggle_start_stop never lets a run begin with a lap of the one before.  *)
THEOREM RunsStartAtLapZero == Spec => RunStartsAtLapZero
<1>1. ConfigInv /\ [Next]_configVars
        => [state = "READY" /\ state' = "RUNNING" => currentLap' = 0]_configVars
  <2> SUFFICES ASSUME ConfigInv, Next, state = "READY", state' = "RUNNING"
               PROVE  currentLap' = 0
    OBVIOUS
  <2>1. WriteState
    BY DEF Next, RaceStep, ControlReport, KeyTimer, PopKey, WriteMode, WriteLaps,
           IncrementLaps, WrapLaps, ReadState, ZeroLap, SetDirty, SetFinished,
           SetLapProgress, SetLastLap, config
  <2> QED
    BY <2>1 DEF WriteState, ConfigInv, GoalInv
<1> QED
  BY <1>1, ConfigInvariance, PTL DEF Spec, RunStartsAtLapZero
-----------------------------------------------------------------------------
(* A running transfer has sent the pages before page; without one the      *)
(* panel shows all of the frame or has just been cleared.                  *)
TransferInv ==
  /\ transfer => initialized /\ page < Pages /\ 0 .. page - 1 \subseteq panel
  /\ ~transfer => panel = {} \/ panel = PageNumbers

DisplayInv == ConfigInv /\ DisplayTypeOK /\ NoChangeLost /\ TransferInv

LEMMA InitDisplay == DisplayInit => DisplayInv
<1> SUFFICES ASSUME DisplayInit PROVE DisplayInv
  OBVIOUS
<1>1. ConfigInv
  BY InitConfig DEF DisplayInit
<1>2. DisplayTypeOK
  <2>1. 0 \in 0 .. Pages
    BY RaceDisplayAssumption
  <2> QED
    BY <1>1, <2>1 DEF DisplayInit, DisplayTypeOK, ConfigInv
<1>3. NoChangeLost /\ TransferInv
  BY DEF DisplayInit, NoChangeLost, TransferInv
<1> QED
  BY <1>1, <1>2, <1>3 DEF DisplayInv

(* The configuration changes only in a handler that ends with the flag or  *)
(* together with it.                                                       *)
LEMMA ChangeIsMarked ==
  ASSUME NoChangeLost, Next, UNCHANGED displayVars
  PROVE  NoChangeLost'
<1> USE DEF NoChangeLost, displayVars
<1>1. ASSUME NEW k \in Keys, KeyTimer(k) PROVE NoChangeLost'
  BY <1>1 DEF KeyTimer, config
<1>2. CASE PopKey
  BY <1>2 DEF PopKey, config
<1>3. CASE WriteMode \/ WriteLaps \/ IncrementLaps \/ WrapLaps
  BY <1>3 DEF WriteMode, WriteLaps, IncrementLaps, WrapLaps
<1>4. CASE ReadState \/ ZeroLap \/ WriteState
  BY <1>4 DEF ReadState, ZeroLap, WriteState
<1>5. CASE SetDirty
  BY <1>5 DEF SetDirty
<1>6. CASE ControlReport
  BY <1>6 DEF ControlReport, SetFinished, SetLapProgress, SetLastLap
<1> QED
  BY <1>1, <1>2, <1>3, <1>4, <1>5, <1>6 DEF Next, RaceStep

LEMMA DisplayStepKeeps == DisplayInv /\ [DisplayNext]_vars => DisplayInv'
<1> SUFFICES ASSUME DisplayInv, [DisplayNext]_vars PROVE DisplayInv'
  OBVIOUS
<1> USE RaceDisplayAssumption DEF DisplayInv
<1>1. CASE Next /\ UNCHANGED displayVars
  <2>1. ConfigInv'
    BY <1>1, ConfigStep
  <2>2. NoChangeLost'
    BY <1>1, ChangeIsMarked
  <2>3. TransferInv'
    BY <1>1 DEF displayVars, TransferInv
  <2>4. DisplayTypeOK'
    BY <1>1, <2>1 DEF displayVars, DisplayTypeOK, ConfigInv
  <2> QED
    BY <2>1, <2>2, <2>3, <2>4
<1>2. CASE InitializePanel
  <2>1. ConfigInv'
    BY <1>2 DEF InitializePanel, config, raceVars, ConfigInv, TypeOK, LapsInv,
                GoalInv
  <2>2. NoChangeLost'
    BY <1>2 DEF InitializePanel, NoChangeLost
  <2>3. TransferInv'
    BY <1>2 DEF InitializePanel, TransferInv
  <2>4. DisplayTypeOK'
    BY <1>2, <2>1 DEF InitializePanel, DisplayTypeOK, ConfigInv
  <2> QED
    BY <2>1, <2>2, <2>3, <2>4
<1>3. CASE Capture
  <2>1. ConfigInv'
    BY <1>3 DEF Capture, config, raceVars, ConfigInv, TypeOK, LapsInv, GoalInv
  <2>2. NoChangeLost'
    BY <1>3 DEF Capture, config, NoChangeLost
  <2>3. TransferInv'
    BY <1>3 DEF Capture, TransferInv
  <2>4. page' \in 0 .. Pages
    BY <1>3 DEF Capture
  <2>5. panel' \subseteq PageNumbers
    BY <1>3 DEF Capture, DisplayTypeOK
  <2>6. DisplayTypeOK'
    BY <1>3, <2>1, <2>4, <2>5 DEF Capture, DisplayTypeOK, ConfigInv
  <2> QED
    BY <2>1, <2>2, <2>3, <2>6
<1>4. CASE SendPage
  <2>1. ConfigInv'
    BY <1>4 DEF SendPage, configVars, config, raceVars, ConfigInv, TypeOK,
                LapsInv, GoalInv
  <2>2. NoChangeLost'
    <3>1. config' = config /\ pc' = pc /\ dirty' = dirty
      BY <1>4 DEF SendPage, configVars, raceVars, config
    <3>2. frame' = frame /\ initialized' = initialized
      BY <1>4 DEF SendPage
    <3> QED
      BY <3>1, <3>2 DEF NoChangeLost
  <2>3. page \in Nat /\ page < Pages /\ panel \subseteq PageNumbers
    BY <1>4 DEF SendPage, DisplayTypeOK, TransferInv
  <2>4. 0 .. page \subseteq panel'
    BY <1>4, <2>3 DEF SendPage, TransferInv
  <2>5. panel' \subseteq PageNumbers
    BY <1>4, <2>3 DEF SendPage, PageNumbers
  <2>6. page + 1 = Pages => panel' = PageNumbers
    <3> SUFFICES ASSUME page + 1 = Pages PROVE panel' = PageNumbers
      OBVIOUS
    <3>1. page = Pages - 1
      BY <2>3
    <3>2. PageNumbers \subseteq panel'
      BY <2>4, <3>1 DEF PageNumbers
    <3> QED
      BY <2>5, <3>2
  <2>7. TransferInv'
    <3>1. page' = page + 1 /\ page' - 1 = page
      BY <1>4, <2>3 DEF SendPage
    <3>2. 0 .. page' - 1 \subseteq panel'
      BY <2>4, <3>1
    <3>3. transfer' => initialized' /\ page' < Pages
      BY <1>4 DEF SendPage, TransferInv
    <3>4. ~transfer' => panel' = PageNumbers
      <4> SUFFICES ASSUME ~transfer' PROVE panel' = PageNumbers
        OBVIOUS
      <4>1. ~(page + 1 < Pages)
        BY <1>4, Zenon DEF SendPage
      <4>2. page + 1 = Pages
        BY <4>1, <2>3
      <4> QED
        BY <4>2, <2>6
    <3> QED
      BY <3>2, <3>3, <3>4 DEF TransferInv
  <2>8. DisplayTypeOK'
    BY <1>4, <2>1, <2>3, <2>5 DEF SendPage, DisplayTypeOK, ConfigInv
  <2> QED
    BY <2>1, <2>2, <2>7, <2>8
<1>5. CASE RefreshElapses \/ UNCHANGED vars
  <2>1. ConfigInv'
    BY <1>5 DEF RefreshElapses, vars, configVars, config, raceVars, ConfigInv,
                TypeOK, LapsInv, GoalInv
  <2>2. NoChangeLost'
    BY <1>5 DEF RefreshElapses, vars, displayVars, configVars, config,
                raceVars, NoChangeLost
  <2>3. TransferInv'
    BY <1>5 DEF RefreshElapses, vars, displayVars, TransferInv
  <2>4. DisplayTypeOK'
    BY <1>5, <2>1 DEF RefreshElapses, vars, displayVars, DisplayTypeOK,
                      ConfigInv
  <2> QED
    BY <2>1, <2>2, <2>3, <2>4
<1> QED
  BY <1>1, <1>2, <1>3, <1>4, <1>5 DEF DisplayNext, DisplayStep

(* The inductive invariant of configuration and panel together.            *)
THEOREM DisplayInvariance == DisplaySpec => []DisplayInv
  BY InitDisplay, DisplayStepKeeps, PTL DEF DisplaySpec

(* No change of the configuration is lost to the OLED task.                *)
THEOREM ChangesReachTheFrame == DisplaySpec => []NoChangeLost
<1>1. DisplayInv => NoChangeLost
  BY DEF DisplayInv
<1> QED
  BY <1>1, DisplayInvariance, PTL

(* A finished transfer leaves pages of one frame only, for every number of *)
(* pages.                                                                  *)
THEOREM PanelIsWhole == DisplaySpec => []PanelNotTorn
<1>1. DisplayInv => PanelNotTorn
  BY DEF DisplayInv, TransferInv, PanelNotTorn
<1> QED
  BY <1>1, DisplayInvariance, PTL

-----------------------------------------------------------------------------
(***************************************************************************)
(* The car                                                                 *)
(***************************************************************************)
(* The lap count of the route is one the configuration may be given. *)
LapsInRange == laps \in 0 .. MaxLaps

(* A lap is shown outside the lap race only until the MODE handler, which  *)
(* has written the mode already, clears it.                                *)
LapOnlyInLapRace == mode # MaxMode /\ pc \notin {"laps", "lap"} => currentLap = 0

(* Between two handlers, and at the end of one, a finished lap race shows  *)
(* all its laps.                                                           *)
LastLapShown ==
  state = "FINISHED" /\ pc \in {"pop", "dirty"} /\ mode = MaxMode
    => currentLap = MaxLaps

(* A handler never writes FINISHED. *)
GoalIsNotFinished == goal # "FINISHED"

CarInv ==
  /\ ConfigInv
  /\ LapsInRange
  /\ LapOnlyInLapRace
  /\ LastLapShown
  /\ GoalIsNotFinished
  /\ FinishedStands

-----------------------------------------------------------------------------
LEMMA CarInitOK == CarInit => CarInv
<1> SUFFICES ASSUME CarInit PROVE CarInv
  OBVIOUS
<1>1. ConfigInv
  BY InitConfig DEF CarInit
<1>2. LapsInRange /\ LapOnlyInLapRace /\ LastLapShown /\ GoalIsNotFinished
      /\ FinishedStands
  BY RaceConfigAssumption
  DEF CarInit, Init, Control!Init, Control!RouteInit, LapsInRange,
      LapOnlyInLapRace, LastLapShown, GoalIsNotFinished, FinishedStands
<1> QED BY <1>1, <1>2 DEF CarInv

(* What an iteration of the route says to the configuration: nothing, or   *)
(* one of the three reports, the finish never in the lap race.             *)
LEMMA RouteReports ==
  ASSUME laps \in 0 .. MaxLaps, Control!Iteration
  PROVE  /\ laps' \in 0 .. MaxLaps
         /\ mode' = mode
         /\ \/ event' \in {"none", "point"} /\ state' = state
               /\ (state # "RUNNING" => command' = "stop")
            \/ event' = "lap" /\ state' = state /\ mode = 4
               /\ laps' \in 1 .. MaxLaps /\ state = "RUNNING"
            \/ event' = "finish" /\ state' = "FINISHED" /\ mode # 4
               /\ command' = "brake" /\ state = "RUNNING"
            \/ event' = "lastLap" /\ state' = "FINISHED" /\ mode = 4
               /\ command' = "brake" /\ state = "RUNNING"
<1>1. mode' = mode
  BY DEF Control!Iteration
<1>2. CASE Control!NotRunning
  <2>1. laps' \in {0, laps}
    BY <1>2 DEF Control!NotRunning, Control!ResetTracks
  <2>2. event' = "none" /\ state' = state /\ command' = "stop"
    BY <1>2 DEF Control!NotRunning
  <2> QED BY <1>1, <2>1, <2>2, RaceConfigAssumption
<1>3. CASE Control!AwaitLaunch
  BY <1>1, <1>3 DEF Control!AwaitLaunch
<1>4. ASSUME NEW t \in Control!Tracks, Control!Begin(t), state = "RUNNING"
      PROVE  laps' = laps /\ event' = "none" /\ state' = state
  BY <1>4 DEF Control!Begin
<1>5. ASSUME NEW d \in Control!Travel, Control!DriveQ1(d), state = "RUNNING"
      PROVE  /\ laps' = laps
             /\ \/ event' = "none" /\ state' = state
                \/ event' = "finish" /\ state' = "FINISHED" /\ mode # 4
                   /\ command' = "brake"
  <2>1. mode # 4
    BY <1>5 DEF Control!DriveQ1, Control!Running, Control!TrackOf, Control!Modes
  <2> QED BY <1>5, <2>1 DEF Control!DriveQ1, Control!Report, Control!Finishes
<1>6. ASSUME NEW d \in Control!Travel, NEW t \in Control!LineTracks,
             Control!RunTrack(t, d), state = "RUNNING"
      PROVE  /\ laps' = laps
             /\ \/ event' \in {"none", "point"} /\ state' = state
                \/ event' = "finish" /\ state' = "FINISHED" /\ mode # 4
                   /\ command' = "brake"
  <2>1. CASE Control!Settle(t, d) \/ Control!Align(t, d) \/ Control!Search(t, d)
    BY <2>1 DEF Control!Settle, Control!Align, Control!Search, Control!Report,
                Control!Finishes
  <2>2. CASE Control!EnterArc(t) \/ Control!Arc(t, d) \/ Control!LeaveFirstArc(t, d)
    BY <2>2 DEF Control!EnterArc, Control!Arc, Control!LeaveFirstArc,
                Control!Report, Control!Finishes
  <2>3. CASE Control!FinishAtA(t, d)
    BY <2>3 DEF Control!FinishAtA, Control!Report, Control!Finishes
  <2> QED BY <1>6, <2>1, <2>2, <2>3 DEF Control!RunTrack
<1>7. ASSUME NEW d \in Control!Travel, state = "RUNNING",
             Control!StraightQ2(d) \/ Control!StraightQ3(d)
      PROVE  laps' = laps /\ event' \in {"none", "point"} /\ state' = state
  BY <1>7 DEF Control!StraightQ2, Control!StraightQ3, Control!Report,
              Control!Finishes
<1>8. ASSUME NEW d \in Control!Travel, state = "RUNNING", Control!CompleteLap(d)
      PROVE  /\ laps' \in 1 .. MaxLaps /\ mode = 4
             /\ \/ event' = "lap" /\ state' = state
                \/ event' = "lastLap" /\ state' = "FINISHED" /\ command' = "brake"
  <2>1. mode = 4 /\ laps' = Control!Min(laps + 1, MaxLaps)
    BY <1>8 DEF Control!CompleteLap
  <2>2. laps' \in 1 .. MaxLaps
    BY <2>1, RaceConfigAssumption DEF Control!Min
  <2> QED BY <1>8, <2>1, <2>2
          DEF Control!CompleteLap, Control!Report, Control!Finishes
<1> QED BY <1>1, <1>2, <1>3, <1>4, <1>5, <1>6, <1>7, <1>8
        DEF Control!Iteration, Control!RunIteration

-----------------------------------------------------------------------------
(***************************************************************************)
(* The car implements the race configuration: its route code makes no      *)
(* report RaceConfig does not allow control to make.                       *)
(***************************************************************************)
LEMMA ControlReports ==
  ASSUME LapsInRange, ControlIteration
  PROVE  ControlReport \/ UNCHANGED configVars
<1>1. CASE event' = "finish"
  BY <1>1 DEF ControlIteration, ReportsReach, ControlReport
<1>2. CASE event' = "lap"
  <2>1. SetLapProgress(laps') /\ laps' \in 1 .. MaxLaps
    BY <1>2, RouteReports DEF ControlIteration, ReportsReach, LapsInRange
  <2> QED BY <2>1 DEF ControlReport
<1>3. CASE event' = "lastLap"
  BY <1>3 DEF ControlIteration, ReportsReach, ControlReport
<1>4. CASE event' \notin {"finish", "lap", "lastLap"}
  BY <1>4 DEF ControlIteration, ReportsReach
<1> QED BY <1>1, <1>2, <1>3, <1>4

LEMMA OperatorSteps == OperatorStep => Next
  BY DEF OperatorStep, Next

LEMMA CarStepImplements ==
  ASSUME LapsInRange, [CarNext]_carVars
  PROVE  [Next]_configVars
<1>1. CASE ControlIteration
  BY <1>1, ControlReports DEF Next
<1>2. CASE OperatorStep
  BY <1>2, OperatorSteps
<1>3. CASE UNCHANGED carVars
  BY <1>3 DEF carVars
<1> QED BY <1>1, <1>2, <1>3 DEF CarNext

-----------------------------------------------------------------------------
(***************************************************************************)
(* The invariant of the composition                                        *)
(***************************************************************************)
LEMMA ControlOK ==
  ASSUME CarInv, ControlIteration
  PROVE  CarInv'
<1> USE DEF CarInv
<1>1. /\ laps' \in 0 .. MaxLaps
      /\ mode' = mode
      /\ \/ event' \in {"none", "point"} /\ state' = state
            /\ (state # "RUNNING" => command' = "stop")
         \/ event' = "lap" /\ state' = state /\ mode = 4
            /\ laps' \in 1 .. MaxLaps /\ state = "RUNNING"
         \/ event' = "finish" /\ state' = "FINISHED" /\ mode # 4
            /\ command' = "brake" /\ state = "RUNNING"
         \/ event' = "lastLap" /\ state' = "FINISHED" /\ mode = 4
            /\ command' = "brake" /\ state = "RUNNING"
  BY RouteReports DEF ControlIteration, LapsInRange
<1>2. ConfigInv'
  <2>1. [Next]_configVars
    BY ControlReports DEF Next
  <2> QED BY <2>1, ConfigStep
<1>3. ReportsReach
  BY DEF ControlIteration
<1>4. UNCHANGED <<pressed, key, pc, goal>>
  BY <1>1, <1>3 DEF ReportsReach, SetFinished, SetLapProgress, SetLastLap,
                    configVars, raceVars
<1>5. FinishedStands'
  BY <1>1 DEF FinishedStands
<1>6. GoalIsNotFinished' /\ LapsInRange'
  BY <1>1, <1>4 DEF GoalIsNotFinished, LapsInRange
<1>7. LapOnlyInLapRace' /\ LastLapShown'
  <2>1. CASE event' \in {"none", "point"}
    <3>1. UNCHANGED <<mode, state, currentLap>>
      BY <1>3, <2>1 DEF ReportsReach, configVars, config
    <3> QED BY <1>4, <3>1 DEF LapOnlyInLapRace, LastLapShown
  <2>2. CASE event' = "lap"
    <3>1. mode = MaxMode /\ state' # "FINISHED"
      BY <1>1, <2>2, CarAssumption
    <3> QED BY <1>1, <3>1 DEF LapOnlyInLapRace, LastLapShown
  <2>3. CASE event' = "finish"
    <3>1. mode' # MaxMode /\ currentLap' = currentLap
      BY <1>1, <1>3, <2>3, CarAssumption DEF ReportsReach, SetFinished
    <3> QED BY <1>1, <1>4, <3>1 DEF LapOnlyInLapRace, LastLapShown
  <2>4. CASE event' = "lastLap"
    <3>1. mode' = MaxMode /\ currentLap' = MaxLaps
      BY <1>1, <1>3, <2>4, CarAssumption DEF ReportsReach, SetLastLap
    <3> QED BY <3>1 DEF LapOnlyInLapRace, LastLapShown
  <2> QED BY <1>1, <2>1, <2>2, <2>3, <2>4
<1> QED BY <1>2, <1>5, <1>6, <1>7

LEMMA OperatorOK ==
  ASSUME CarInv, OperatorStep
  PROVE  CarInv'
<1> USE DEF CarInv
<1>1. ConfigInv'
  BY OperatorSteps, ConfigStep
<1>2. laps' = laps /\ command' = command
  BY DEF OperatorStep, routeVars
<1>3. LapsInRange'
  BY <1>2 DEF LapsInRange
<1> DEFINE Rest == LapOnlyInLapRace /\ LastLapShown /\ GoalIsNotFinished
                   /\ FinishedStands
<1>4. Rest'
  <2> USE <1>2 DEF LapOnlyInLapRace, LastLapShown, GoalIsNotFinished,
                   FinishedStands
  <2>1. ASSUME NEW k \in Keys, KeyTimer(k) PROVE Rest'
    BY <2>1 DEF KeyTimer, config
  <2>2. CASE PopKey
    <3>1. key \in Keys
      BY DEF ConfigInv, TypeOK
    <3>2. UNCHANGED config /\ goal' = goal /\ pc = "pop"
          /\ pc' \in {"pop", "mode", "laps", "inc", "read"}
      BY <2>2, <3>1 DEF PopKey, FirstWrite, Keys
    <3> QED BY <3>2 DEF config
  <2>3. CASE WriteMode
    BY <2>3 DEF WriteMode
  <2>4. CASE WriteLaps
    BY <2>4 DEF WriteLaps
  <2>5. CASE IncrementLaps
    BY <2>5 DEF IncrementLaps
  <2>6. CASE WrapLaps
    BY <2>6 DEF WrapLaps
  <2>7. CASE ReadState
    BY <2>7 DEF ReadState, config, Toggled, ConfigInv, TypeOK, States
  <2>8. CASE ZeroLap
    BY <2>8 DEF ZeroLap
  <2>9. CASE WriteState
    BY <2>9 DEF WriteState
  <2>10. CASE SetDirty
    BY <2>10 DEF SetDirty, config
  <2> QED BY <2>1, <2>2, <2>3, <2>4, <2>5, <2>6, <2>7, <2>8, <2>9, <2>10
          DEF OperatorStep, RaceStep
<1> QED BY <1>1, <1>3, <1>4

LEMMA CarStepOK == CarInv /\ [CarNext]_carVars => CarInv'
<1> SUFFICES ASSUME CarInv, [CarNext]_carVars PROVE CarInv'
  OBVIOUS
<1>1. CASE UNCHANGED carVars
  BY <1>1
  DEF carVars, configVars, config, raceVars, routeVars, CarInv, ConfigInv,
      TypeOK, LapsInv, GoalInv, LapsInRange, LapOnlyInLapRace, LastLapShown,
      GoalIsNotFinished, FinishedStands
<1> QED BY <1>1, ControlOK, OperatorOK DEF CarNext

(* The inductive invariant of the composition. *)
THEOREM CarInvariance == CarSpec => []CarInv
  BY CarInitOK, CarStepOK, PTL DEF CarSpec

(* The composed car behaves, as far as the configuration can tell, like    *)
(* RaceConfig: the route code reports a lap or a finish only when          *)
(* app_race_config.c may expect one.  What RaceProofs proves of the        *)
(* configuration holds of the car.                                         *)
THEOREM CarImplementsConfig == CarSpec => Spec
<1>1. CarInit => Init
  BY DEF CarInit
<1>2. CarInv => LapsInRange
  BY DEF CarInv
<1> QED BY <1>1, <1>2, CarInvariance, CarStepImplements, PTL DEF CarSpec, Spec

(* Two of them: the lap race has its laps, and no run starts with a lap of *)
(* the one before, with the real route code in place of free reports.      *)
THEOREM CarKeepsItsLaps == CarSpec => []LapsMatchMode /\ RunStartsAtLapZero
  BY CarImplementsConfig, LapRaceHasItsLaps, RunsStartAtLapZero

(* A finished race never drives, and between two key handlers it shows its *)
(* laps, whichever handler was half-way through g_snapshot when control    *)
(* finished the race (app_race_config.c:379-428).                          *)
THEOREM FinishStays == CarSpec => []FinishIsFinal
<1>1. CarInv => FinishIsFinal
  BY DEF CarInv, FinishIsFinal, FinishedShowsLaps, LapOnlyInLapRace,
         LastLapShown
<1> QED BY <1>1, CarInvariance, PTL
==============================================================================
