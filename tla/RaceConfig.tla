----------------------------- MODULE RaceConfig -----------------------------
(***************************************************************************)
(* The operator's side of the race: g_snapshot of app_race_config.c and    *)
(* the three tasks that touch it.                                          *)
(*                                                                         *)
(*   key_scan (priority 3, 1 ms) counts debounced presses.                 *)
(*   control  (priority 2, 10 ms) reads mode and state, and reports laps   *)
(*            and the finish; race never runs while one of its iterations  *)
(*            does.                                                        *)
(*   race     (priority 1, 10 ms) pops one press of each key per RunOnce   *)
(*            and writes the fields of g_snapshot one by one.  It takes no *)
(*            lock for them: control may run between any two writes.       *)
(***************************************************************************)
EXTENDS Integers

CONSTANTS
  MaxMode,    (* APP_RACE_CONFIG_MAX_MODE; the last mode is the lap race   *)
  MaxLaps,    (* APP_RACE_CONFIG_MAX_LAPS                                  *)
  MaxPresses  (* 255, where g_key_press_count saturates                    *)

(* The mode the car starts in is not the lap race. *)
ASSUME RaceConfigAssumption ==
  /\ MaxMode \in Nat \ {0, 1}
  /\ MaxLaps \in Nat \ {0}
  /\ MaxPresses \in Nat \ {0}

Keys   == {"MODE", "LAP", "START"}
States == {"READY", "RUNNING", "STOPPED", "FINISHED"}
Steps  == {"pop", "mode", "laps", "inc", "wrap", "read", "lap", "state",
           "dirty"}

VARIABLES
  mode, targetLaps, currentLap, state,  (* g_snapshot                      *)
  dirty,    (* g_display_dirty                                             *)
  pressed,  (* g_key_press_count of each key                               *)
  key,      (* race: the key RunOnce is serving                            *)
  pc,       (* race: its next write                                        *)
  goal      (* race: the state the handler will write; READY between two   *)
            (* handlers                                                    *)

config     == <<mode, targetLaps, currentLap, state>>
raceVars   == <<pressed, key, pc, goal>>
configVars == <<config, dirty, raceVars>>

Init ==
  /\ mode = 1
  /\ targetLaps = 1
  /\ currentLap = 0
  /\ state = "READY"
  /\ dirty = TRUE
  /\ pressed = [k \in Keys |-> 0]
  /\ key = "MODE"
  /\ pc = "pop"
  /\ goal = "READY"

(***************************************************************************)
(* key_scan: AppRaceConfig_KeyTimer1ms on a debounced press                *)
(***************************************************************************)
KeyTimer(k) ==
  /\ pressed[k] < MaxPresses
  /\ pressed' = [pressed EXCEPT ![k] = @ + 1]
  /\ UNCHANGED <<config, dirty, key, pc, goal>>

(***************************************************************************)
(* race: AppRaceConfig_RunOnce                                             *)
(***************************************************************************)
NextKey == [k \in Keys |->
  CASE k = "MODE" -> "LAP" [] k = "LAP" -> "START" [] k = "START" -> "MODE"]

FirstWrite == [k \in Keys |->
  CASE k = "MODE"  -> "mode"
    [] k = "LAP"   -> IF mode = MaxMode THEN "laps" ELSE "inc"
    [] k = "START" -> "read"]

(* The PRIMASK section of pop_key_pressed_event; RunOnce goes on to the    *)
(* next key when no press is pending.                                      *)
PopKey ==
  /\ pc = "pop"
  /\ IF pressed[key] > 0
     THEN /\ pressed' = [pressed EXCEPT ![key] = @ - 1]
          /\ pc' = FirstWrite[key]
          /\ UNCHANGED key
     ELSE /\ key' = NextKey[key]
          /\ UNCHANGED <<pressed, pc>>
  /\ UNCHANGED <<config, dirty, goal>>

WriteMode ==
  /\ pc = "mode"
  /\ mode' = IF mode + 1 > MaxMode THEN 1 ELSE mode + 1
  /\ pc' = "laps"
  /\ UNCHANGED <<targetLaps, currentLap, state, dirty, pressed, key, goal>>

(* Mutant: the lap race is not given its fixed number of laps. *)
WriteLapsOne ==
  /\ pc = "laps"
  /\ targetLaps' = 1
  /\ pc' = "lap"
  /\ UNCHANGED <<mode, currentLap, state, dirty, pressed, key, goal>>

WriteLaps ==
  /\ pc = "laps"
  /\ targetLaps' = IF mode = MaxMode THEN MaxLaps ELSE 1
  /\ pc' = "lap"
  /\ UNCHANGED <<mode, currentLap, state, dirty, pressed, key, goal>>

(* next_lap stores the incremented count before it wraps it. *)
IncrementLaps ==
  /\ pc = "inc"
  /\ targetLaps' = targetLaps + 1
  /\ pc' = "wrap"
  /\ UNCHANGED <<mode, currentLap, state, dirty, pressed, key, goal>>

WrapLaps ==
  /\ pc = "wrap"
  /\ targetLaps' = IF targetLaps > MaxLaps THEN 1 ELSE targetLaps
  /\ pc' = "lap"
  /\ UNCHANGED <<mode, currentLap, state, dirty, pressed, key, goal>>

Toggled == [s \in States |->
  CASE s = "READY" -> "RUNNING"   [] s = "RUNNING"  -> "STOPPED"
    [] s = "STOPPED" -> "RUNNING" [] s = "FINISHED" -> "READY"]

(* Mutant: starting from READY trusts that the lap is already zero. *)
ReadStateKeepLap ==
  /\ pc = "read"
  /\ goal' = Toggled[state]
  /\ pc' = IF state = "FINISHED" THEN "lap" ELSE "state"
  /\ UNCHANGED <<config, dirty, pressed, key>>

(* toggle_start_stop reads the state here and writes the next one later. *)
ReadState ==
  /\ pc = "read"
  /\ goal' = Toggled[state]
  /\ pc' = IF state \in {"READY", "FINISHED"} THEN "lap" ELSE "state"
  /\ UNCHANGED <<config, dirty, pressed, key>>

ZeroLap ==
  /\ pc = "lap"
  /\ currentLap' = 0
  /\ pc' = "state"
  /\ UNCHANGED <<mode, targetLaps, state, dirty, pressed, key, goal>>

WriteState ==
  /\ pc = "state"
  /\ state' = goal
  /\ pc' = "dirty"
  /\ UNCHANGED <<mode, targetLaps, currentLap, dirty, pressed, key, goal>>

(* Mutant: the three keys are an else-if chain, a served key ends RunOnce. *)
SetDirtyAndReturn ==
  /\ pc = "dirty"
  /\ dirty' = TRUE
  /\ pc' = "pop"
  /\ key' = "MODE"
  /\ goal' = "READY"
  /\ UNCHANGED <<config, pressed>>

SetDirty ==
  /\ pc = "dirty"
  /\ dirty' = TRUE
  /\ pc' = "pop"
  /\ key' = NextKey[key]
  /\ goal' = "READY"
  /\ UNCHANGED <<config, pressed>>

RaceStep ==
  \/ PopKey    \/ WriteMode     \/ WriteLaps \/ IncrementLaps \/ WrapLaps
  \/ ReadState \/ ZeroLap       \/ WriteState \/ SetDirty

(***************************************************************************)
(* control: what one of its iterations may report.  It acts only while it  *)
(* reads RUNNING, so that SetFinished never meets FINISHED here.           *)
(***************************************************************************)
(* Mutant: the display is not told of the finish. *)
SetFinishedQuietly ==
  /\ state = "RUNNING"
  /\ state' = "FINISHED"
  /\ UNCHANGED <<mode, targetLaps, currentLap, dirty, raceVars>>

SetFinished ==
  /\ state = "RUNNING"
  /\ state' = "FINISHED"
  /\ dirty' = TRUE
  /\ UNCHANGED <<mode, targetLaps, currentLap, raceVars>>

SetLapProgress(lap) ==
  /\ state = "RUNNING"
  /\ mode = MaxMode
  /\ currentLap' = lap
  /\ targetLaps' = MaxLaps
  /\ dirty' = TRUE
  /\ UNCHANGED <<mode, state, raceVars>>

(* Mutant: the last lap is finished but not reported. *)
SetLastLapUncounted ==
  /\ state = "RUNNING"
  /\ mode = MaxMode
  /\ state' = "FINISHED"
  /\ dirty' = TRUE
  /\ UNCHANGED <<mode, targetLaps, currentLap, raceVars>>

(* The last lap is reported and finishes the race in one iteration. *)
SetLastLap ==
  /\ state = "RUNNING"
  /\ mode = MaxMode
  /\ currentLap' = MaxLaps
  /\ targetLaps' = MaxLaps
  /\ state' = "FINISHED"
  /\ dirty' = TRUE
  /\ UNCHANGED <<mode, raceVars>>

ControlReport ==
  \/ SetFinished
  \/ \E lap \in 1 .. MaxLaps : SetLapProgress(lap)
  \/ SetLastLap

Next ==
  \/ \E k \in Keys : KeyTimer(k)
  \/ RaceStep
  \/ ControlReport

Spec == Init /\ [][Next]_configVars

(* The race task is periodic and nothing above it runs forever, so it      *)
(* keeps taking steps; presses and reports need not come.                  *)
FairSpec == Spec /\ WF_configVars(RaceStep)

-----------------------------------------------------------------------------
(* Every field stays in its range, at every point of an update: only the   *)
(* target of laps is out of its range for the moment next_lap needs to     *)
(* wrap it.                                                                *)
TypeOK ==
  /\ mode \in 1 .. MaxMode
  /\ targetLaps \in 1 .. MaxLaps + (IF pc = "wrap" THEN 1 ELSE 0)
  /\ currentLap \in 0 .. MaxLaps
  /\ state \in States
  /\ dirty \in BOOLEAN
  /\ pressed \in [Keys -> 0 .. MaxPresses]
  /\ key \in Keys
  /\ pc \in Steps
  /\ goal \in States

(* A run always starts at lap zero: control may still report a lap while   *)
(* a key handler is between its two writes, so READY alone does not mean   *)
(* lap zero, and toggle_start_stop has to clear it again.                  *)
RunStartsAtLapZero ==
  [][state = "READY" /\ state' = "RUNNING" => currentLap' = 0]_configVars

(* Between two key handlers the lap race has its fixed number of laps,     *)
(* whatever order mode and lap keys and lap reports came in.               *)
LapsMatchMode == pc = "pop" /\ mode = MaxMode => targetLaps = MaxLaps

(* A press of any key is eventually served, however busy the other two     *)
(* keys are: RunOnce pops one press of each key in turn.                   *)
PressServed ==
  \A k \in Keys : pressed[k] > 0 ~> key = k /\ pc # "pop"
=============================================================================
