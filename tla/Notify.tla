------------------------------- MODULE Notify -------------------------------
(***************************************************************************)
(* The buzzer and LED prompts of app_race_config.c, in time.  Two tasks    *)
(* start them and one of the two ends them:                                *)
(*                                                                         *)
(*   control (priority 2)  NotifyPoint and SetFinished                     *)
(*   race    (priority 1)  a tone for each key it serves, then             *)
(*           notify_update, which ends an expired tone; a whole RunOnce    *)
(*           uses the tick count it read when it began.                    *)
(*                                                                         *)
(* Deadlines are kept relative to the current tick, in ticks: the signed   *)
(* difference deadline - now that the code computes, without its wrap at   *)
(* 2^31 ms.  A deadline in the past is only ever compared, so it stops     *)
(* counting at -Expired.                                                   *)
(***************************************************************************)
EXTENDS Integers

CONSTANTS
  KeyMs,     (* APP_RACE_NOTIFY_KEY_MS                                     *)
  PointMs,   (* APP_RACE_NOTIFY_POINT_MS                                   *)
  FinishMs,  (* APP_RACE_NOTIFY_FINISH_MS                                  *)
  LockMs,    (* APP_RACE_NOTIFY_POINT_LOCKOUT_MS                           *)
  Period     (* bound: two RunOnce begin at most Period ticks apart        *)

Expired == 3 * Period   (* bound on how far a past deadline counts *)
KeyCount == 3

ASSUME NotifyAssumption ==
  /\ Period \in Nat \ {0}
  /\ KeyMs \in Nat \ {0}
  /\ PointMs \in Nat \ {0}
  /\ FinishMs \in Nat \ {0}
  /\ LockMs \in Nat \ {0}
  /\ KeyMs <= FinishMs
  /\ PointMs <= FinishMs
  /\ PointMs + 2 * Period < LockMs

VARIABLES
  sounding,  (* the buzzer (and the LED with it) is on                     *)
  offIn,     (* g_notify_off_time_ms - now                                 *)
  pointIn,   (* g_point_notify_next_allowed_ms - now, 0 when past          *)
  finished,  (* g_snapshot.state = APP_RACE_STATE_FINISHED                 *)
  keysLeft,  (* race: the keys RunOnce may still serve                     *)
  running,   (* race: inside RunOnce                                       *)
  lag        (* now - now_ms of the last RunOnce                           *)

raceVars == <<keysLeft, running, lag>>
vars == <<sounding, offIn, pointIn, finished, raceVars>>

NotifyInit ==
  /\ sounding = 0
  /\ offIn = 0
  /\ pointIn = 0
  /\ finished = 0
  /\ keysLeft = 0
  /\ running = 0
  /\ lag = 0

(* The PRIMASK section of notify_on, called with a tick count that is late *)
(* ticks old.                                                              *)
NotifyOn(late, duration) ==
  /\ offIn' = duration - late
  /\ sounding' = 1

(***************************************************************************)
(* control                                                                 *)
(***************************************************************************)
(* Mutant: the lockout is checked but never set. *)
NotifyPointAlways ==
  /\ pointIn = 0
  /\ NotifyOn(0, PointMs)
  /\ UNCHANGED <<pointIn, finished, raceVars>>

(* A prompt within the lockout is dropped. *)
NotifyPoint ==
  /\ pointIn = 0
  /\ pointIn' = LockMs
  /\ NotifyOn(0, PointMs)
  /\ UNCHANGED <<finished, raceVars>>

SetFinished ==
  /\ finished = 0
  /\ finished' = 1
  /\ NotifyOn(0, FinishMs)
  /\ UNCHANGED <<pointIn, raceVars>>

(***************************************************************************)
(* race                                                                    *)
(***************************************************************************)
BeginRunOnce ==
  /\ running = 0
  /\ running' = 1
  /\ keysLeft' = KeyCount
  /\ lag' = 0
  /\ UNCHANGED <<sounding, offIn, pointIn, finished>>

(* A served key may take the race out of FINISHED before it sounds. *)
ServeKey ==
  /\ running = 1
  /\ keysLeft > 0
  /\ keysLeft' = keysLeft - 1
  /\ finished' \in {finished, 0}
  /\ NotifyOn(lag, KeyMs)
  /\ UNCHANGED <<pointIn, running, lag>>

(* Mutant: the difference is compared unsigned. *)
NotifyUpdateUnsigned ==
  /\ running = 1
  /\ sounding' = 0
  /\ running' = 0
  /\ UNCHANGED <<offIn, pointIn, finished, keysLeft, lag>>

(* Mutant: an equal deadline does not count, and only that one is tested. *)
NotifyUpdateExact ==
  /\ running = 1
  /\ sounding' = IF offIn + lag = 0 THEN 0 ELSE sounding
  /\ running' = 0
  /\ UNCHANGED <<offIn, pointIn, finished, keysLeft, lag>>

NotifyUpdate ==
  /\ running = 1
  /\ sounding' = IF offIn + lag <= 0 THEN 0 ELSE sounding
  /\ running' = 0
  /\ UNCHANGED <<offIn, pointIn, finished, keysLeft, lag>>

(* One tick.  The race task begins a RunOnce at least every Period ticks.  *)
Tick ==
  /\ lag < Period
  /\ lag' = lag + 1
  /\ offIn' = IF offIn = -Expired THEN offIn ELSE offIn - 1
  /\ pointIn' = IF pointIn = 0 THEN 0 ELSE pointIn - 1
  /\ UNCHANGED <<sounding, finished, keysLeft, running>>

RaceStep == BeginRunOnce \/ ServeKey \/ NotifyUpdate

Next == NotifyPoint \/ SetFinished \/ RaceStep \/ Tick

NotifySpec == NotifyInit /\ [][Next]_vars

(* Time passes, and the periodic race task ends each RunOnce. *)
FairNotifySpec ==
  /\ NotifySpec
  /\ WF_vars(Tick)
  /\ WF_vars(BeginRunOnce)
  /\ WF_vars(NotifyUpdate)

-----------------------------------------------------------------------------
NotifyTypeOK ==
  /\ sounding \in 0 .. 1
  /\ offIn \in (-Expired) .. FinishMs
  /\ pointIn \in 0 .. LockMs
  /\ finished \in 0 .. 1
  /\ keysLeft \in 0 .. KeyCount
  /\ running \in 0 .. 1
  /\ lag \in 0 .. Period

(* A tone is never cut before the deadline published last, although race   *)
(* decides with an old tick count and control restarts the tone at any     *)
(* point of a RunOnce (the race the comment in notify_on describes).       *)
SoundsUntilDeadline == offIn > 0 => sounding = 1

(* A tone outlives its deadline by less than two periods of the race task: *)
(* one for the stale tick count and one for the wait until the next        *)
(* notify_update.                                                          *)
OverrunBounded == sounding = 1 => offIn > -2 * Period

(* A prompt sounds up to its deadline, and not much longer.                *)
PromptsKeepTime == SoundsUntilDeadline /\ OverrunBounded

(* The buzzer falls silent again and again unless keys are served again    *)
(* and again: the lockout leaves a gap between two prompts wide enough for *)
(* notify_update to use it.                                                *)
FallsSilent == []<>(sounding = 0) \/ []<>(running = 1 /\ keysLeft < KeyCount)
=============================================================================
