---------------------------- MODULE DebouncedKey ----------------------------
(***************************************************************************)
(* A debounced key (module_key.c).  The key_scan task samples it about     *)
(* every millisecond with the tick count; a late task catches up with      *)
(* several calls in the same millisecond.  Contacts bounce: every sample   *)
(* may differ from the one before.  A level is the state it stands for.    *)
(***************************************************************************)
EXTENDS Integers

CONSTANTS
  Debounce,   (* cfg.debounce_ms                                           *)
  LongPress,  (* cfg.long_press_ms                                         *)
  MaxGap      (* bound: milliseconds between two calls                     *)

ASSUME KeyAssumption ==
  /\ Debounce \in Nat
  /\ LongPress \in Nat \ {0}
  /\ MaxGap \in Nat \ {0}

States == {"released", "pressed"}

VARIABLES
  lastRaw,       (* last_raw_level                                         *)
  state,         (* stable_level and state, which agree                    *)
  sinceChange,   (* now - last_change_time_ms, up to Debounce              *)
  sincePress,    (* now - pressed_time_ms, up to LongPress                 *)
  longReported,  (* long_press_reported                                    *)
  events,        (* what the last call returned                            *)
  steady,        (* history: how long the samples have agreed              *)
  heard          (* history: what a reader of the events knows of the key  *)

keyVars == <<lastRaw, state, sinceChange, sincePress, longReported, events,
             steady, heard>>

(* A key may be held down while the car is switched on.                    *)
KeyInit ==
  /\ lastRaw \in States
  /\ state = lastRaw
  /\ sinceChange = 0
  /\ sincePress = 0
  /\ longReported = FALSE
  /\ events = {}
  /\ steady = 0
  /\ heard = state

(* Time beyond limit makes no difference any more.                         *)
Elapsed(since, gap, limit) ==
  IF since + gap < limit THEN since + gap ELSE limit

(* Mutant: the first sample of a new level does not restart the time. *)
SinceChangeKept(raw, gap) == Elapsed(sinceChange, gap, Debounce)

SinceChange(raw, gap) ==
  IF raw # lastRaw THEN 0 ELSE Elapsed(sinceChange, gap, Debounce)

SincePress(pressed, gap) ==
  IF pressed THEN 0 ELSE Elapsed(sincePress, gap, LongPress)

Changes(raw, gap) == raw # state /\ SinceChange(raw, gap) >= Debounce

(* Mutant: >= became >, which the capped time never reaches. *)
LongDueNever(now, reported, since) ==
  now = "pressed" /\ ~reported /\ since > LongPress

(* Mutant: the flag is not asked. *)
LongDueAgain(now, reported, since) ==
  now = "pressed" /\ since >= LongPress

LongDue(now, reported, since) ==
  now = "pressed" /\ ~reported /\ since >= LongPress

(* What the events of a call tell somebody who has seen all of them.       *)
Hears(before, evs) ==
  CASE evs = {} -> before
    [] evs = {"PRESSED"} /\ before = "released" -> "pressed"
    [] evs = {"LONG_PRESSED"} /\ before = "pressed" -> "held"
    [] evs = {"RELEASED"} /\ before \in {"pressed", "held"} -> "released"
    [] OTHER -> "confused"

KeyUpdate(raw, gap) ==
  LET changes  == Changes(raw, gap)
      now      == IF changes THEN raw ELSE state
      pressed  == changes /\ raw = "pressed"
      since    == SincePress(pressed, gap)
      reported == ~changes /\ longReported
      long     == LongDue(now, reported, since)
  IN
  /\ lastRaw' = raw
  /\ sinceChange' = SinceChange(raw, gap)
  /\ state' = now
  /\ sincePress' = since
  /\ longReported' = (reported \/ long)
  /\ events' = {e \in {"PRESSED", "RELEASED", "LONG_PRESSED"} :
                  \/ e = "PRESSED" /\ pressed
                  \/ e = "RELEASED" /\ changes /\ ~pressed
                  \/ e = "LONG_PRESSED" /\ long}
  /\ steady' = IF raw # lastRaw THEN 0 ELSE Elapsed(steady, gap, Debounce)
  /\ heard' = Hears(heard, events')

KeyNext == \E raw \in States, gap \in 0 .. MaxGap : KeyUpdate(raw, gap)

Steady(raw) == lastRaw = raw /\ \E gap \in 1 .. MaxGap : KeyUpdate(raw, gap)

(* vTaskDelayUntil lets the task run again and again, and time goes on: a  *)
(* level that stays is sampled again, later.                               *)
KeySpec ==
  /\ KeyInit
  /\ [][KeyNext]_keyVars
  /\ \A raw \in States : WF_keyVars(Steady(raw))

-----------------------------------------------------------------------------
TypeOK ==
  /\ lastRaw \in States
  /\ state \in States
  /\ sinceChange \in 0 .. Debounce
  /\ sincePress \in 0 .. LongPress
  /\ longReported \in BOOLEAN
  /\ events \in {{}, {"PRESSED"}, {"RELEASED"}, {"LONG_PRESSED"}}

(* Whatever the contacts do, the events of Key_Update tell one story:      *)
(* presses and releases alternate, every press has at most one long press, *)
(* none comes after the release, and no call reports two of them.  A       *)
(* reader of the events always knows the state.                            *)
EventsTellState ==
  /\ state = "released" => heard = "released"
  /\ state = "pressed" => heard = (IF longReported THEN "held" ELSE "pressed")

(* The state follows a level only after all samples of the debounce time   *)
(* agreed on it, in both directions: no bounce inside that time passes.    *)
ChangesAreSteady ==
  [][state' # state => lastRaw' = state' /\ steady' = Debounce]_keyVars

(* A key that is held or left alone is noticed, and a held one is reported *)
(* as a long press, whatever bounces came before.                          *)
KeyIsNoticed ==
  /\ <>[](lastRaw = "released") => <>[](heard = "released")
  /\ <>[](lastRaw = "pressed") => <>[](heard = "held")
=============================================================================
