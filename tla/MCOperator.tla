----------------------------- MODULE MCOperator -----------------------------
(***************************************************************************)
(* What the operator presses and hears: DebouncedKey and Notify.  They     *)
(* share no variable, so one of them moves in a behaviour.  The durations  *)
(* of the prompts keep the order of the real ones (20 < 150 < 300 < 800    *)
(* ms) and the key tone is twice the period of the race task, as in the    *)
(* code; the debounce time is the 8 ms of the board, and calls up to 3 ms  *)
(* apart hit the limit and jump over it.                                   *)
(***************************************************************************)
EXTENDS DebouncedKey, Notify

VARIABLE part

Keys == part = "keys" /\ UNCHANGED <<vars, part>>
Prompts == part = "prompts" /\ UNCHANGED <<keyVars, part>>

MCInit ==
  /\ part \in {"keys", "prompts"}
  /\ KeyInit /\ NotifyInit
  /\ part = "prompts" => lastRaw = "released"

MCNext ==
  \/ Keys /\ KeyNext
  \/ Prompts /\ Next

MCSpec ==
  /\ MCInit
  /\ [][MCNext]_<<vars, keyVars, part>>
  /\ \A raw \in States : WF_keyVars(Keys /\ Steady(raw))
  /\ WF_vars(Prompts /\ Tick)
  /\ WF_vars(Prompts /\ BeginRunOnce)
  /\ WF_vars(Prompts /\ NotifyUpdate)
=============================================================================
