----------------------------- MODULE CarHistory -----------------------------
(***************************************************************************)
(* Car with two history variables, for the two comments of the source that *)
(* the composition does not live up to.                                    *)
(***************************************************************************)
EXTENDS Car

VARIABLES
  ready,     (* READY was written after control's last iteration           *)
  completed  (* SetFinished was accepted and READY not written since       *)

historyVars == <<carVars, ready, completed>>

HistoryInit ==
  /\ CarInit
  /\ ready = TRUE
  /\ completed = FALSE

WritesReady == pc = "state" /\ pc' = "dirty" /\ goal = "READY"

HistoryNext ==
  \/ /\ ControlIteration
     /\ ready' = FALSE
     /\ completed' = (completed \/ Control!Finishes(event'))
  \/ /\ OperatorStep
     /\ ready' = (ready \/ WritesReady)
     /\ completed' = (completed /\ ~WritesReady)

HistorySpec == HistoryInit /\ [][HistoryNext]_historyVars

-----------------------------------------------------------------------------
(* "READY/DONE starts a new route": a route under way is not driven on     *)
(* after READY was written.                                                *)
ReadyStartsNewRoute ==
  [][ControlIteration /\ launch' = "done" /\ ready
       => active[Control!TrackOf[mode]] = 0]_historyVars

(* "Completion is a one-shot event": a second completion is accepted only  *)
(* after the race has been READY again.                                    *)
CompletionIsOneShot ==
  [][ControlIteration /\ Control!Finishes(event') => ~completed]_historyVars
==============================================================================
