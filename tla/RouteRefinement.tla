--------------------------- MODULE RouteRefinement ---------------------------
(***************************************************************************)
(* RouteAlone implements Course: the phase of the active track and the     *)
(* lap count say how many points have been passed.                         *)
(***************************************************************************)
EXTENDS RouteAlone

PointsOf == <<1, 4, 4, 4 * Laps>>

PassedIn ==
  [p \in Phases |->
    CASE p \in {"BC_ARC", "CB_ARC"} -> 1
      [] p \in {"C_ALIGN", "CD_STRAIGHT", "B_ALIGN", "BD_STRAIGHT",
                "FIND_D_LINE"} -> 2
      [] p = "DA_ARC" -> 3
      [] OTHER -> 0]

Passed ==
  IF course \in {0, 1} THEN 0
  ELSE PassedIn[phase[TrackOf[course]]] + (IF course = 4 THEN 4 * laps ELSE 0)

Reported ==
  CASE event \in {"point", "lap"} -> "point"
    [] event \in {"finish", "lastLap"} -> "finish"
    [] event = "none" -> "none"

Promise == INSTANCE Course
  WITH Points <- PointsOf, passed <- Passed, report <- Reported

-----------------------------------------------------------------------------
(* Every course is driven in order, each boundary point gives one prompt   *)
(* ("Each boundary point produces one prompt"), the last one finishes the  *)
(* race once, a pause keeps the points passed and READY drops them.        *)
CourseIsKept == Promise!Spec
==============================================================================
