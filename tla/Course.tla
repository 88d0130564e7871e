------------------------------- MODULE Course -------------------------------
(***************************************************************************)
(* What the route logic promises: a course is a fixed number of points,    *)
(* passed one after the other while the race runs.  Every point but the    *)
(* last is announced once, the last one ends the race; a pause loses       *)
(* nothing and READY or FINISHED forgets the course.                       *)
(***************************************************************************)
EXTENDS Naturals

CONSTANT Points   (* the number of points of each mode's course *)

VARIABLES
  state,   (* of the race                                                  *)
  course,  (* the mode whose course is being driven, 0 = none              *)
  passed,  (* the points of it passed so far                               *)
  report   (* what the last step reported: "none", "point" or "finish"     *)

vars == <<state, course, passed, report>>

Init ==
  /\ state = "READY"
  /\ course = 0
  /\ passed = 0
  /\ report = "none"

Begin ==
  /\ state = "RUNNING"
  /\ course = 0
  /\ course' \in DOMAIN Points
  /\ passed' = 0
  /\ report' = "none"
  /\ UNCHANGED state

PassPoint ==
  /\ state = "RUNNING"
  /\ course # 0
  /\ passed + 1 < Points[course]
  /\ passed' = passed + 1
  /\ report' = "point"
  /\ UNCHANGED <<state, course>>

Finish ==
  /\ state = "RUNNING"
  /\ course # 0
  /\ passed + 1 = Points[course]
  /\ state' = "FINISHED"
  /\ course' = 0
  /\ passed' = 0
  /\ report' = "finish"

Forget ==
  /\ state \in {"READY", "FINISHED"}
  /\ course' = 0
  /\ passed' = 0
  /\ report' = "none"
  /\ UNCHANGED state

Drive ==
  /\ report' = "none"
  /\ UNCHANGED <<state, course, passed>>

(* The operator; a finished race is never paused. *)
Operate ==
  /\ state' \in {"READY", "RUNNING", "STOPPED"}
  /\ state = "FINISHED" => state' = "READY"
  /\ UNCHANGED <<course, passed, report>>

Next == Begin \/ PassPoint \/ Finish \/ Forget \/ Drive \/ Operate

Spec == Init /\ [][Next]_vars
=============================================================================
