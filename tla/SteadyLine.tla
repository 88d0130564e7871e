----------------------------- MODULE SteadyLine -----------------------------
(***************************************************************************)
(* The line loop of Steering on a line that keeps its place under the      *)
(* sensors while the car steers: where the loop settles, from any earlier  *)
(* error and turn.                                                         *)
(***************************************************************************)
EXTENDS Steering

CONSTANT Turns   (* the turns the loop may begin with *)

VARIABLE place   (* the sample of the line *)

SteadyInit ==
  /\ place \in Samples
  /\ initialized = 1
  /\ \E s \in Samples : output = s[1] /\ lastError = s[1] /\ lo = s[1] /\ hi = s[1]
  /\ turn \in Turns
  /\ forward = RpmToDelta(RecoveryRpm) /\ left = 0 /\ right = 0
  /\ by = "recovery"

Iterate ==
  /\ \E rpm \in LineRpms : Follow(place, rpm, FALSE, FALSE)
  /\ UNCHANGED place

SteadySpec ==
  /\ SteadyInit
  /\ [][Iterate]_<<vars, place>>
  /\ WF_<<vars, place>>(Iterate)

Towards ==
  /\ place[1] < -Deadband - FilterDiv \/ place[2] = -1 => turn > 0
  /\ place[1] > Deadband + FilterDiv /\ place[2] # -1 => turn < 0
  /\ Abs(place[1]) <= Deadband - FilterDiv /\ place[2] = 0 => turn = 0

(* The car comes to steer towards the line and stays so: it turns left for *)
(* a line on the left, right for one on the right, and not at all for one  *)
(* within the dead band (control_task.c:1604), wherever the filter's       *)
(* truncated division comes to rest.                                       *)
SteersTowardsLine == <>[]Towards
=============================================================================
