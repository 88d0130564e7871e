------------------------------ MODULE DriveGoal ------------------------------
(***************************************************************************)
(* What the chassis promises the control task, without tasks, registers or *)
(* duties: there is one goal for the whole car, the brake goal is left     *)
(* only by driving, and a bridge changes its mode only to one the current  *)
(* goal licenses.                                                          *)
(***************************************************************************)
EXTENDS Naturals

CONSTANT Wheels

Goals == {"drive", "coast", "brake"}

Licensed(goal) ==
  CASE goal = "drive" -> {"COAST", "FORWARD", "REVERSE"}
    [] goal = "coast" -> {"COAST"}
    [] goal = "brake" -> {"BRAKE"}

VARIABLES
  goal,   (* what the control task last asked for *)
  mode    (* per wheel: the mode of its bridge    *)

vars == <<goal, mode>>

Init ==
  /\ goal = "coast"
  /\ mode = [w \in Wheels |-> "COAST"]

(* A braking car that is told to coast keeps braking. *)
Ask(g) ==
  /\ goal = "brake" => g # "coast"
  /\ goal' = g
  /\ UNCHANGED mode

Switch(w) ==
  /\ \E m \in Licensed(goal) : mode' = [mode EXCEPT ![w] = m]
  /\ UNCHANGED goal

(* A bridge in a mode its goal does not license is switched eventually. *)
Settle(w) == mode[w] \notin Licensed(goal) /\ Switch(w)

Next == \/ \E g \in Goals : Ask(g)
        \/ \E w \in Wheels : Switch(w)

Safety == Init /\ [][Next]_vars
Spec   == Safety /\ \A w \in Wheels : WF_vars(Settle(w))
==============================================================================
