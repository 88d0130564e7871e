-------------------------- MODULE ChassisRefinement --------------------------
(***************************************************************************)
(* The two tasks and their register writes implement DriveGoal: the goal   *)
(* is read off the targets and the brake latch, the mode of a bridge is    *)
(* the current_mode set_mode keeps for it.                                 *)
(***************************************************************************)
EXTENDS Chassis

Goal == IF Moving(target) THEN "drive"
        ELSE IF brakeActive THEN "brake" ELSE "coast"

Supervisor == INSTANCE DriveGoal WITH goal <- Goal

(* Every step of the two tasks is a step of DriveGoal or leaves it alone:  *)
(* no preemption makes set_mode enter a mode the targets and the latch do  *)
(* not license, and only a drive target ends a brake.                      *)
SupervisorSafety == Supervisor!Safety

(* With the scheduling of FairSpec every bridge also reaches the goal that *)
(* was asked for, unless another one is asked for first.                   *)
SupervisorSpec == Supervisor!Spec
==============================================================================
