------------------------------- MODULE Wheel -------------------------------
(***************************************************************************)
(* The speed loop of SpeedLoop driving a wheel from rest to one target.    *)
(* The motor is external: it turns at the speed its duty gives at no load, *)
(* less the load, and needs a few periods to get there.                    *)
(***************************************************************************)
EXTENDS SpeedLoop

CONSTANTS
  Drives,     (* the targets of the drives                                *)
  Loads,      (* what the load takes of the speed, in counts per period    *)
  DutyAtRated (* the duty that turns the unloaded wheel at rated speed     *)

VARIABLES load, speed

wheelVars == <<vars, load, speed>>

(* Half of the way to the speed for this duty, rounded up. *)
Turned ==
  LET way == Quotient(control * Rated, DutyAtRated) - load - speed
  IN  speed + (IF way < 0 THEN -((1 - way) \div 2) ELSE (way + 1) \div 2)

WheelInit ==
  /\ Init
  /\ load \in Loads
  /\ speed = 0

(* The control task sets the target of the drive. *)
Start ==
  /\ target = 0
  /\ target' \in Drives
  /\ UNCHANGED <<tuning, applied, pid, control, load, speed>>

Period ==
  /\ Drive(speed)
  /\ speed' = Turned
  /\ UNCHANGED load

WheelNext == Start \/ Period

WheelSpec ==
  /\ WheelInit
  /\ [][WheelNext]_wheelVars
  /\ WF_wheelVars(Start) /\ WF_wheelVars(Period)

(* The wheel reaches its target and stays within a count of it, for every  *)
(* load the integral has the authority to carry: neither the truncated     *)
(* division nor the limit of the sum leaves it short, and the loop does    *)
(* not swing.                                                              *)
SettlesOnTarget == <>[](target # 0 /\ speed - target \in {-1, 0, 1})
=============================================================================
