------------------------------ MODULE MCChassis ------------------------------
(* Chassis with a rated speed of one count and a full duty of two, so that *)
(* a partial duty exists and asking for a speed of two is clamped.         *)
EXTENDS ChassisRefinement

MCInputs == {-2, 0, 1}
==============================================================================
