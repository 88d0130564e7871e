---------------------------- MODULE MCCarHistory ----------------------------
(* The instance of MCCar, with the history variables. *)
EXTENDS CarHistory
=============================================================================
