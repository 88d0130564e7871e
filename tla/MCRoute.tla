------------------------------ MODULE MCRoute ------------------------------
(* Every confirmation takes two iterations, so that it can be broken off   *)
(* and start again; three good samples arm an arc and three bad ones stop  *)
(* it; one settling cycle, one iteration of launch delay and two laps in   *)
(* mode 4.                                                                 *)
EXTENDS RouteRefinement
=============================================================================
