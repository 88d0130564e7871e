-------------------------------- MODULE MCCar --------------------------------
(* The race stands READY in any mode and the operator has Presses presses  *)
(* left, of any keys at any time; every confirmation takes one iteration.  *)
EXTENDS Car

CONSTANT Presses

VARIABLE left

mcVars == <<carVars, left>>

MCInit ==
  /\ left = Presses
  /\ mode \in 1 .. MaxMode
  /\ targetLaps = IF mode = MaxMode THEN MaxLaps ELSE 1
  /\ currentLap = 0
  /\ state = "READY"
  /\ dirty = TRUE
  /\ pressed = [k \in Keys |-> 0]
  /\ key = "MODE"
  /\ pc = "pop"
  /\ goal = "READY"
  /\ Control!RouteInit

MCNext ==
  \/ /\ left > 0
     /\ \E k \in Keys : KeyTimer(k)
     /\ left' = left - 1
     /\ UNCHANGED routeVars
  \/ /\ ControlIteration \/ (RaceStep /\ UNCHANGED routeVars)
     /\ UNCHANGED left

MCSpec ==
  /\ MCInit
  /\ [][MCNext]_mcVars
  /\ CarFairness
==============================================================================
