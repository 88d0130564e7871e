--------------------------- MODULE CornerHistory ---------------------------
(***************************************************************************)
(* Cornering with what the car has really seen and done: the last branch,  *)
(* the samples since, the way since the line was lost, and the latest      *)
(* samples with the line under the centre.                                 *)
(***************************************************************************)
EXTENDS Cornering

VARIABLES
  branch, age,  (* the last branch at one side in this stretch of line,    *)
                (* and the valid samples since                             *)
  way,          (* rolled since the corner began                           *)
  centred       (* the latest samples, one after the other, on the centre  *)

historyVars == <<cornerVars, branch, age, way, centred>>

AtMost(n, bound) == IF n < bound THEN n ELSE bound

HistoryInit == CornerInit /\ branch = "none" /\ age = 0 /\ way = 0 /\ centred = 0

(* A stretch of line ends with the race and with the corner at its end. *)
Remember(roll) ==
  /\ IF ~running' \/ (corner # "none" /\ corner' = "none")
     THEN branch' = "none" /\ age' = 0
     ELSE IF corner = "none" /\ Status(line') = "OK"
     THEN /\ branch' = (IF Branch(line') = "none" THEN branch ELSE Branch(line'))
          /\ age' = (IF Branch(line') = "none" THEN AtMost(age + 1, HintHold) ELSE 0)
     ELSE UNCHANGED <<branch, age>>
  /\ way' = (IF corner = "none" THEN 0 ELSE AtMost(way + roll, Wrap))
  /\ centred' = (IF OnCentre THEN AtMost(centred + 1, Reacquire) ELSE 0)

HistoryRolls(least) ==
  \E run \in BOOLEAN, sample \in Samples, roll \in least .. MaxRoll :
    Iteration(run, sample, roll) /\ Remember(roll)

HistoryNext == HistoryRolls(0)

HistorySpec == HistoryInit /\ [][HistoryNext]_historyVars

(* A car that rolls now and then, in a race that is not stopped for ever.  *)
HistoryFairSpec == HistorySpec /\ WF_historyVars(HistoryRolls(1))

-----------------------------------------------------------------------------
(* A corner is taken to the side of the last branch, seen on this stretch  *)
(* of line and fewer than HintHold valid samples ago: never by a hint of   *)
(* the corner before, or of the race before it was stopped.                *)
CornerFollowsBranch ==
  [][corner = "none" /\ corner' # "none"
       => corner' = branch' /\ age' < HintHold]_historyVars

(* "Advance by encoder distance after losing the line": the car begins to  *)
(* turn within one period's roll of the same place.                        *)
TurnsAtThePlace ==
  [][~turning /\ turning'
       => way' >= EntryDistance /\ way' < EntryDistance + MaxRoll]_historyVars

(* The car drives on from a corner only with the line under its centre in  *)
(* Reacquire samples one after the other.                                  *)
EndsOnLine ==
  [][corner # "none" /\ corner' = "none" /\ drive' # "stop"
       => centred' = Reacquire]_historyVars

(* Corners are taken to the right side, at the right place, up to the line. *)
CornersAreTaken == CornerFollowsBranch /\ TurnsAtThePlace /\ EndsOnLine
=============================================================================
