---------------------------- MODULE MCEarlierCar ----------------------------
(***************************************************************************)
(* The earlier car: the DMA of its motion sensor, and its right-angle      *)
(* corners.  They share no variable, so one of them moves in a behaviour.  *)
(* Three failures are enough for one at each call of a start and one of    *)
(* the transfer itself, or for a retried init and two of them.  The        *)
(* counters of the corners are short, the way into one takes two periods   *)
(* or more.                                                                *)
(***************************************************************************)
EXTENDS ImuDma, CornerHistory

VARIABLE part

Sensing   == part = "imu" /\ UNCHANGED <<part, historyVars>>
Following == part = "corners" /\ UNCHANGED <<part, vars>>

MCInit == part \in {"imu", "corners"} /\ Init /\ HistoryInit

MCNext ==
  \/ Sensing /\ Next
  \/ Following /\ HistoryNext

MCSpec ==
  /\ MCInit
  /\ [][MCNext]_<<vars, historyVars, part>>
  /\ WF_vars(Sensing /\ Task) /\ WF_vars(Sensing /\ Int1Irq)
  /\ WF_vars(Sensing /\ TransferEnds) /\ WF_vars(Sensing /\ DmaIrq)
  /\ WF_historyVars(Following /\ HistoryRolls(1))

(* Whatever failed, a task that comes to be on time converts frames again. *)
FramesKeepOn == part = "imu" => FramesKeepComing
=============================================================================
