----------------------------- MODULE LineSensor -----------------------------
(***************************************************************************)
(* The line sensors: BspLineSensor_ReadRawMask with its vote over three    *)
(* samples, LineTracker_Update, and the snapshot AppLineFollow_RunOnce     *)
(* publishes for the control task.  The task runs to its end under a lock  *)
(* where it publishes, so one action is one period.                        *)
(*                                                                         *)
(* The floor is external: a line wider than the distance of two sensors    *)
(* that moves by at most one sensor a period, a gap, a bar across; and one *)
(* sensor may read wrong, once in any three samples.                       *)
(***************************************************************************)
EXTENDS Integers, Sequences, FiniteSets, FiniteSetsExt

CONSTANTS
  SensorCount,   (* LINE_TRACKER_SENSOR_COUNT                              *)
  MaxWidth,      (* the most sensors a line covers; the least is 2         *)
  ActiveLow,     (* a sensor on the line reads low                         *)
  QuietStart     (* the very first sample is not disturbed                 *)

ASSUME LineSensorAssumption ==
  /\ SensorCount \in Nat /\ MaxWidth \in 2 .. (SensorCount - 2)
  /\ ActiveLow \in BOOLEAN /\ QuietStart \in BOOLEAN

VARIABLES
  history1, history2, voted,              (* g_raw_history_1, _2, g_history_initialized *)
  raw, active, position, error, status,   (* the tracker, and the snapshot *)
  under,       (* what was under the sensors, the last three samples,      *)
               (* latest first                                             *)
  calm         (* samples since the last disturbed one, at most 2          *)

vote == <<history1, history2, voted>>
tracker == <<raw, active, position, error, status>>
sensorVars == <<vote, tracker, under, calm>>

Sensors == 1 .. SensorCount
Centre == ((SensorCount + 1) * 1000) \div 2

(***************************************************************************)
(* The floor                                                               *)
(***************************************************************************)
Line(lo, hi) == [lo |-> lo, hi |-> hi]
Gap == Line(1, 0)
Bar == Line(1, SensorCount)

(* A line on its way over an edge is still a line. *)
Lines ==
  {l \in [lo : (1 - MaxWidth) .. (SensorCount + 1), hi : 0 .. (SensorCount + MaxWidth)] :
     l.hi - l.lo + 1 \in 2 .. MaxWidth}

Covered(l) == Sensors \cap (l.lo .. l.hi)

Near(l, k, distance) ==
  l \in Lines /\ k \in Lines
    => /\ l.lo - k.lo \in (-distance) .. distance
       /\ l.hi - k.hi \in (-distance) .. distance

MayFollow(l) == \A i \in 1 .. Min({Len(under), 2}) : Near(l, under[i], i)

(* What the pins read: at most one sensor disturbed. *)
Pins(l, disturbed) ==
  LET dark == (Covered(l) \cup disturbed) \ (Covered(l) \cap disturbed)
  IN  IF ActiveLow THEN Sensors \ dark ELSE dark

(***************************************************************************)
(* The code                                                                *)
(***************************************************************************)
(* Mutant: the oldest sample has no vote against the others' agreement. *)
MajorityLatest(a, b, c) == a \cup (b \cap c)

Majority(a, b, c) == (a \cap b) \cup (a \cap c) \cup (b \cap c)

(* Mutant: the older sample is kept for ever. *)
ReadRawMaskStuck(pins) ==
  LET h1 == IF voted = 0 THEN pins ELSE history1
      h2 == IF voted = 0 THEN pins ELSE history2
  IN  /\ raw' = Majority(pins, h1, h2)
      /\ history2' = h2
      /\ history1' = pins
      /\ voted' = 1

(* BspLineSensor_ReadRawMask: the first sample fills the history. *)
ReadRawMask(pins) ==
  LET h1 == IF voted = 0 THEN pins ELSE history1
      h2 == IF voted = 0 THEN pins ELSE history2
  IN  /\ raw' = Majority(pins, h1, h2)
      /\ history2' = h1
      /\ history1' = pins
      /\ voted' = 1

ActiveMask(mask) == IF ActiveLow THEN Sensors \ mask ELSE mask

(* Mutant: the weights begin at zero. *)
AverageFromZero(mask) == SumSet({1000 * (i - 1) : i \in mask}) \div Cardinality(mask)

Average(mask) == SumSet({1000 * i : i \in mask}) \div Cardinality(mask)

(* LineTracker_Update behind the read. *)
Update(mask) ==
  /\ active' = mask
  /\ \/ /\ mask = {}
        /\ position' = 0 /\ error' = 0 /\ status' = "LOST"
     \/ /\ mask = Sensors
        /\ position' = Centre /\ error' = 0 /\ status' = "FULL"
     \/ /\ mask \notin {{}, Sensors}
        /\ position' = Average(mask)
        /\ error' = Average(mask) - Centre
        /\ status' = "OK"

(* AppLineFollow_RunOnce, one period of the task. *)
RunOnce ==
  /\ \E l \in Lines \cup {Gap, Bar}, disturbed \in {{}} \cup {{i} : i \in Sensors} :
       /\ MayFollow(l)
       /\ disturbed # {} => calm = 2 /\ (QuietStart => voted = 1)
       /\ ReadRawMask(Pins(l, disturbed))
       /\ under' = SubSeq(<<l>> \o under, 1, Min({Len(under) + 1, 3}))
       /\ calm' = IF disturbed # {} THEN 0 ELSE Min({calm + 1, 2})
  /\ Update(ActiveMask(raw'))

SensorInit ==
  /\ history1 = {} /\ history2 = {} /\ voted = 0
  /\ raw = {} /\ active = {} /\ position = 0 /\ error = 0 /\ status = "LOST"
  /\ under = << >> /\ calm = 2

SensorNext == RunOnce

SensorSpec == SensorInit /\ [][SensorNext]_sensorVars

(***************************************************************************)
(* Properties                                                              *)
(***************************************************************************)
SensorTypeOK ==
  /\ history1 \subseteq Sensors /\ history2 \subseteq Sensors
  /\ voted \in {0, 1}
  /\ raw \subseteq Sensors /\ active \subseteq Sensors
  /\ position \in {0} \cup 1000 .. (1000 * SensorCount)
  /\ error \in -Centre .. Centre
  /\ status \in {"OK", "LOST", "FULL"}
  /\ Len(under) <= 3 /\ calm \in 0 .. 2

Settled == Len(under) = 3

RecentlyCovered == UNION {Covered(under[i]) : i \in DOMAIN under}

(* The vote "rejects one sample of comparator chatter"                     *)
(* (bsp_line_sensor.c:52): every sensor shown was on the line in one of    *)
(* the last three samples, however a sensor reads once.                    *)
ChatterRejected == active \subseteq RecentlyCovered

(* The vote does not lose a moving line: while a line kept on the sensors  *)
(* in the last three samples, if only with its edge, it is shown as a      *)
(* line, neither lost nor taken for a bar.                                 *)
LineKept ==
  Settled /\ (\A i \in 1 .. 3 : under[i] \in Lines /\ Covered(under[i]) # {})
    => status = "OK"

(* A line that has stood still for three samples is shown as it is, even   *)
(* with one of them disturbed and whatever was seen before.                *)
SteadyLineShown ==
  Settled /\ under[1] = under[2] /\ under[2] = under[3] => active = Covered(under[1])

(* A bar is reported only when it was there in two of the three samples:   *)
(* neither one sample of it nor a fast line looks like a bar.              *)
BarConfirmed ==
  Settled /\ status = "FULL" => Cardinality({i \in 1 .. 3 : under[i] = Bar}) >= 2

(* The position of a line lies between the sensors it covered of late.     *)
PositionOnLine ==
  status = "OK" => /\ \E i \in RecentlyCovered : 1000 * i <= position
                   /\ \E i \in RecentlyCovered : position <= 1000 * i

(* What the control task is shown is the line under the sensors.           *)
LineIsShown ==
  ChatterRejected /\ LineKept /\ SteadyLineShown /\ BarConfirmed /\ PositionOnLine
=============================================================================
