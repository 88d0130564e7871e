-------------------------- MODULE EarlierCarProofs --------------------------
(***************************************************************************)
(* The earlier car: its right-angle corners, for every tuning of their     *)
(* counters and distances, and the DMA protocol of its IMU task, for any   *)
(* number of failures and with or without overrunning iterations.          *)
(***************************************************************************)
EXTENDS ImuDma, CornerHistory, TLAPS

(***************************************************************************)
(* The corners                                                             *)
(***************************************************************************)
HistoryTypeOK ==
  /\ branch \in {"none", "left", "right"} /\ age \in 0 .. HintHold
  /\ way \in 0 .. Wrap /\ centred \in 0 .. Reacquire

(* A hint that is held is the last branch, and its hold tells its age.     *)
HintTellsBranch ==
  corner = "none" /\ hold > 0 => hint = branch /\ age = HintHold - hold

(* On the way into a corner the odometer tells how far the car has come.   *)
WayIsMeasured ==
  corner # "none" /\ ~turning
    => way < EntryDistance /\ (road - entry) % Wrap = way

(* The count of samples on the line is of the latest ones.                 *)
CountIsRecent ==
  /\ reacquired <= centred
  /\ ~turning => reacquired = 0
  /\ corner = "none" => ~turning

CornerInv ==
  /\ CornerTypeOK /\ HistoryTypeOK
  /\ HintTellsBranch /\ WayIsMeasured /\ CountIsRecent

(* An odometer that repeats itself, within one turn of it.                 *)
LEMMA ModuloOnce ==
  ASSUME NEW w \in Nat \ {0}, NEW x \in Int, x >= -w, x < 2 * w
  PROVE  /\ x % w \in 0 .. (w - 1)
         /\ x < 0 => x % w = x + w
         /\ 0 <= x /\ x < w => x % w = x
         /\ w <= x => x % w = x - w
<1> DEFINE q == x \div w
           r == x % w
<1>1. q \in Int /\ r \in 0 .. (w - 1) /\ x = w * q + r
  BY SMT
<1> HIDE DEF q, r
<1>2. q < 2
  <2> SUFFICES ASSUME q >= 2
               PROVE  FALSE
    BY <1>1
  <2>1. w * q >= w * 2
    BY <1>1, SMT
  <2> QED
    BY <1>1, <2>1
<1>3. q > -2
  <2> SUFFICES ASSUME q <= -2
               PROVE  FALSE
    BY <1>1
  <2>1. w * q <= w * (-2)
    BY <1>1, SMT
  <2> QED
    BY <1>1, <2>1
<1>4. q = -1 \/ q = 0 \/ q = 1
  BY <1>1, <1>2, <1>3
<1>5. CASE q = -1
  BY <1>1, <1>5 DEF r
<1>6. CASE q = 0
  BY <1>1, <1>6 DEF r
<1>7. CASE q = 1
  BY <1>1, <1>7 DEF r
<1> QED
  BY <1>4, <1>5, <1>6, <1>7

(* A roll adds to the way, as long as the sum is shorter than the wrap.    *)
LEMMA RollAdds ==
  ASSUME NEW w \in Nat \ {0}, NEW from \in 0 .. (w - 1), NEW at \in 0 .. (w - 1),
         NEW roll \in Nat, ((at - from) % w) + roll < w
  PROVE  /\ (at + roll) % w \in 0 .. (w - 1)
         /\ (((at + roll) % w) - from) % w = ((at - from) % w) + roll
<1> DEFINE gap == at - from
           sum == at + roll
           to == sum % w
           back == to - from
<1>1. gap \in Int /\ gap >= -w /\ gap < w /\ gap < 2 * w
  OBVIOUS
<1>2. gap % w \in 0 .. (w - 1) /\ gap % w = (IF gap < 0 THEN gap + w ELSE gap)
  <2> HIDE DEF gap
  <2>1. /\ gap % w \in 0 .. (w - 1)
        /\ gap < 0 => gap % w = gap + w
        /\ 0 <= gap /\ gap < w => gap % w = gap
    BY <1>1, ModuloOnce, Zenon
  <2> QED
    BY <1>1, <2>1
<1>3. sum \in Int /\ sum >= -w /\ sum < 2 * w /\ sum >= 0
  <2>1. roll < w
    BY <1>2
  <2> QED
    BY <2>1
<1>4. to \in 0 .. (w - 1) /\ to = (IF sum < w THEN sum ELSE sum - w)
  <2> HIDE DEF sum
  <2>1. /\ sum % w \in 0 .. (w - 1)
        /\ 0 <= sum /\ sum < w => sum % w = sum
        /\ w <= sum => sum % w = sum - w
    BY <1>3, ModuloOnce, Zenon
  <2> QED
    BY <1>3, <2>1
<1>5. back \in Int /\ back >= -w /\ back < w /\ back < 2 * w
  <2> HIDE DEF to
  <2> QED
    BY <1>4
<1>6. back % w = (IF back < 0 THEN back + w ELSE back)
  <2> HIDE DEF back
  <2>1. /\ back < 0 => back % w = back + w
        /\ 0 <= back /\ back < w => back % w = back
    BY <1>5, ModuloOnce, Zenon
  <2> QED
    BY <1>5, <2>1
<1>7. (IF back < 0 THEN back + w ELSE back) = (IF gap < 0 THEN gap + w ELSE gap) + roll
  <2>1. (IF gap < 0 THEN gap + w ELSE gap) + roll < w
    BY <1>2
  <2> HIDE DEF to
  <2> QED
    BY <1>4, <2>1
<1> QED
  BY <1>2, <1>4, <1>6, <1>7

LEMMA CornerInitInv == HistoryInit => CornerInv
<1> SUFFICES ASSUME HistoryInit
             PROVE  CornerInv
  OBVIOUS
<1> USE CorneringAssumption DEF HistoryInit, CornerInit
<1>1. line \in Samples
  BY DEF Samples, Areas
<1>2. CornerTypeOK /\ HistoryTypeOK
  <2>1. running \in BOOLEAN /\ turning \in BOOLEAN
    OBVIOUS
  <2> QED
    BY <1>1, <2>1 DEF CornerTypeOK, HistoryTypeOK, Wrap
<1> QED
  BY <1>2 DEF CornerInv, HintTellsBranch, WayIsMeasured, CountIsRecent

(* The counters of a corner that is over.                                  *)
LEMMA NoCountersType ==
  ASSUME NoCounters
  PROVE  /\ cycles' \in 0 .. Timeout /\ turnCycles' \in 0 .. (MinTurn + 1)
         /\ reacquired' \in 0 .. (Reacquire - 1) /\ turning' \in BOOLEAN
<1>1. turning' \in BOOLEAN
  BY DEF NoCounters
<1> QED
  BY <1>1, CorneringAssumption DEF NoCounters

(* What an iteration reads, and what the history makes of it.              *)
LEMMA CornerStep ==
  ASSUME CornerInv, NEW run \in BOOLEAN, NEW now \in Samples, NEW roll \in 0 .. MaxRoll,
         Iteration(run, now, roll), Remember(roll)
  PROVE  /\ CornerInv'
         /\ corner = "none" /\ corner' # "none" => corner' = branch' /\ age' < HintHold
         /\ ~turning /\ turning' => way' >= EntryDistance /\ way' < EntryDistance + MaxRoll
         /\ corner # "none" /\ corner' = "none" /\ drive' # "stop" => centred' = Reacquire
<1> USE CorneringAssumption
<1>1. running' \in BOOLEAN /\ line' \in Samples /\ running' = run
  BY DEF Iteration
<1>2. /\ Wrap \in Nat \ {0} /\ road \in 0 .. (Wrap - 1) /\ entry \in 0 .. (Wrap - 1)
      /\ EntryDistance + MaxRoll < Wrap /\ roll \in Nat /\ roll <= MaxRoll
      /\ road' = (road + roll) % Wrap
  BY DEF Iteration, CornerInv, CornerTypeOK, Wrap
<1>3. road' \in 0 .. (Wrap - 1)
  BY <1>2, SMT
<1>4. Branch(line') \in {"none", "left", "right"} /\ OnCentre \in BOOLEAN
  BY DEF Branch, OnCentre
<1>5. HistoryTypeOK'
  BY <1>2, <1>4 DEF Remember, AtMost, CornerInv, HistoryTypeOK
<1>6. centred' = (IF OnCentre THEN AtMost(centred + 1, Reacquire) ELSE 0)
  BY DEF Remember
<1>7. corner # "none" /\ ~turning
        => /\ (road' - entry) % Wrap = way + roll
           /\ way' = way + roll /\ way + roll < EntryDistance + MaxRoll
  <2> SUFFICES ASSUME corner # "none", ~turning
               PROVE  /\ (road' - entry) % Wrap = way + roll
                      /\ way' = way + roll /\ way + roll < EntryDistance + MaxRoll
    OBVIOUS
  <2>1. way \in Nat /\ way < EntryDistance /\ (road - entry) % Wrap = way
    BY DEF CornerInv, HistoryTypeOK, WayIsMeasured
  <2>2. way + roll < Wrap /\ way + roll < EntryDistance + MaxRoll
    BY <1>2, <2>1
  <2>3. (((road + roll) % Wrap) - entry) % Wrap = ((road - entry) % Wrap) + roll
    <3>1. ((road - entry) % Wrap) + roll < Wrap
      BY <2>1, <2>2
    <3>2. /\ Wrap \in Nat \ {0} /\ entry \in 0 .. (Wrap - 1)
          /\ road \in 0 .. (Wrap - 1) /\ roll \in Nat
      BY <1>2
    <3> QED
      BY ONLY <3>1, <3>2, RollAdds, Zenon
  <2> QED
    BY <1>2, <2>1, <2>2, <2>3 DEF Remember, AtMost
<1> USE DEF CornerInv, CornerTypeOK
<1>8. CASE Pause \/ GiveUp
  <2>1. corner' = "none" /\ hold' = 0 /\ hint' = "none" /\ drive' = "stop" /\ entry' = entry /\ NoCounters
    BY <1>8 DEF Pause, GiveUp, Forget
  <2>2. CornerTypeOK'
    BY <1>1, <1>2, <1>3, <2>1, NoCountersType
  <2> QED
    BY <1>5, <2>1, <2>2
    DEF NoCounters, HistoryTypeOK, HintTellsBranch, WayIsMeasured, CountIsRecent
<1>9. CASE FindLine
  <2>1. corner' = "none" /\ hold' = 0 /\ hint' = "none" /\ drive' = "straight" /\ entry' = entry /\ NoCounters
    BY <1>9 DEF FindLine, Forget
  <2>2. CornerTypeOK'
    BY <1>1, <1>2, <1>3, <2>1, NoCountersType
  <2>3. centred' = Reacquire
    <3>1. OnCentre /\ reacquired + 1 >= Reacquire
      BY <1>9 DEF FindLine, Centred
    <3> QED
      BY <1>6, <3>1 DEF HistoryTypeOK, CountIsRecent, AtMost
  <2> QED
    BY <1>5, <2>1, <2>2, <2>3
    DEF NoCounters, HistoryTypeOK, HintTellsBranch, WayIsMeasured, CountIsRecent
<1>10. CASE TurnOn
  <2>1. /\ corner # "none" /\ UNCHANGED <<corner, hint, hold, entry>>
        /\ turning' = TRUE /\ drive' = corner
        /\ cycles' = Counted /\ turnCycles' = Turned /\ reacquired' = Centred
        /\ Centred < Reacquire
    BY <1>10 DEF TurnOn
  <2>2. Counted \in 0 .. Timeout /\ Turned \in 0 .. (MinTurn + 1) /\ Centred \in 0 .. (Reacquire - 1)
    BY <2>1 DEF Counted, Turned, Centred
  <2>3. CornerTypeOK'
    BY <1>1, <1>3, <2>1, <2>2
  <2>4. ~turning => way' >= EntryDistance /\ way' < EntryDistance + MaxRoll
    BY <1>2, <1>7, <1>10 DEF TurnOn, Ahead
  <2>5. reacquired' <= centred'
    BY <1>6, <2>1 DEF Centred, CountIsRecent, HistoryTypeOK, AtMost
  <2> QED
    BY <1>5, <2>1, <2>3, <2>4, <2>5 DEF HintTellsBranch, WayIsMeasured, CountIsRecent
<1>11. CASE EnterCorner
  <2>1. /\ corner # "none" /\ ~turning /\ (road' - entry) % Wrap < EntryDistance
        /\ cycles' = Counted /\ drive' = "straight"
        /\ UNCHANGED <<corner, hint, hold, turnCycles, reacquired, turning, entry>>
    BY <1>11 DEF EnterCorner, Ahead
  <2>2. Counted \in 0 .. Timeout
    BY DEF Counted
  <2>3. CornerTypeOK'
    BY <1>1, <1>3, <2>1, <2>2
  <2>4. WayIsMeasured'
    BY <1>7, <2>1 DEF WayIsMeasured
  <2> QED
    BY <1>5, <2>1, <2>3, <2>4 DEF HintTellsBranch, CountIsRecent, HistoryTypeOK
<1>12. CASE corner = "none" /\ run /\ UpdateHint
  <2>1. corner' # "none" => Status(line') # "OK"
    BY <1>1, <1>12
    DEF Iteration, BeginCorner, EnterCorner, TurnOn, FindLine, GiveUp, FollowLine,
        StopWithoutLine, Corners
  <2>2. /\ hold' \in 0 .. HintHold /\ hint' \in {"none", "left", "right"}
        /\ hint' = "none" <=> hold' = 0
    BY <1>4, <1>12 DEF UpdateHint
  <2>3. hold' > 0 => hint' = branch' /\ age' = HintHold - hold'
    <3>1. CASE Status(line') # "OK"
      BY <1>1, <1>12, <3>1 DEF UpdateHint, Remember, HintTellsBranch
    <3>2. CASE Status(line') = "OK" /\ Branch(line') # "none"
      BY <1>1, <1>12, <3>2 DEF UpdateHint, Remember
    <3>3. CASE Status(line') = "OK" /\ Branch(line') = "none"
      BY <1>1, <1>12, <3>3 DEF UpdateHint, Remember, HintTellsBranch, AtMost
    <3> QED
      BY <3>1, <3>2, <3>3
  <2>4. CASE BeginCorner
    <3>1. /\ corner' = hint' /\ hint' # "none" /\ hold' > 0 /\ NoCounters
          /\ entry' = road' /\ drive' = drive
      BY <2>4 DEF BeginCorner
    <3>2. way' = 0 /\ (road' - entry') % Wrap = 0
      BY <1>2, <1>3, <1>12, <3>1, ModuloOnce DEF Remember
    <3>3. CornerTypeOK'
      BY <1>1, <1>3, <2>2, <3>1, NoCountersType
    <3>4. HintTellsBranch' /\ WayIsMeasured' /\ CountIsRecent'
      BY <1>5, <2>3, <3>1, <3>2
      DEF NoCounters, HintTellsBranch, WayIsMeasured, CountIsRecent, HistoryTypeOK
    <3>5. age' < HintHold /\ corner' = branch'
      <4>1. \A h, n \in Nat : h > 0 => n - h < n
        OBVIOUS
      <4>2. /\ hold' \in Nat /\ hold' > 0 /\ HintHold \in Nat
            /\ age' = HintHold - hold' /\ corner' = branch'
        BY <2>2, <2>3, <3>1
      <4> QED
        BY <4>1, <4>2, Zenon
    <3> QED
      BY <1>5, <1>12, <3>1, <3>3, <3>4, <3>5 DEF NoCounters
  <2>5. CASE FollowLine \/ StopWithoutLine
    <3>1. UNCHANGED Corners /\ drive' \in {"follow", "stop"}
      BY <2>5 DEF FollowLine, StopWithoutLine
    <3>2. CornerTypeOK'
      BY <1>1, <1>3, <2>2, <3>1 DEF Corners
    <3>3. HintTellsBranch' /\ WayIsMeasured' /\ CountIsRecent'
      BY <1>5, <1>12, <2>3, <3>1
      DEF Corners, HintTellsBranch, WayIsMeasured, CountIsRecent, HistoryTypeOK
    <3> QED
      BY <1>5, <1>12, <3>1, <3>2, <3>3 DEF Corners
  <2> QED
    BY <1>1, <1>12, <2>4, <2>5
    DEF Iteration, EnterCorner, TurnOn, FindLine, GiveUp
<1> QED
  BY <1>1, <1>8, <1>9, <1>10, <1>11, <1>12
  DEF Iteration, BeginCorner, FollowLine, StopWithoutLine

THEOREM CornerInvariance == HistorySpec => []CornerInv
<1>1. CornerInv /\ [HistoryNext]_historyVars => CornerInv'
  <2> SUFFICES ASSUME CornerInv, [HistoryNext]_historyVars
               PROVE  CornerInv'
    OBVIOUS
  <2>1. CASE HistoryNext
    BY <2>1, CornerStep DEF HistoryNext, HistoryRolls
  <2>2. CASE UNCHANGED historyVars
    BY <2>2
    DEF historyVars, cornerVars, CornerInv, CornerTypeOK, HistoryTypeOK, HintTellsBranch,
        WayIsMeasured, CountIsRecent
  <2> QED
    BY <2>1, <2>2
<1> QED
  BY <1>1, CornerInitInv, PTL DEF HistorySpec

(* For every tuning a corner is taken to the side of the last branch of    *)
(* this stretch of line, turned into within one period's roll of the entry *)
(* distance, and left towards the line only with the line under the centre *)
(* in Reacquire samples one after the other (control_task.c:100-240)       *)
THEOREM CornersAreRight == HistorySpec => CornersAreTaken
<1> DEFINE Followed == corner = "none" /\ corner' # "none" => corner' = branch' /\ age' < HintHold
           Placed == ~turning /\ turning' => way' >= EntryDistance /\ way' < EntryDistance + MaxRoll
           Landed == corner # "none" /\ corner' = "none" /\ drive' # "stop" => centred' = Reacquire
<1>1. CornerInv /\ [HistoryNext]_historyVars
        => [Followed]_historyVars /\ [Placed]_historyVars /\ [Landed]_historyVars
  <2> SUFFICES ASSUME CornerInv, HistoryNext
               PROVE  Followed /\ Placed /\ Landed
    OBVIOUS
  <2> QED
    BY CornerStep DEF HistoryNext, HistoryRolls
<1> QED
  BY <1>1, CornerInvariance, PTL
  DEF HistorySpec, CornersAreTaken, CornerFollowsBranch, TurnsAtThePlace, EndsOnLine

-------------------------------------------------------------------------------
(***************************************************************************)
(* The motion sensor                                                       *)
(***************************************************************************)
Starting == {"unready", "start", "undo"}

(* Who owns the bus: the callback is armed exactly while the engine has a  *)
(* transfer, and such a transfer has nothing completed beside it.          *)
Owner ==
  /\ active = 1 <=> engine # "idle"
  /\ engine # "idle" => /\ pc \in {"take", "check", "snapshot", "sleep"}
                        /\ dma_complete = 0
  /\ dma_busy = 1 <=> (engine # "idle" \/ pc \in Starting)
  /\ cs = 0 <=> (engine # "idle" \/ pc \in {"address", "arm"} \cup Starting)

(* A completed frame lies whole in dma_raw until it is taken. *)
FrameWaits ==
  /\ engine = "done" => raw = "whole"
  /\ dma_complete = 1 /\ dma_status = 0 => raw = "whole"
  /\ pc \in {"config", "retry", "format"} => dma_complete = 0 /\ engine = "idle"
  /\ pc = "format" => raw = "whole"
  /\ pc \in Starting => dma_complete = 0

(* With every iteration on time a transfer ends while the task sleeps, and *)
(* its frame is taken next.                                                *)
OnTime ==
  Overrun = 0 => /\ engine # "idle" => pc \in {"snapshot", "sleep"}
                 /\ dma_complete = 1 => pc \in {"snapshot", "sleep", "take"}

(* A transfer begins only for an announced sample, which int1 alone may    *)
(* replace until data_ready is cleared.                                    *)
Announced == pc \in {"address", "arm", "unready"} => data_ready = 1

TransferInv ==
  TypeOK /\ Owner /\ FrameWaits /\ OnTime /\ Announced /\ NewestSampleIsKept

USE ImuAssumption DEF Steps, Resting, Engine, Frames, Places, Results, Starting

(* The invariant holds when the task starts. *)
LEMMA TransferInitInv == Init => TransferInv
BY SMT DEF Init, TransferInv, TypeOK, Owner, FrameWaits, OnTime, Announced,
           NewestSampleIsKept

(* Every step of the task and of the interrupts keeps the types. *)
LEMMA StepTypeOK == TypeOK /\ [Next]_vars => TypeOK'
<1> SUFFICES ASSUME TypeOK, [Next]_vars
             PROVE  TypeOK'
    OBVIOUS
<1> USE DEF TypeOK, device, flags, Fault, Fine
<1>1. CASE BeginInit
      BY <1>1, SMTT(30) DEF BeginInit
<1>2. CASE InitFails
      BY <1>2, SMTT(30) DEF InitFails, UpdateSnapshot
<1>3. CASE Retry
      BY <1>3, SMTT(30) DEF Retry
<1>4. CASE InitSucceeds
      BY <1>4, SMTT(30) DEF InitSucceeds, UpdateSnapshot
<1>5. CASE Take
      BY <1>5, SMTT(30) DEF Take
<1>6. CASE Format
      BY <1>6, SMTT(30) DEF Format
<1>7. CASE Check
      BY <1>7, SMTT(30) DEF Check
<1>8. CASE SendAddress
      BY <1>8, SMTT(30) DEF SendAddress
<1>9. CASE Arm
      BY <1>9, SMTT(30) DEF Arm
<1>10. CASE ClearReady
      BY <1>10, SMTT(30) DEF ClearReady
<1>11. CASE StartTransfer
      BY <1>11, SMTT(30) DEF StartTransfer
<1>12. CASE UndoStart
      BY <1>12, SMTT(30) DEF UndoStart
<1>13. CASE Publish
      BY <1>13, SMTT(30) DEF Publish, UpdateSnapshot
<1>14. CASE Wake
      BY <1>14, SMTT(30) DEF Wake
<1>15. CASE Int1Irq
      BY <1>15, SMTT(30) DEF Int1Irq
<1>16. CASE TransferEnds
      BY <1>16, SMTT(30) DEF TransferEnds
<1>17. CASE DmaIrq
      BY <1>17, SMTT(30) DEF DmaIrq
<1>18. CASE UNCHANGED vars
      BY <1>18, SMTT(30) DEF vars
<1> QED
    BY <1>1, <1>2, <1>3, <1>4, <1>5, <1>6, <1>7, <1>8, <1>9, <1>10, <1>11,
       <1>12, <1>13, <1>14, <1>15, <1>16, <1>17, <1>18
       DEF Next, Task, Process

(* Every step keeps the ownership of the bus and the waiting frame. *)
LEMMA TransferStepInv == TransferInv /\ [Next]_vars => TransferInv'
<1> SUFFICES ASSUME TransferInv, [Next]_vars
             PROVE  (Owner /\ FrameWaits /\ OnTime /\ Announced /\ NewestSampleIsKept)'
    BY StepTypeOK DEF TransferInv
<1> USE DEF TransferInv, Owner, FrameWaits, OnTime, Announced, NewestSampleIsKept
<1> USE DEF TypeOK, device, flags, Fault, Fine
<1>1. CASE BeginInit
      BY <1>1, SMTT(30) DEF BeginInit
<1>2. CASE InitFails
      BY <1>2, SMTT(30) DEF InitFails
<1>3. CASE Retry
      BY <1>3, SMTT(30) DEF Retry
<1>4. CASE InitSucceeds
      BY <1>4, SMTT(30) DEF InitSucceeds
<1>5. CASE Take
      BY <1>5, SMTT(30) DEF Take
<1>6. CASE Format
      BY <1>6, SMTT(30) DEF Format
<1>7. CASE Check
      BY <1>7, SMTT(30) DEF Check
<1>8. CASE SendAddress
      BY <1>8, SMTT(30) DEF SendAddress
<1>9. CASE Arm
      BY <1>9, SMTT(30) DEF Arm
<1>10. CASE ClearReady
      BY <1>10, SMTT(30) DEF ClearReady
<1>11. CASE StartTransfer
      BY <1>11, SMTT(30) DEF StartTransfer
<1>12. CASE UndoStart
      BY <1>12, SMTT(30) DEF UndoStart
<1>13. CASE Publish
      BY <1>13, SMTT(30) DEF Publish
<1>14. CASE Wake
      BY <1>14, SMTT(30) DEF Wake
<1>15. CASE Int1Irq
      BY <1>15, SMTT(30) DEF Int1Irq
<1>16. CASE TransferEnds
      BY <1>16, SMTT(30) DEF TransferEnds
<1>17. CASE DmaIrq
      BY <1>17, SMTT(30) DEF DmaIrq
<1>18. CASE UNCHANGED vars
      BY <1>18, SMTT(30) DEF vars
<1> QED
    BY <1>1, <1>2, <1>3, <1>4, <1>5, <1>6, <1>7, <1>8, <1>9, <1>10, <1>11,
       <1>12, <1>13, <1>14, <1>15, <1>16, <1>17, <1>18
       DEF Next, Task, Process

(* The strengthened invariant of the IMU transfer. *)
THEOREM TransferInvariance == Spec => []TransferInv
<1>1. TransferInv /\ [Next]_vars => TransferInv'
      BY TransferStepInv
<1> QED
    BY <1>1, TransferInitInv, PTL DEF Spec

(* What the task converts is a whole new frame no DMA is writing. *)
THEOREM FramesAreNeverTorn == Spec => []FramesAreWhole
<1>1. TransferInv => FramesAreWhole
      BY SMT DEF TransferInv, FrameWaits, FramesAreWhole
<1> QED
    BY <1>1, TransferInvariance, PTL

(* The chip select frames every transfer and is released on every way out. *)
THEOREM SelectIsReleased == Spec => []SelectFramesTransfer
<1>1. TransferInv => SelectFramesTransfer
      BY SMT DEF TransferInv, TypeOK, Owner, SelectFramesTransfer
<1> QED
    BY <1>1, TransferInvariance, PTL

(* The newest sample is announced or about to be read while no frame       *)
(* contains it, and once read its frame is under way, waits whole for the  *)
(* next take, or is replaced by one at least as new; only a transfer that  *)
(* breaks off loses it (module_icm45686.c:293).                            *)
THEOREM NewestSampleStaysKept == Spec => []NewestSampleIsKept
<1>1. TransferInv => NewestSampleIsKept
      BY DEF TransferInv
<1> QED
    BY <1>1, TransferInvariance, PTL

(* Frames are whole, the select frames the transfers, and the newest       *)
(* sample is kept, for any number of failures and iterations that overrun. *)
THEOREM TransfersAreSafe == Spec => []TransferIsSafe
<1>1. FramesAreWhole /\ SelectFramesTransfer /\ NewestSampleIsKept <=> TransferIsSafe
      BY DEF TransferIsSafe
<1> QED
    BY <1>1, FramesAreNeverTorn, SelectIsReleased, NewestSampleStaysKept, PTL

(* While iterations are on time a completed frame is never discarded. *)
THEOREM FramesAreTaken ==
  ASSUME Overrun = 0
  PROVE  Spec => CompletedFrameIsTaken
<1>1. ASSUME TransferInv, [Next]_vars, dma_complete = 1, dma_complete' = 0
      PROVE  pc = "take"
  <2> USE DEF TransferInv, TypeOK, Owner, OnTime, Starting, device, flags
  <2>1. pc \in {"snapshot", "sleep", "take"}
        BY <1>1, SMT
  <2>2. ~ BeginInit /\ ~ Arm
        BY <2>1, SMT DEF BeginInit, Arm
  <2>3. ~ (InitFails \/ Retry \/ InitSucceeds \/ Format \/ Check)
        BY <2>1, SMT DEF InitFails, Retry, InitSucceeds, Format, Check
  <2>4. ~ (SendAddress \/ ClearReady \/ StartTransfer \/ UndoStart)
        BY <2>1, SMT DEF SendAddress, ClearReady, StartTransfer, UndoStart
  <2>5. ~ (Publish \/ Wake \/ Int1Irq \/ TransferEnds \/ UNCHANGED vars)
        BY <1>1, SMT DEF Publish, Wake, Int1Irq, TransferEnds, vars
  <2>6. ~ DmaIrq
        BY <1>1, SMT DEF DmaIrq
  <2> QED
      BY <1>1, <2>2, <2>3, <2>4, <2>5, <2>6, SMT DEF Next, Task, Process, Take
<1>2. ASSUME TransferInv, [Next]_vars
      PROVE  [dma_complete = 1 /\ dma_complete' = 0 => pc = "take"]_vars
      BY <1>1, <1>2
<1> QED
    BY <1>2, TransferInvariance, PTL DEF CompletedFrameIsTaken, Spec
=============================================================================
