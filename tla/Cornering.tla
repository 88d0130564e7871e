----------------------------- MODULE Cornering -----------------------------
(***************************************************************************)
(* The right-angle corners of the earlier car (STM32): StartcontrolTask    *)
(* with its hint, its entry by distance, its turn and its timeout.  One    *)
(* action is one period of the task: the race state, the line and the      *)
(* encoders are each read once in it.                                      *)
(*                                                                         *)
(* The masks of the code part the seven sensors into left, centre and      *)
(* right; a sample is the parts that see the line, or all seven sensors.   *)
(* The speed loop, the keys and the road are external.                     *)
(***************************************************************************)
EXTENDS Integers

CONSTANTS
  HintHold,       (* CORNER_HINT_HOLD_CYCLES                               *)
  EntryDistance,  (* CORNER_ENTRY_DISTANCE_MM                              *)
  MinTurn,        (* CORNER_MIN_TURN_CYCLES                                *)
  Reacquire,      (* CORNER_REACQUIRE_CYCLES                               *)
  Timeout,        (* CORNER_TIMEOUT_CYCLES                                 *)
  MaxRoll         (* bound: the way the car rolls in one period            *)

ASSUME CorneringAssumption ==
  /\ HintHold \in Nat \ {0} /\ EntryDistance \in Nat \ {0} /\ MinTurn \in Nat
  /\ Reacquire \in Nat \ {0} /\ Timeout \in Nat \ {0} /\ MaxRoll \in Nat \ {0}

VARIABLES
  running, line, road,             (* read: race state, sample, odometer   *)
  corner, hint, hold,              (* corner_state, corner_hint and its    *)
                                   (* hold                                 *)
  cycles, turnCycles, reacquired,  (* corner_cycles, corner_turn_cycles,   *)
                                   (* corner_reacquire_count               *)
  turning, entry,                  (* corner_turn_started, entry odometer  *)
  drive                            (* what the chassis is asked for        *)

cornerVars == <<running, line, road, corner, hint, hold,
                cycles, turnCycles, reacquired, turning, entry, drive>>

Areas == {"left", "centre", "right"}
Samples == [seen : SUBSET Areas, full : {FALSE}] \cup {[seen |-> Areas, full |-> TRUE]}

Status(l) == IF l.seen = {} THEN "LOST" ELSE IF l.full THEN "FULL" ELSE "OK"

(* detect_corner_hint *)
Branch(l) ==
  IF "left" \in l.seen /\ "right" \notin l.seen THEN "left"
  ELSE IF "right" \in l.seen /\ "left" \notin l.seen THEN "right"
  ELSE "none"

(* The odometer repeats itself behind every way that is compared. *)
Wrap == EntryDistance + MaxRoll + 1

-----------------------------------------------------------------------------
(***************************************************************************)
(* Counters and hints                                                      *)
(***************************************************************************)
NoCounters == cycles' = 0 /\ turnCycles' = 0 /\ reacquired' = 0 /\ turning' = FALSE

(* Mutant: the hint survives. *)
ForgetKeepsHint == corner' = "none" /\ NoCounters /\ UNCHANGED <<hint, hold, entry>>

Forget ==
  /\ corner' = "none" /\ hint' = "none" /\ hold' = 0
  /\ NoCounters
  /\ UNCHANGED entry

UpdateHint ==
  IF Status(line') # "OK" THEN UNCHANGED <<hint, hold>>
  ELSE IF Branch(line') # "none"
  THEN hint' = Branch(line') /\ hold' = HintHold
  ELSE /\ hold' = (IF hold > 0 THEN hold - 1 ELSE 0)
       /\ hint' = (IF hold > 1 THEN hint ELSE "none")

-----------------------------------------------------------------------------
(***************************************************************************)
(* The corner                                                              *)
(***************************************************************************)
(* Mutant: the odometer of the corner before is compared. *)
BeginCornerOldEntry ==
  /\ corner = "none"
  /\ UpdateHint
  /\ Status(line') = "LOST" /\ hint' # "none" /\ hold' > 0
  /\ corner' = hint'
  /\ NoCounters
  /\ UNCHANGED <<entry, drive>>

(* The chassis keeps its targets for one more period. *)
BeginCorner ==
  /\ corner = "none"
  /\ UpdateHint
  /\ Status(line') = "LOST" /\ hint' # "none" /\ hold' > 0
  /\ corner' = hint'
  /\ NoCounters
  /\ entry' = road'
  /\ UNCHANGED drive

(* corner_cycles, which only the timeout is compared with. *)
Counted == IF cycles < Timeout THEN cycles + 1 ELSE Timeout

Ahead == ~turning /\ (road' - entry) % Wrap < EntryDistance

EnterCorner ==
  /\ corner # "none" /\ Ahead
  /\ cycles' = Counted
  /\ drive' = "straight"
  /\ UNCHANGED <<corner, hint, hold, turnCycles, reacquired, turning, entry>>

(* corner_turn_cycles, which only the minimum is compared with. *)
Turned ==
  IF ~turning THEN 1 ELSE IF turnCycles < MinTurn THEN turnCycles + 1 ELSE turnCycles
OnCentre == Status(line') = "OK" /\ "centre" \in line'.seen

(* Mutant: samples without the line do not count back. *)
CentredScattered == IF Turned >= MinTurn /\ OnCentre THEN reacquired + 1 ELSE reacquired

Centred == IF Turned >= MinTurn /\ OnCentre THEN reacquired + 1 ELSE 0

(* Mutant: the timeout is left out. *)
LateNever == FALSE

Late == Counted >= Timeout

GiveUp ==
  /\ corner # "none" /\ ~Ahead /\ Centred < Reacquire /\ Late
  /\ drive' = "stop"
  /\ Forget

FindLine ==
  /\ corner # "none" /\ ~Ahead /\ Centred >= Reacquire
  /\ drive' = "straight"
  /\ Forget

TurnOn ==
  /\ corner # "none" /\ ~Ahead /\ Centred < Reacquire /\ ~Late
  /\ drive' = corner
  /\ turning' = TRUE
  /\ cycles' = Counted /\ turnCycles' = Turned /\ reacquired' = Centred
  /\ UNCHANGED <<corner, hint, hold, entry>>

-----------------------------------------------------------------------------
(***************************************************************************)
(* The line                                                                *)
(***************************************************************************)
Corners == <<corner, cycles, turnCycles, reacquired, turning, entry>>

FollowLine ==
  /\ corner = "none"
  /\ UpdateHint
  /\ Status(line') = "OK"
  /\ drive' = "follow"
  /\ UNCHANGED Corners

(* LOST without a hint, and FULL. *)
StopWithoutLine ==
  /\ corner = "none"
  /\ UpdateHint
  /\ Status(line') # "OK"
  /\ ~ (Status(line') = "LOST" /\ hint' # "none" /\ hold' > 0)
  /\ drive' = "stop"
  /\ UNCHANGED Corners

Pause == drive' = "stop" /\ Forget

Iteration(run, sample, roll) ==
  /\ running' = run
  /\ line' = sample
  /\ road' = (road + roll) % Wrap
  /\ \/ ~run /\ Pause
     \/ /\ run
        /\ \/ BeginCorner \/ EnterCorner \/ TurnOn \/ FindLine \/ GiveUp
           \/ FollowLine \/ StopWithoutLine

CornerInit ==
  /\ running = FALSE /\ line = [seen |-> {}, full |-> FALSE] /\ road = 0
  /\ corner = "none" /\ hint = "none" /\ hold = 0
  /\ cycles = 0 /\ turnCycles = 0 /\ reacquired = 0
  /\ turning = FALSE /\ entry = 0 /\ drive = "stop"

Rolls(least) ==
  \E run \in BOOLEAN, sample \in Samples, roll \in least .. MaxRoll :
    Iteration(run, sample, roll)

CornerNext == Rolls(0)

CornerSpec == CornerInit /\ [][CornerNext]_cornerVars

-----------------------------------------------------------------------------
CornerTypeOK ==
  /\ running \in BOOLEAN /\ line \in Samples /\ road \in 0 .. (Wrap - 1)
  /\ corner \in {"none", "left", "right"} /\ hint \in {"none", "left", "right"}
  /\ hold \in 0 .. HintHold /\ (hint = "none" <=> hold = 0)
  /\ cycles \in 0 .. Timeout /\ turnCycles \in 0 .. (MinTurn + 1)
  /\ reacquired \in 0 .. (Reacquire - 1)
  /\ turning \in BOOLEAN /\ entry \in 0 .. (Wrap - 1)
  /\ drive \in {"stop", "straight", "left", "right", "follow"}

(* A corner comes to its end: by the line, by the timeout or by the keys.  *)
(* The way into it has no timeout, so this holds only while the car rolls. *)
CornerEnds == corner # "none" ~> corner = "none"

(* A car whose line is gone for good does not drive on without it, corner  *)
(* or not.                                                                 *)
StopsWithoutLine ==
  <>[](Status(line) = "LOST" /\ running) => <>[](drive = "stop")

(* A corner ends, and so does a drive without a line.                      *)
CornersEnd == CornerEnds /\ StopsWithoutLine
=============================================================================
