------------------------------- MODULE Encoder -------------------------------
(***************************************************************************)
(* The quadrature encoders of bsp_encoder.c.  Both encoders share one GPIO *)
(* interrupt: the handler reads the pending lines, clears them, and then   *)
(* reads the pins of each encoder that had one.  It preempts every task    *)
(* except inside a PRIMASK section; the shafts turn at any time.           *)
(*                                                                         *)
(* Totals are unbounded integers here: int32_t wraps after 2^31 edges.     *)
(***************************************************************************)
EXTENDS Integers

CONSTANTS
  Inverted,  (* the encoders mounted the other way round                   *)
  Reach,     (* bound: the positions each shaft turns between, in edges    *)
  DeltaMax   (* INT16_MAX                                                  *)

Encoders == {"left", "right"}
Lines    == {"A", "B"}

ASSUME EncoderAssumption ==
  /\ Inverted \subseteq Encoders
  /\ \A e \in Encoders : Reach[e] \subseteq Int /\ 0 \in Reach[e]
  /\ DeltaMax \in Nat \ {0}

VARIABLES
  shaft,     (* external: the edges the shaft has turned                   *)
  pending,   (* the lines with a pending interrupt                         *)
  previous,  (* previous_state: the pins at the last update                *)
  total,     (* total_count                                                *)
  last,      (* last_reported_count                                        *)
  isr,       (* the next step of GROUP1_IRQHandler                         *)
  taken,     (* its local pending                                          *)
  masked,    (* PRIMASK, set by the chassis task                           *)
  reading,   (* the encoder ReadDelta is called for                        *)
  step,      (* the next step of ReadDelta                                 *)
  delta,     (* its local delta                                            *)
  reported   (* history: the sum of what it has returned                   *)

isrVars  == <<isr, taken, pending>>
readVars == <<masked, reading, step, delta, reported>>
encoderVars == <<shaft, previous, total, last, isrVars, readVars>>

(* 2 * A + B in the order of a forward turn. *)
Pins(p) == <<0, 2, 3, 1>>[(p % 4) + 1]

EncoderInit ==
  /\ shaft = [e \in Encoders |-> 0]
  /\ pending = {}
  /\ previous = [e \in Encoders |-> Pins(0)]
  /\ total = [e \in Encoders |-> 0]
  /\ last = [e \in Encoders |-> 0]
  /\ isr = "idle"
  /\ taken = {}
  /\ masked = FALSE
  /\ reading = "left"
  /\ step = "idle"
  /\ delta = 0
  /\ reported = [e \in Encoders |-> 0]

(***************************************************************************)
(* The shafts and the pin that changes; both edges of a line interrupt     *)
(***************************************************************************)
Changed(p, q) == IF {Pins(p), Pins(q)} \in {{0, 2}, {1, 3}} THEN "A" ELSE "B"

Sign(e) == IF e \in Inverted THEN -1 ELSE 1

(* External: the handler keeps up with the shaft to within one edge, and   *)
(* fewer edges pass between two reads than a delta can tell (the rated     *)
(* speed is 75 edges in 10 ms).                                            *)
Turn(e, by) ==
  LET to == shaft[e] + by IN
  /\ to \in Reach[e]
  /\ to - Sign(e) * total[e] \in -1 .. 1
  /\ to - Sign(e) * last[e] \in -DeltaMax .. DeltaMax
  /\ shaft' = [shaft EXCEPT ![e] = to]
  /\ pending' = pending \union {<<e, Changed(shaft[e], to)>>}
  /\ UNCHANGED <<previous, total, last, isr, taken, readVars>>

(***************************************************************************)
(* GROUP1_IRQHandler                                                       *)
(***************************************************************************)
GetStatus ==
  /\ isr = "idle"
  /\ ~masked
  /\ pending # {}
  /\ taken' = pending
  /\ isr' = "clear"
  /\ UNCHANGED <<shaft, pending, previous, total, last, readVars>>

(* Mutant: everything that is pending is cleared, seen or not. *)
ClearAll ==
  /\ isr = "clear"
  /\ pending' = {}
  /\ isr' = "left"
  /\ UNCHANGED <<shaft, taken, previous, total, last, readVars>>

ClearStatus ==
  /\ isr = "clear"
  /\ pending' = pending \ taken
  /\ isr' = "left"
  /\ UNCHANGED <<shaft, taken, previous, total, last, readVars>>

(* quadrature_delta; an invalid jump counts as zero. *)
Quadrature(from, to) ==
  CASE <<from, to>> \in {<<0, 2>>, <<2, 3>>, <<3, 1>>, <<1, 0>>} -> 1
    [] <<to, from>> \in {<<0, 2>>, <<2, 3>>, <<3, 1>>, <<1, 0>>} -> -1
    [] OTHER -> 0

Update(e) ==
  LET now == Pins(shaft[e]) IN
  /\ previous' = [previous EXCEPT ![e] = now]
  /\ total' = [total EXCEPT ![e] = @ + Sign(e) * Quadrature(previous[e], now)]

(* Mutant: the right encoder is the else branch of the left one. *)
NextUpdateElse(e) ==
  IF e = "left" /\ \A l \in Lines : <<e, l>> \notin taken
  THEN "right" ELSE "idle"

NextUpdate(e) == IF e = "left" THEN "right" ELSE "idle"

UpdateEncoder(e) ==
  /\ isr = e
  /\ IF \E l \in Lines : <<e, l>> \in taken
     THEN Update(e) ELSE UNCHANGED <<previous, total>>
  /\ isr' = NextUpdate(e)
  /\ taken' = IF NextUpdate(e) = "idle" THEN {} ELSE taken
  /\ UNCHANGED <<shaft, pending, last, readVars>>

Interrupt ==
  GetStatus \/ ClearStatus \/ \E e \in Encoders : UpdateEncoder(e)

(***************************************************************************)
(* The chassis task: BspEncoder_ReadDelta for the left encoder and then    *)
(* for the right one, in every cycle                                       *)
(***************************************************************************)
(* Mutant: no critical section. *)
EnterUnmasked ==
  /\ isr = "idle"
  /\ step = "idle"
  /\ step' = "delta"
  /\ UNCHANGED <<shaft, previous, total, last, isrVars, masked, reading,
                 delta, reported>>

EnterCritical ==
  /\ isr = "idle"
  /\ step = "idle"
  /\ masked' = TRUE
  /\ step' = "delta"
  /\ UNCHANGED <<shaft, previous, total, last, isrVars, reading, delta,
                 reported>>

TakeDelta ==
  /\ isr = "idle"
  /\ step = "delta"
  /\ delta' = total[reading] - last[reading]
  /\ step' = "store"
  /\ UNCHANGED <<shaft, previous, total, last, isrVars, masked, reading,
                 reported>>

StoreTotal ==
  /\ isr = "idle"
  /\ step = "store"
  /\ last' = [last EXCEPT ![reading] = total[reading]]
  /\ step' = "return"
  /\ UNCHANGED <<shaft, previous, total, isrVars, masked, reading, delta,
                 reported>>

Clamped(d) ==
  IF d > DeltaMax THEN DeltaMax ELSE IF d < -DeltaMax - 1 THEN -DeltaMax - 1
  ELSE d

ReturnDelta ==
  /\ isr = "idle"
  /\ step = "return"
  /\ masked' = FALSE
  /\ reported' = [reported EXCEPT ![reading] = @ + Clamped(delta)]
  /\ reading' = IF reading = "left" THEN "right" ELSE "left"
  /\ delta' = 0
  /\ step' = "idle"
  /\ UNCHANGED <<shaft, previous, total, last, isrVars>>

ReadDelta == EnterCritical \/ TakeDelta \/ StoreTotal \/ ReturnDelta

EncoderNext ==
  \/ \E e \in Encoders, by \in {-1, 1} : Turn(e, by)
  \/ Interrupt
  \/ ReadDelta

EncoderSpec == EncoderInit /\ [][EncoderNext]_encoderVars

(* A pending interrupt is taken once it is not masked, and the section     *)
(* that masks it ends.                                                     *)
FairEncoderSpec ==
  /\ EncoderSpec
  /\ SF_encoderVars(Interrupt)
  /\ WF_encoderVars(ReadDelta)

-----------------------------------------------------------------------------
EncoderTypeOK ==
  /\ pending \subseteq Encoders \X Lines
  /\ taken \subseteq Encoders \X Lines
  /\ isr \in {"idle", "clear"} \union Encoders
  /\ masked \in BOOLEAN
  /\ reading \in Encoders
  /\ step \in {"idle", "delta", "store", "return"}
  /\ delta \in Int
  /\ shaft \in [Encoders -> Int]
  /\ \A e \in Encoders : shaft[e] \in Reach[e]
  /\ total \in [Encoders -> Int]
  /\ last \in [Encoders -> Int]
  /\ reported \in [Encoders -> Int]
  /\ previous \in [Encoders -> 0 .. 3]

(* No edge is lost or counted twice: with nothing pending the count is the *)
(* position of the shaft, whichever edges came while the handler was       *)
(* between its reads.                                                      *)
CountFollowsShaft ==
  isr = "idle" /\ pending = {}
    => \A e \in Encoders : total[e] = Sign(e) * shaft[e]

(* Every pulse is reported once: the deltas returned so far add up to the  *)
(* count at the last call, however interrupts fell between the two reads   *)
(* of the count.                                                           *)
EveryPulseReported ==
  \A e \in Encoders : step = "idle" => reported[e] = last[e]

(* From the shaft to the chassis every pulse counts once.                  *)
PulsesCountOnce == CountFollowsShaft /\ EveryPulseReported

(* When the shafts stand still the reported counts come to their position. *)
ReportSettles ==
  <>[][UNCHANGED shaft]_encoderVars
    => <>[](\A e \in Encoders : reported[e] = Sign(e) * shaft[e])
==============================================================================
