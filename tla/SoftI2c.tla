------------------------------ MODULE SoftI2c ------------------------------
(***************************************************************************)
(* The bit-banged bus of the panel (bsp_oled_soft_i2c.c), one line         *)
(* operation at a time: the search for the panel over both assignments of  *)
(* the two pins and every address, and the writes that follow.  The panel  *)
(* is external: it watches the two lines as the bus protocol has it, and   *)
(* may be wired either way, come up late, or be missing.                   *)
(*                                                                         *)
(* A line is low when either side pulls it.  Delays only keep the order of *)
(* the operations, and a task preempted between two of them only delays.   *)
(***************************************************************************)
EXTENDS Integers, SequencesExt

CONSTANTS
  Usual,      (* <<0x3C, 0x3D>>, probed first                              *)
  Low, High,  (* the range of the scan                                     *)
  Panels,     (* addresses a panel may have; 0: there is none              *)
  Messages,   (* what is written: a control byte and what follows it       *)
  MidByte     (* the processor may have been reset during a write         *)

ASSUME SoftI2cAssumption ==
  /\ Usual \in Seq(1 .. 127) /\ Len(Usual) = 2 /\ Usual[1] # Usual[2]
  /\ Low \in 1 .. 127 /\ High \in 1 .. 127 /\ Low + 2 < High /\ High > Usual[2]
  /\ Panels \subseteq {0, Usual[1], Usual[2]} \cup (Low .. High)
  /\ Messages \subseteq Seq(0 .. 255) \ {<< >>}
  /\ MidByte \in BOOLEAN

VARIABLES
  stage, swapped, address, detected,  (* the driver: what it is about, the *)
                                      (* assignment and address it uses,   *)
                                      (* the address found                 *)
  message, done, ok,                  (* the transaction: bytes behind the *)
                                      (* address, operations done, result  *)
  pulled,                             (* the lines the driver pulls        *)
  wiring, panel, on, begin,           (* the panel's SDA pin and address,  *)
                                      (* whether it is up, and what it     *)
                                      (* was at first: ready, late or busy *)
  mode, bits, shift, acking, taken    (* its bus logic, and the data bytes *)
                                      (* of its last transaction           *)

driver == <<stage, swapped, address, detected, message>>
setting == <<wiring, panel, begin>>
logic == <<mode, bits, shift, acking, taken>>
vars == <<driver, done, ok, pulled, setting, on, logic>>

Pins == {0, 1}
SdaPin == swapped
SclPin == 1 - swapped

LevelOf(lows, pull, pin) == IF pin \in lows \/ (pull = 1 /\ pin = wiring) THEN 0 ELSE 1
Level(pin) == LevelOf(pulled, acking, pin)

-----------------------------------------------------------------------------
(***************************************************************************)
(* The panel: what a change of the lines does to it                        *)
(***************************************************************************)
Start == mode' = "address" /\ bits' = 0 /\ shift' = 0 /\ acking' = 0 /\ taken' = << >>

Stop == mode' = "idle" /\ UNCHANGED <<bits, shift, acking, taken>>

ClockRises(sda) ==
  IF mode = "idle" \/ bits = 8 THEN UNCHANGED logic
  ELSE shift' = 2 * shift + sda /\ bits' = bits + 1 /\ UNCHANGED <<mode, acking, taken>>

Mine == mode = "data" \/ shift = 2 * panel

(* Behind the eighth bit it answers, behind the answer it lets go. *)
ClockFalls ==
  IF acking = 1
  THEN acking' = 0 /\ bits' = 0 /\ shift' = 0 /\ mode' = "data" /\ UNCHANGED taken
  ELSE IF mode # "idle" /\ bits = 8
  THEN /\ acking' = (IF Mine THEN 1 ELSE 0)
       /\ mode' = (IF Mine THEN mode ELSE "idle")
       /\ taken' = (IF mode = "data" THEN Append(taken, shift) ELSE taken)
       /\ UNCHANGED <<bits, shift>>
  ELSE UNCHANGED logic

Watches ==
  LET sda == Level(wiring)
      scl == Level(1 - wiring)
      sdaNow == LevelOf(pulled', acking, wiring)
      sclNow == LevelOf(pulled', acking, 1 - wiring)
  IN  IF on = 0 \/ panel = 0 THEN UNCHANGED logic
      ELSE IF scl = 1 /\ sclNow = 1 /\ sda = 1 /\ sdaNow = 0 THEN Start
      ELSE IF scl = 1 /\ sclNow = 1 /\ sda = 0 /\ sdaNow = 1 THEN Stop
      ELSE IF scl = 0 /\ sclNow = 1 THEN ClockRises(sdaNow)
      ELSE IF scl = 1 /\ sclNow = 0 THEN ClockFalls
      ELSE UNCHANGED logic

PowerUp ==
  /\ on = 0 /\ on' = 1
  /\ UNCHANGED <<driver, done, ok, pulled, setting, logic>>

-----------------------------------------------------------------------------
(***************************************************************************)
(* The line operations of a transaction                                    *)
(***************************************************************************)
Release(line) == [line |-> line, low |-> FALSE]
Pull(line) == [line |-> line, low |-> TRUE]

StartCondition == <<Release("sda"), Release("scl"), Pull("sda"), Pull("scl")>>

(* Mutant: SDA is not brought low first. *)
StopConditionShort == <<Release("scl"), Release("sda")>>

StopCondition == <<Pull("sda"), Release("scl"), Release("sda")>>

Bit(value, b) == (value \div 2 ^ (7 - b)) % 2

Show(value, b) == IF Bit(value, b) = 1 THEN Release("sda") ELSE Pull("sda")

(* Mutant: the bits go out from the other end. *)
SendBitReversed(value, b) == <<Show(value, 7 - b), Release("scl"), Pull("scl")>>

SendBit(value, b) == <<Show(value, b), Release("scl"), Pull("scl")>>

(* Mutant: SDA is not released for the answer. *)
AnswerHeld == <<Release("scl"), Release("scl"), Release("read"), Pull("scl")>>

Answer == <<Release("sda"), Release("scl"), Release("read"), Pull("scl")>>

(* Operation k of the 28 of write_byte. *)
WriteByte(value, k) ==
  IF k < 24 THEN SendBit(value, k \div 3)[(k % 3) + 1] ELSE Answer[k - 23]

(* A probe is a write of the address alone. *)
Bytes == <<2 * address>> \o message
BytesEnd == Len(StartCondition) + 28 * Len(Bytes)
End == BytesEnd + Len(StopCondition)

Operation ==
  LET k == done - Len(StartCondition)
  IN  IF k < 0 THEN StartCondition[done + 1]
      ELSE IF done < BytesEnd THEN WriteByte(Bytes[(k \div 28) + 1], k % 28)
      ELSE StopCondition[done - BytesEnd + 1]

PinOf(line) == IF line = "sda" THEN SdaPin ELSE SclPin

Operate ==
  /\ stage # "rest" /\ done < End
  /\ done' = done + 1
  /\ IF Operation.line = "read"
     THEN ok' = (IF Level(SdaPin) = 0 THEN ok ELSE 0) /\ UNCHANGED <<pulled, logic>>
     ELSE /\ pulled' = IF Operation.low THEN pulled \cup {PinOf(Operation.line)}
                       ELSE pulled \ {PinOf(Operation.line)}
          /\ Watches
          /\ UNCHANGED ok
  /\ UNCHANGED <<driver, setting, on>>

-----------------------------------------------------------------------------
(***************************************************************************)
(* BspOledSoftI2c_Init and BspOledSoftI2c_Write                            *)
(***************************************************************************)
Transact == done' = 0 /\ ok' = 1 /\ UNCHANGED <<pulled, setting, on, logic>>

Probe(pass, probed) ==
  swapped' = pass /\ address' = probed /\ UNCHANGED <<stage, detected, message>> /\ Transact

Unusual(a) == a # Usual[1] /\ a # Usual[2]
ScanFrom(a) ==
  CHOOSE b \in a .. (a + 2) : Unusual(b) /\ \A c \in a .. (b - 1) : ~Unusual(c)

Following == IF address = Usual[1] THEN Usual[2]
             ELSE IF address = Usual[2] THEN ScanFrom(Low)
             ELSE ScanFrom(address + 1)

Found(a) ==
  /\ stage' = "rest" /\ detected' = a /\ address' = Usual[1] /\ done' = 0
  /\ UNCHANGED <<ok, pulled, setting, on, logic, message>>

ProbeNext ==
  /\ stage = "probe" /\ done = End
  /\ \/ ok = 1 /\ Found(address) /\ UNCHANGED swapped
     \/ ok = 0 /\ Following <= High /\ Probe(swapped, Following)
     \/ ok = 0 /\ Following > High /\ swapped = 1 /\ Probe(0, Usual[1])
     \/ ok = 0 /\ Following > High /\ swapped = 0 /\ Found(0) /\ swapped' = 1

(* OLED_I2C_TransmitBlocking: the usual address when none was found. *)
Write ==
  /\ stage = "rest"
  /\ stage' = "write" /\ message' \in Messages
  /\ address' = IF detected = 0 THEN Usual[1] ELSE detected
  /\ UNCHANGED <<swapped, detected>>
  /\ Transact

EndWrite ==
  /\ stage = "write" /\ done = End
  /\ stage' = "rest" /\ message' = << >> /\ done' = 0
  /\ UNCHANGED <<swapped, address, detected, ok, pulled, setting, on, logic>>

Init ==
  /\ stage = "probe" /\ swapped = 1 /\ address = Usual[1] /\ detected = 0
  /\ message = << >> /\ done = 0 /\ ok = 1 /\ pulled = {}
  /\ wiring \in Pins /\ panel \in Panels
  /\ begin \in {"ready", "late"} \cup (IF MidByte THEN {"busy"} ELSE {})
  /\ on = IF begin = "late" THEN 0 ELSE 1
  /\ taken = << >>
  /\ \/ begin # "busy" /\ mode = "idle" /\ bits = 0 /\ shift = 0 /\ acking = 0
     \/ /\ begin = "busy" /\ panel # 0
        /\ mode \in {"address", "data"} /\ acking \in {0, 1}
        /\ bits \in 0 .. 8 /\ shift \in 0 .. (2 ^ bits - 1) /\ (acking = 1 => bits = 8)

(* Where a reset in the middle of a write may begin.  A panel that holds   *)
(* SDA for an answer just then, and is wired as the first probe has it, is *)
(* the one that is probed first: any other takes the probe for data and    *)
(* answers it, since nothing frees the bus before the search               *)
(* (bsp_oled_soft_i2c.c:75).                                               *)
HolderIsProbed == acking = 1 /\ SdaPin = wiring => panel = address

Next == Operate \/ ProbeNext \/ Write \/ EndWrite \/ PowerUp

Spec == Init /\ [][Next]_vars

-----------------------------------------------------------------------------
TypeOK ==
  /\ stage \in {"probe", "write", "rest"} /\ swapped \in {0, 1}
  /\ address \in 1 .. 127 /\ detected \in 0 .. 127
  /\ done \in 0 .. End /\ ok \in {0, 1} /\ pulled \subseteq Pins
  /\ wiring \in Pins /\ panel \in Panels /\ on \in {0, 1} /\ begin \in {"ready", "late", "busy"}
  /\ mode \in {"idle", "address", "data"} /\ bits \in 0 .. 8
  /\ shift \in 0 .. 255 /\ acking \in {0, 1}

(* "Try both possible PA0/PA1 assignments and scan every legal address"    *)
(* (bsp_oled_soft_i2c.c:60): a panel that is up is found, whichever way it *)
(* is wired.                                                               *)
PanelFound ==
  stage # "probe" /\ begin # "late" /\ panel # 0 => detected = panel /\ SdaPin = wiring

(* What is found is the panel: no level of the lines with the pins         *)
(* exchanged is taken for an answer, and no panel that comes up meanwhile  *)
(* is found in the wrong place.                                            *)
NothingElseFound == detected # 0 => detected = panel /\ SdaPin = wiring

(* The search writes nothing into the panel, though with the pins          *)
(* exchanged the panel takes the clock for data and the data for clock,    *)
(* unless it was busy with a byte; a write leaves nothing but its bytes.   *)
OnlyWrittenBytesTaken ==
  /\ stage = "probe" /\ begin # "busy" => taken = << >>
  /\ stage = "write" /\ mode = "data" => IsPrefix(taken, message)

(* A write reports success exactly when the panel has taken all of it.     *)
SuccessIsDelivery ==
  stage = "write" /\ done = End => (ok = 1 <=> taken = message)

(* Between two transactions both lines are high, and the panel that was    *)
(* found has seen the stop.                                                *)
BusIsFree ==
  stage = "rest" => /\ \A pin \in Pins : Level(pin) = 1
                    /\ detected # 0 => mode = "idle"

(* The panel is found, and nothing but the panel, and a write that reports *)
(* success has reached it.                                                 *)
PanelIsReached ==
  /\ PanelFound /\ NothingElseFound
  /\ OnlyWrittenBytesTaken /\ SuccessIsDelivery /\ BusIsFree
=============================================================================
