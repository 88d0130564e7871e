----------------------------- MODULE BusProofs -----------------------------
(***************************************************************************)
(* The panel is always reached: for every range of the scan, every pair of *)
(* usual addresses, every panel and every set of messages of any length.   *)
(*                                                                         *)
(* The invariant says where a transaction is from the operations done, and *)
(* what the panel has made of them by then: with the pins the right way    *)
(* round it follows bit by bit (Synced) or has turned away (Away), with    *)
(* the pins exchanged nothing it sees can end in an answer (Unanswered).   *)
(* The search has not passed the panel (NotPast).                          *)
(***************************************************************************)
EXTENDS SoftI2c, SequenceTheorems, TLAPS

(* Where the driver is: the byte of the transaction, and the operations of *)
(* it that are done.                                                       *)
Number == (done - 4) \div 28
Place == (done - 4) % 28
Current == Bytes[Number + 1]
InByte == done >= 4 /\ done < BytesEnd

(* The levels the driver leaves its lines at.                              *)
SdaHigh ==
  \/ done < 3
  \/ InByte /\ Place = 0 /\ Number > 0
  \/ InByte /\ Place \in 1 .. 24 /\ Bit(Current, (Place - 1) \div 3) = 1
  \/ InByte /\ Place > 24
  \/ done = BytesEnd \/ done = End

SclHigh ==
  \/ done < 4
  \/ InByte /\ (Place % 3 = 2 \/ Place = 27)
  \/ done >= BytesEnd + 2

(* The driver pulls the lines that are to be low, and no other.            *)
PulledInv ==
  /\ pulled \subseteq Pins
  /\ SdaPin \in pulled <=> ~SdaHigh
  /\ SclPin \in pulled <=> ~SclHigh

BusTypeOK ==
  /\ stage \in {"probe", "write", "rest"} /\ swapped \in {0, 1}
  /\ address \in 1 .. 127 /\ detected \in 0 .. 127
  /\ message \in Seq(0 .. 255)
  /\ done \in 0 .. End /\ ok \in {0, 1}
  /\ wiring \in Pins /\ panel \in Panels /\ on \in {0, 1}
  /\ begin \in {"ready", "late", "busy"}
  /\ mode \in {"idle", "address", "data"} /\ bits \in 0 .. 8
  /\ shift \in 0 .. (2 ^ bits - 1) /\ acking \in {0, 1}
  /\ taken \in Seq(0 .. 255)

(* A panel that is not up has seen nothing, and one that answers has a     *)
(* whole byte.                                                             *)
Settings ==
  /\ begin = "busy" => panel # 0
  /\ on = 0 => begin = "late"
  /\ on = 0 \/ panel = 0 => mode = "idle" /\ acking = 0 /\ taken = << >>
  /\ acking = 1 => bits = 8 /\ mode # "idle"

(* The address of the panel is the one probed, or still to come.           *)
NotPast ==
  /\ panel = Usual[1] => address = Usual[1]
  /\ panel = Usual[2] => address \in {Usual[1], Usual[2]}
  /\ address \in {Usual[1], Usual[2]} \/ (Unusual(panel) => address <= panel)

(* A panel that is up from the first is met in this pass or the next.      *)
SearchInv ==
  /\ stage = "probe" =>
       /\ detected = 0 /\ message = << >>
       /\ address \in {Usual[1], Usual[2]} \cup (Low .. High)
       /\ begin # "late" /\ panel # 0 =>
            \/ swapped = 1 /\ wiring = 0
            \/ swapped = wiring /\ NotPast
  /\ PanelFound /\ NothingElseFound
  /\ stage = "write" => /\ message \in Messages
                       /\ address = IF detected = 0 THEN Usual[1] ELSE detected
  /\ stage = "rest" => done = 0 /\ message = << >>

(* The panel was in the middle of a write when the processor was reset,    *)
(* and what it takes now goes on with that.                                *)
Resumed == begin = "busy" /\ stage = "probe" /\ address = panel

(* The bytes of the message the panel has when it is at place p of byte n. *)
BytesTaken(n, p) == IF n = 0 THEN 0 ELSE IF p >= 24 THEN n ELSE n - 1

(* The panel has taken the first m bytes of the message.                   *)
TakenIs(m) == Len(taken) = m /\ \A i \in 1 .. m : taken[i] = message[i]

(* The panel follows: it has shifted in the bits that were shown so far,   *)
(* answers at the end of a byte, and has taken the bytes before this one.  *)
Synced ==
  /\ ok = 1 /\ on = 1 /\ panel # 0
  /\ done <= 4 =>
       /\ acking = 0 /\ bits = 0
       /\ (mode = "address" /\ taken = << >>) \/ (Resumed /\ mode = "data")
  /\ InByte =>
       /\ acking = (IF Place >= 24 THEN 1 ELSE 0)
       /\ bits = (IF Place >= 24 THEN 8 ELSE (Place + 1) \div 3)
       /\ shift = Current \div 2 ^ (8 - bits)
       /\ mode = (IF Number = 0 THEN "address" ELSE "data") \/ (Resumed /\ mode = "data")
       /\ Number > 0 \/ Place >= 24 => address = panel
       /\ TakenIs(BytesTaken(Number, Place)) \/ Resumed
  /\ done >= BytesEnd =>
       /\ acking = 0 /\ address = panel
       /\ mode = (IF done < End THEN "data" ELSE "idle")
       /\ bits = (IF done < BytesEnd + 2 THEN 0 ELSE 1) /\ shift = 0
       /\ TakenIs(Len(message)) \/ Resumed

(* The panel has not got the address, or is not up: it waits for the next  *)
(* start, and the driver has read no answer.                               *)
Away ==
  /\ mode = "idle" /\ acking = 0 /\ taken = << >>
  /\ done >= 31 => ok = 0
  /\ begin # "late" /\ panel # 0 => panel # address

(* The panel still holds SDA for an answer from before the reset.          *)
Held == Resumed /\ acking = 1 /\ ok = 1 /\ on = 1 /\ panel # 0

(* With the pins the right way round.                                      *)
RightInv ==
  swapped = wiring =>
    /\ done <= 2 =>
         /\ acking = 0 \/ Resumed
         /\ begin # "busy" /\ stage = "probe" => taken = << >>
         /\ stage # "probe" => mode # "data" /\ (detected # 0 => mode = "idle")
         /\ stage # "rest" => ok = 1
    /\ done >= 3 => Synced \/ Away \/ (done = 3 /\ Held)

(* The very first probe after a reset in the middle of a write.            *)
First == begin = "busy" /\ stage = "probe" /\ swapped = 1 /\ address = Usual[1]

(* With the pins exchanged SDA clocks the panel and SCL is its data.  SDA  *)
(* rises and falls while SCL is low, and a one that SCL clocks is a stop   *)
(* and a start to it, so it never has a whole byte when its clock falls.   *)
Loose ==
  \/ mode = "idle"
  \/ /\ done >= 3
     /\ ~(SdaHigh /\ SclHigh)
     /\ bits <= 7 \/ (Place % 3 = 1 /\ SdaHigh)
     /\ done >= 4 /\ Place % 3 = 0 /\ SdaHigh => bits = 0

(* The panel holds the clock until the first bit that falls.               *)
Stuck ==
  /\ acking = 1 /\ First
  /\ done >= 4 => Place <= 24
  /\ done = 3 \/ SdaHigh \/ Current \div 2 ^ (8 - ((Place + 2) \div 3)) = 0

(* It takes no data.                                                       *)
Silent == begin # "busy" => taken = << >> /\ mode # "data"

(* Nor does it answer.                                                     *)
Unanswered ==
  /\ done <= 2 => First \/ (acking = 0 /\ (mode = "idle" \/ bits <= 1))
  /\ done >= 3 /\ done < BytesEnd => (acking = 0 /\ Loose) \/ Stuck
  /\ done >= BytesEnd =>
       acking = 0 /\ (mode = "idle" \/ bits = 0 \/ (done = End /\ bits = 1))

(* With the pins exchanged, the driver reads no answer either.             *)
WrongInv ==
  swapped # wiring =>
    /\ Silent /\ Unanswered
    /\ begin = "busy" => stage = "probe"
    /\ done >= 31 => ok = 0

BusInv == BusTypeOK /\ PulledInv /\ Settings /\ SearchInv /\ RightInv /\ WrongInv

-----------------------------------------------------------------------------
(***************************************************************************)
(* Bytes and their bits                                                    *)
(***************************************************************************)
LEMMA PowersOfTwo ==
  /\ 2 ^ 0 = 1 /\ 2 ^ 1 = 2 /\ 2 ^ 2 = 4 /\ 2 ^ 3 = 8 /\ 2 ^ 4 = 16
  /\ 2 ^ 5 = 32 /\ 2 ^ 6 = 64 /\ 2 ^ 7 = 128 /\ 2 ^ 8 = 256
BY SMT

(* The first b + 1 bits of a byte are the first b with the next behind.    *)
LEMMA BitsOfByte ==
  ASSUME NEW v \in 0 .. 255, NEW b \in 0 .. 7
  PROVE  /\ Bit(v, b) \in {0, 1}
         /\ v \div 2 ^ (7 - b) = 2 * (v \div 2 ^ (8 - b)) + Bit(v, b)
         /\ v \div 2 ^ (8 - b) \in 0 .. (2 ^ b - 1)
<1>1. CASE b = 0
  BY <1>1, SMT DEF Bit
<1>2. CASE b = 1
  BY <1>2, SMT DEF Bit
<1>3. CASE b = 2
  BY <1>3, SMT DEF Bit
<1>4. CASE b = 3
  BY <1>4, SMT DEF Bit
<1>5. CASE b = 4
  BY <1>5, SMT DEF Bit
<1>6. CASE b = 5
  BY <1>6, SMT DEF Bit
<1>7. CASE b = 6
  BY <1>7, SMT DEF Bit
<1>8. CASE b = 7
  BY <1>8, SMT DEF Bit
<1> QED BY <1>1, <1>2, <1>3, <1>4, <1>5, <1>6, <1>7, <1>8

LEMMA Doubling ==
  ASSUME NEW b \in 0 .. 7
  PROVE  2 ^ (b + 1) = 2 * 2 ^ b /\ 2 ^ b \in Nat \ {0}
<1>1. CASE b = 0
  BY <1>1, SMT
<1>2. CASE b = 1
  BY <1>2, SMT
<1>3. CASE b = 2
  BY <1>3, SMT
<1>4. CASE b = 3
  BY <1>4, SMT
<1>5. CASE b = 4
  BY <1>5, SMT
<1>6. CASE b = 5
  BY <1>6, SMT
<1>7. CASE b = 6
  BY <1>7, SMT
<1>8. CASE b = 7
  BY <1>8, SMT
<1> QED BY <1>1, <1>2, <1>3, <1>4, <1>5, <1>6, <1>7, <1>8

LEMMA PowersBounded ==
  ASSUME NEW b \in 0 .. 8
  PROVE  2 ^ b \in 0 .. 256
<1>1. CASE b = 0
  BY <1>1, SMT
<1>2. CASE b = 1
  BY <1>2, SMT
<1>3. CASE b = 2
  BY <1>3, SMT
<1>4. CASE b = 3
  BY <1>4, SMT
<1>5. CASE b = 4
  BY <1>5, SMT
<1>6. CASE b = 5
  BY <1>6, SMT
<1>7. CASE b = 6
  BY <1>7, SMT
<1>8. CASE b = 7
  BY <1>8, SMT
<1>9. CASE b = 8
  BY <1>9, SMT
<1> QED BY <1>1, <1>2, <1>3, <1>4, <1>5, <1>6, <1>7, <1>8, <1>9

LEMMA WholeByte ==
  ASSUME NEW v \in 0 .. 255
  PROVE  v \div 2 ^ 8 = 0 /\ v \div 2 ^ 0 = v
BY SMT

-----------------------------------------------------------------------------
(***************************************************************************)
(* The transaction                                                         *)
(***************************************************************************)
LEMMA BytesAre ==
  ASSUME BusTypeOK
  PROVE  /\ Bytes \in Seq(0 .. 255)
         /\ Len(Bytes) = Len(message) + 1 /\ Len(message) \in Nat
         /\ Bytes[1] = 2 * address
         /\ \A i \in 1 .. Len(message) : Bytes[i + 1] = message[i]
         /\ BytesEnd = 32 + 28 * Len(message)
         /\ End = BytesEnd + 3
<1>1. <<2 * address>> \in Seq(0 .. 255) /\ Len(<<2 * address>>) = 1
      /\ <<2 * address>>[1] = 2 * address
  BY DEF BusTypeOK
<1>2. message \in Seq(0 .. 255)
  BY DEF BusTypeOK
<1>3. Len(message) \in Nat
  BY <1>2
<1>4. Len(StartCondition) = 4 /\ Len(StopCondition) = 3
  BY DEF StartCondition, StopCondition
<1>5. /\ Bytes \in Seq(0 .. 255) /\ Len(Bytes) = Len(message) + 1
      /\ Bytes[1] = 2 * address
      /\ \A i \in 1 .. Len(message) : Bytes[i + 1] = message[i]
  BY <1>1, <1>2, <1>3 DEF Bytes
<1> QED BY <1>3, <1>4, <1>5 DEF BytesEnd, End

LEMMA PlaceIs ==
  ASSUME BusTypeOK, InByte
  PROVE  /\ Number \in 0 .. Len(message) /\ Place \in 0 .. 27
         /\ done = 4 + 28 * Number + Place
         /\ Current \in 0 .. 255
         /\ Number = 0 => Current = 2 * address
         /\ Number > 0 => Current = message[Number]
<1>1. done \in Nat /\ done >= 4 /\ done < 32 + 28 * Len(message) /\ Len(message) \in Nat
  BY BytesAre DEF BusTypeOK, InByte
<1>2. /\ Number \in 0 .. Len(message) /\ Place \in 0 .. 27
      /\ done = 4 + 28 * Number + Place
  BY <1>1, SMT DEF Number, Place
<1>3. Current \in 0 .. 255
  <2>1. Number + 1 \in 1 .. Len(Bytes)
    BY <1>2, BytesAre, SMT
  <2> QED BY <2>1, BytesAre DEF Current
<1> QED BY <1>2, <1>3, BytesAre DEF Current

LEMMA PlaceOf ==
  ASSUME NEW n \in Nat, NEW p \in 0 .. 27, done = 4 + 28 * n + p
  PROVE  Number = n /\ Place = p
BY SMT DEF Number, Place

LEMMA OperationInStart ==
  ASSUME BusTypeOK, done < 4
  PROVE  Operation = StartCondition[done + 1]
<1>1. Len(StartCondition) = 4
  BY DEF StartCondition
<1>2. done \in Int
  BY DEF BusTypeOK
<1> QED BY <1>1, <1>2, SMT DEF Operation

LEMMA OperationInByte ==
  ASSUME BusTypeOK, InByte
  PROVE  Operation = IF Place < 24 THEN SendBit(Current, Place \div 3)[(Place % 3) + 1]
                     ELSE Answer[Place - 23]
<1>1. Len(StartCondition) = 4
  BY DEF StartCondition
<1>2. done \in Int /\ done >= 4 /\ done < BytesEnd
  BY DEF BusTypeOK, InByte
<1>3. Operation = WriteByte(Current, Place)
  BY <1>1, <1>2, SMT DEF Operation, Current, Number, Place
<1> QED BY <1>3, Zenon DEF WriteByte

LEMMA OperationInStop ==
  ASSUME BusTypeOK, done >= BytesEnd
  PROVE  Operation = StopCondition[done - BytesEnd + 1]
<1>1. Len(StartCondition) = 4
  BY DEF StartCondition
<1>2. done \in Int /\ BytesEnd \in Int /\ BytesEnd >= 32
  BY BytesAre, SMT DEF BusTypeOK
<1> QED BY <1>1, <1>2, SMT DEF Operation

(* The line an operation is about, and what it does to it. *)
LEMMA OperationIs ==
  ASSUME BusTypeOK, done < End
  PROVE  /\ done = 0 => Operation = Release("sda")
         /\ done = 1 => Operation = Release("scl")
         /\ done = 2 => Operation = Pull("sda")
         /\ done = 3 => Operation = Pull("scl")
         /\ InByte /\ Place < 24 /\ Place % 3 = 0
              => Operation = Show(Current, Place \div 3)
         /\ InByte /\ ((Place < 24 /\ Place % 3 = 1) \/ Place = 25)
              => Operation = Release("scl")
         /\ InByte /\ ((Place < 24 /\ Place % 3 = 2) \/ Place = 27)
              => Operation = Pull("scl")
         /\ InByte /\ Place = 24 => Operation = Release("sda")
         /\ InByte /\ Place = 26 => Operation = Release("read")
         /\ done = BytesEnd => Operation = Pull("sda")
         /\ done = BytesEnd + 1 => Operation = Release("scl")
         /\ done = BytesEnd + 2 => Operation = Release("sda")
<1>1. done < 4 => Operation = StartCondition[done + 1]
  BY OperationInStart
<1>2. InByte => Operation = IF Place < 24 THEN SendBit(Current, Place \div 3)[(Place % 3) + 1]
                            ELSE Answer[Place - 23]
  BY OperationInByte
<1>3. done >= BytesEnd => Operation = StopCondition[done - BytesEnd + 1]
  BY OperationInStop
<1>4. done \in Nat /\ BytesEnd \in Nat
  BY BytesAre DEF BusTypeOK
<1>5. InByte => Place \in 0 .. 27
  BY PlaceIs
<1> QED BY <1>1, <1>2, <1>3, <1>4, <1>5, SMT DEF StartCondition, SendBit, Answer, StopCondition

LEMMA SameTransaction ==
  ASSUME UNCHANGED driver
  PROVE  /\ Bytes' = Bytes /\ BytesEnd' = BytesEnd /\ End' = End
         /\ SdaPin' = SdaPin /\ SclPin' = SclPin
BY DEF driver, Bytes, BytesEnd, End, SdaPin, SclPin

LEMMA OperateMoves ==
  ASSUME BusTypeOK, Operate
  PROVE  /\ done' = done + 1 /\ done \in Nat /\ done < End
         /\ BytesEnd' = BytesEnd /\ End' = End /\ Bytes' = Bytes
         /\ BytesEnd \in Nat /\ BytesEnd >= 32 /\ End = BytesEnd + 3
         /\ SdaPin' = SdaPin /\ SclPin' = SclPin
<1>1. UNCHANGED driver /\ done' = done + 1 /\ done < End
  BY DEF Operate
<1> QED BY <1>1, SameTransaction, BytesAre, SMT DEF BusTypeOK

(* Where an operation takes the driver within the transaction. *)
LEMMA NextPlace ==
  ASSUME BusTypeOK, Operate
  PROVE  /\ done = 3 => InByte' /\ Number' = 0 /\ Place' = 0
         /\ InByte /\ Place < 27
              => InByte' /\ Number' = Number /\ Place' = Place + 1 /\ Current' = Current
         /\ InByte /\ Place = 27
              => /\ Number' = Number + 1 /\ Place' = 0
                 /\ IF Number < Len(message) THEN InByte' ELSE done' = BytesEnd'
<1> USE OperateMoves
<1>1. done = 3 => InByte' /\ Number' = 0 /\ Place' = 0
  BY SMT DEF InByte, Number, Place
<1>2. ASSUME InByte
      PROVE  /\ Place < 27 => InByte' /\ Number' = Number /\ Place' = Place + 1
             /\ Place = 27 => /\ Number' = Number + 1 /\ Place' = 0
                              /\ IF Number < Len(message) THEN InByte' ELSE done' = BytesEnd'
  <2>1. /\ Number \in 0 .. Len(message) /\ Place \in 0 .. 27
        /\ done = 4 + 28 * Number + Place
    BY <1>2, PlaceIs
  <2>2. BytesEnd = 32 + 28 * Len(message) /\ Len(message) \in Nat
    BY BytesAre
  <2>3. Number' = (done' - 4) \div 28 /\ Place' = (done' - 4) % 28
    BY DEF Number, Place
  <2>4. Place < 27 => InByte' /\ Number' = Number /\ Place' = Place + 1
    BY <2>1, <2>2, <2>3, SMT DEF InByte
  <2>5. Place = 27 => /\ Number' = Number + 1 /\ Place' = 0
                      /\ IF Number < Len(message) THEN InByte' ELSE done' = BytesEnd'
    BY <2>1, <2>2, <2>3, SMT DEF InByte
  <2> QED BY <2>4, <2>5
<1> QED BY <1>1, <1>2 DEF Current

(* The levels before and behind every operation. *)
LEMMA LevelsAre ==
  ASSUME BusTypeOK, Operate
  PROVE  /\ done \in {0, 1} => SdaHigh /\ SclHigh /\ SdaHigh' /\ SclHigh'
         /\ done = 2 => SdaHigh /\ SclHigh /\ ~SdaHigh' /\ SclHigh'
         /\ done = 3 => ~SdaHigh /\ SclHigh /\ ~SdaHigh' /\ ~SclHigh'
         /\ InByte /\ Place < 24 /\ Place % 3 = 0
              => /\ ~SclHigh /\ ~SclHigh'
                 /\ SdaHigh' <=> Bit(Current, Place \div 3) = 1
         /\ InByte /\ Place < 24 /\ Place % 3 = 1
              => /\ ~SclHigh /\ SclHigh'
                 /\ SdaHigh <=> Bit(Current, Place \div 3) = 1
                 /\ SdaHigh' <=> Bit(Current, Place \div 3) = 1
         /\ InByte /\ Place < 24 /\ Place % 3 = 2
              => /\ SclHigh /\ ~SclHigh'
                 /\ SdaHigh <=> Bit(Current, Place \div 3) = 1
                 /\ SdaHigh' <=> Bit(Current, Place \div 3) = 1
         /\ InByte /\ Place = 24 => ~SclHigh /\ ~SclHigh' /\ SdaHigh'
         /\ InByte /\ Place = 25 => ~SclHigh /\ SclHigh' /\ SdaHigh /\ SdaHigh'
         /\ InByte /\ Place = 26 => SclHigh /\ SclHigh' /\ SdaHigh /\ SdaHigh'
         /\ InByte /\ Place = 27 => SclHigh /\ ~SclHigh' /\ SdaHigh /\ SdaHigh'
         /\ done = BytesEnd => ~SclHigh /\ ~SclHigh' /\ SdaHigh /\ ~SdaHigh'
         /\ done = BytesEnd + 1 => ~SclHigh /\ SclHigh' /\ ~SdaHigh /\ ~SdaHigh'
         /\ done = BytesEnd + 2 => SclHigh /\ SclHigh' /\ ~SdaHigh /\ SdaHigh'
<1> USE OperateMoves
<1> USE DEF SdaHigh, SclHigh
<1>1. done < 4 => /\ done \in {0, 1} => SdaHigh /\ SclHigh /\ SdaHigh' /\ SclHigh'
                  /\ done = 2 => SdaHigh /\ SclHigh /\ ~SdaHigh' /\ SclHigh'
                  /\ done = 3 => ~SdaHigh /\ SclHigh /\ ~SdaHigh' /\ ~SclHigh'
  <2>1. done <= 2 => /\ done \in {0, 1} => SdaHigh /\ SclHigh /\ SdaHigh' /\ SclHigh'
                     /\ done = 2 => SdaHigh /\ SclHigh /\ ~SdaHigh' /\ SclHigh'
    BY SMT DEF InByte
  <2>2. ASSUME done = 3 PROVE ~SdaHigh /\ SclHigh /\ ~SdaHigh' /\ ~SclHigh'
    <3>1. Place' = 0 /\ Number' = 0
      BY <2>2, NextPlace
    <3> QED BY <2>2, <3>1, SMT DEF InByte
  <2> QED BY <2>1, <2>2, SMT
<1>2. ASSUME InByte
      PROVE  /\ Place < 24 /\ Place % 3 = 0
                  => /\ ~SclHigh /\ ~SclHigh'
                     /\ SdaHigh' <=> Bit(Current, Place \div 3) = 1
             /\ Place < 24 /\ Place % 3 = 1
                  => /\ ~SclHigh /\ SclHigh'
                     /\ SdaHigh <=> Bit(Current, Place \div 3) = 1
                     /\ SdaHigh' <=> Bit(Current, Place \div 3) = 1
             /\ Place < 24 /\ Place % 3 = 2
                  => /\ SclHigh /\ ~SclHigh'
                     /\ SdaHigh <=> Bit(Current, Place \div 3) = 1
                     /\ SdaHigh' <=> Bit(Current, Place \div 3) = 1
             /\ Place = 24 => ~SclHigh /\ ~SclHigh' /\ SdaHigh'
             /\ Place = 25 => ~SclHigh /\ SclHigh' /\ SdaHigh /\ SdaHigh'
             /\ Place = 26 => SclHigh /\ SclHigh' /\ SdaHigh /\ SdaHigh'
  <2>1. Place \in 0 .. 27 /\ done >= 4 /\ done < BytesEnd
    BY <1>2, PlaceIs DEF InByte
  <2>2. Place < 27 => InByte' /\ Number' = Number /\ Place' = Place + 1 /\ Current' = Current
                      /\ done' >= 4 /\ done' < BytesEnd
    BY <1>2, NextPlace DEF InByte
  <2> DEFINE B(i) == Bit(Current, i)
  <2>3. /\ SdaHigh <=> \/ Place = 0 /\ Number > 0
                       \/ Place \in 1 .. 24 /\ B((Place - 1) \div 3) = 1
                       \/ Place > 24
        /\ SclHigh <=> Place % 3 = 2 \/ Place = 27
    BY <1>2, <2>1, SMT
  <2>4. Place < 27 =>
        /\ SdaHigh' <=> \/ Place + 1 > 24
                        \/ Place + 1 \in 1 .. 24 /\ B(Place \div 3) = 1
        /\ SclHigh' <=> (Place + 1) % 3 = 2 \/ Place + 1 = 27
    <3> SUFFICES ASSUME Place < 27 PROVE
        /\ SdaHigh' <=> \/ Place + 1 > 24
                        \/ Place + 1 \in 1 .. 24 /\ B(Place \div 3) = 1
        /\ SclHigh' <=> (Place + 1) % 3 = 2 \/ Place + 1 = 27
      OBVIOUS
    <3>1. Place' - 1 = Place
      BY <2>1, <2>2, SMT
    <3>2. Bit(Current', (Place' - 1) \div 3) = B(Place \div 3)
      BY <2>2, <3>1
    <3>3. SdaHigh' <=> \/ Place' > 24
                       \/ Place' \in 1 .. 24 /\ Bit(Current', (Place' - 1) \div 3) = 1
      BY <2>1, <2>2, SMT
    <3>4. SclHigh' <=> Place' % 3 = 2 \/ Place' = 27
      BY <2>1, <2>2, SMT
    <3> QED BY <2>1, <2>2, <3>2, <3>3, <3>4, SMT
  <2>5. \A i \in {0, 1, 2} : Place % 3 = i /\ i > 0 => (Place - 1) \div 3 = Place \div 3
    BY <2>1, SMT
  <2> HIDE DEF B, SdaHigh, SclHigh
  <2> QED BY <2>1, <2>3, <2>4, <2>5, SMT DEF B
<1>3. InByte /\ Place = 27 => SclHigh /\ ~SclHigh' /\ SdaHigh /\ SdaHigh'
  BY NextPlace, PlaceIs, SMT DEF InByte
<1>4. /\ done = BytesEnd => ~SclHigh /\ ~SclHigh' /\ SdaHigh /\ ~SdaHigh'
      /\ done = BytesEnd + 1 => ~SclHigh /\ SclHigh' /\ ~SdaHigh /\ ~SdaHigh'
      /\ done = BytesEnd + 2 => SclHigh /\ SclHigh' /\ ~SdaHigh /\ SdaHigh'
  BY SMT DEF InByte
<1>5. /\ done \in {0, 1, 2, 3} => done < 4
  OBVIOUS
<1> HIDE DEF SdaHigh, SclHigh
<1> QED BY <1>1, <1>2, <1>3, <1>4, <1>5

(* The kinds of operation. *)
AtStart == done < 4
AtShow == InByte /\ Place < 24 /\ Place % 3 = 0
AtRise == InByte /\ Place < 24 /\ Place % 3 = 1
AtFall == InByte /\ Place < 24 /\ Place % 3 = 2
AtAnswer == InByte /\ Place \in {24, 25, 26, 27}
AtStop == done \in {BytesEnd, BytesEnd + 1, BytesEnd + 2}

LEMMA Kinds ==
  ASSUME BusTypeOK, Operate
  PROVE  AtStart \/ AtShow \/ AtRise \/ AtFall \/ AtAnswer \/ AtStop
<1>1. done \in Nat /\ BytesEnd \in Nat /\ done < BytesEnd + 3
  BY OperateMoves
<1>2. CASE done < 4
  BY <1>2 DEF AtStart
<1>3. CASE InByte
  <2>1. Place \in 0 .. 27
    BY <1>3, PlaceIs
  <2>2. Place >= 24 => Place \in {24, 25, 26, 27}
    BY <2>1
  <2>3. Place % 3 \in {0, 1, 2}
    BY <2>1
  <2> QED BY <1>3, <2>1, <2>2, <2>3 DEF AtShow, AtRise, AtFall, AtAnswer
<1>4. CASE done >= BytesEnd
  BY <1>1, <1>4 DEF AtStop
<1> QED BY <1>1, <1>2, <1>3, <1>4 DEF InByte

LEMMA PinsAre ==
  ASSUME BusTypeOK
  PROVE  /\ SdaPin \in Pins /\ SclPin \in Pins /\ SdaPin # SclPin
         /\ swapped = wiring => wiring = SdaPin /\ 1 - wiring = SclPin
         /\ swapped # wiring => wiring = SclPin /\ 1 - wiring = SdaPin
BY SMT DEF BusTypeOK, SdaPin, SclPin, Pins

LEMMA NothingPulled ==
  ASSUME BusTypeOK, PulledInv, SdaHigh, SclHigh
  PROVE  pulled = {}
<1>1. \A pin \in Pins : pin = SdaPin \/ pin = SclPin
  BY SMT DEF BusTypeOK, Pins, SdaPin, SclPin
<1> QED BY <1>1 DEF PulledInv

LEMMA OperationActs ==
  ASSUME BusTypeOK, PulledInv, Operate, Operation.line \in {"sda", "scl"}
  PROVE  /\ pulled' \subseteq Pins
         /\ PinOf(Operation.line) \in pulled' <=> Operation.low
         /\ \A pin \in Pins : pin # PinOf(Operation.line) => (pin \in pulled' <=> pin \in pulled)
<1>1. pulled' = IF Operation.low THEN pulled \cup {PinOf(Operation.line)}
                ELSE pulled \ {PinOf(Operation.line)}
  BY DEF Operate
<1>2. pulled \subseteq Pins /\ PinOf(Operation.line) \in Pins
  BY PinsAre DEF PulledInv, PinOf
<1>3. CASE Operation.low
  BY <1>1, <1>2, <1>3
<1>4. CASE ~Operation.low
  BY <1>1, <1>2, <1>4
<1> QED BY <1>3, <1>4

LEMMA OperationPulls ==
  ASSUME BusTypeOK, PulledInv, Operate
  PROVE  /\ Operation = Release("sda") => /\ pulled' \subseteq Pins /\ SdaPin \notin pulled'
                                          /\ SclPin \in pulled' <=> SclPin \in pulled
         /\ Operation = Pull("sda") => /\ pulled' \subseteq Pins /\ SdaPin \in pulled'
                                       /\ SclPin \in pulled' <=> SclPin \in pulled
         /\ Operation = Release("scl") => /\ pulled' \subseteq Pins /\ SclPin \notin pulled'
                                          /\ SdaPin \in pulled' <=> SdaPin \in pulled
         /\ Operation = Pull("scl") => /\ pulled' \subseteq Pins /\ SclPin \in pulled'
                                       /\ SdaPin \in pulled' <=> SdaPin \in pulled
         /\ Operation = Release("read") => pulled' = pulled
<1>1. Operation = Release("read") => pulled' = pulled
  BY DEF Operate, Release
<1>2. /\ Release("sda").line = "sda" /\ ~Release("sda").low
      /\ Release("scl").line = "scl" /\ ~Release("scl").low
      /\ Pull("sda").line = "sda" /\ Pull("sda").low
      /\ Pull("scl").line = "scl" /\ Pull("scl").low
  BY DEF Release, Pull
<1>3. PinOf("sda") = SdaPin /\ PinOf("scl") = SclPin
  BY DEF PinOf
<1> QED BY <1>1, <1>2, <1>3, OperationActs, PinsAre

LEMMA PulledStep ==
  ASSUME BusTypeOK, PulledInv, Operate
  PROVE  PulledInv'
<1> USE OperationPulls, OperationIs, LevelsAre, OperateMoves
<1>1. CASE AtStart
  <2>1. done \in {0, 1, 2, 3}
    BY <1>1 DEF AtStart
  <2> QED BY <2>1 DEF PulledInv
<1>2. CASE AtShow
  <2>1. Bit(Current, Place \div 3) = 1 => Operation = Release("sda")
    BY <1>2 DEF AtShow, Show
  <2>2. Bit(Current, Place \div 3) # 1 => Operation = Pull("sda")
    BY <1>2 DEF AtShow, Show
  <2> QED BY <1>2, <2>1, <2>2 DEF AtShow, PulledInv
<1>3. CASE AtRise
  BY <1>3 DEF AtRise, PulledInv
<1>4. CASE AtFall
  BY <1>4 DEF AtFall, PulledInv
<1>5. CASE AtAnswer
  BY <1>5 DEF AtAnswer, PulledInv
<1>6. CASE AtStop
  BY <1>6 DEF AtStop, PulledInv
<1> QED BY <1>1, <1>2, <1>3, <1>4, <1>5, <1>6, Kinds

-----------------------------------------------------------------------------
(***************************************************************************)
(* What the panel sees                                                     *)
(***************************************************************************)
(* It watches every operation but the read, and only the read has a result.*)
LEMMA PanelWatches ==
  ASSUME BusTypeOK, Operate
  PROVE  /\ ~(InByte /\ Place = 26) => Watches /\ ok' = ok
         /\ InByte /\ Place = 26
              => /\ UNCHANGED logic
                 /\ ok' = IF Level(SdaPin) = 0 THEN ok ELSE 0
         /\ UNCHANGED <<driver, setting, on>>
<1>1. ASSUME ~(InByte /\ Place = 26)
      PROVE  Operation.line # "read"
  <2> USE OperationIs, OperateMoves DEF Release, Pull
  <2>1. CASE AtStart
    <3>1. done \in {0, 1, 2, 3}
      BY <2>1 DEF AtStart
    <3> QED BY <3>1
  <2>2. CASE AtShow
    BY <2>2 DEF AtShow, Show
  <2>3. CASE AtRise
    BY <2>3 DEF AtRise
  <2>4. CASE AtFall
    BY <2>4 DEF AtFall
  <2>5. CASE AtAnswer
    BY <1>1, <2>5 DEF AtAnswer
  <2>6. CASE AtStop
    BY <2>6 DEF AtStop
  <2> QED BY <2>1, <2>2, <2>3, <2>4, <2>5, <2>6, Kinds
<1> QED BY <1>1, OperationIs DEF Operate, Release

(* What the panel sees of an operation when it is wired as the driver has  *)
(* it, and what it sees with the pins exchanged.                           *)
LEMMA EventsRight ==
  ASSUME BusTypeOK, PulledInv, Operate, Watches, swapped = wiring, on = 1, panel # 0
  PROVE  /\ acking = 0 /\ SclHigh /\ SclHigh' /\ SdaHigh /\ ~SdaHigh' => Start
         /\ acking = 0 /\ SclHigh /\ SclHigh' /\ ~SdaHigh /\ SdaHigh' => Stop
         /\ ~SclHigh /\ SclHigh' => ClockRises(IF SdaHigh' /\ acking = 0 THEN 1 ELSE 0)
         /\ SclHigh /\ ~SclHigh' => ClockFalls
         /\ ~SclHigh /\ ~SclHigh' => UNCHANGED logic
         /\ SclHigh /\ SclHigh' /\ (acking = 1 \/ (SdaHigh <=> SdaHigh')) => UNCHANGED logic
<1> DEFINE sda == Level(wiring)
           scl == Level(1 - wiring)
           sdaNow == LevelOf(pulled', acking, wiring)
           sclNow == LevelOf(pulled', acking, 1 - wiring)
<1>1. /\ SdaPin \in pulled <=> ~SdaHigh
      /\ SclPin \in pulled <=> ~SclHigh
  BY DEF PulledInv
<1>2. /\ SdaPin \in pulled' <=> ~SdaHigh'
      /\ SclPin \in pulled' <=> ~SclHigh'
  BY PulledStep, OperateMoves DEF PulledInv
<1>3. wiring = SdaPin /\ 1 - wiring = SclPin /\ SdaPin # SclPin /\ acking \in {0, 1}
  BY PinsAre DEF BusTypeOK
<1>4. /\ sda = IF SdaHigh /\ acking = 0 THEN 1 ELSE 0
      /\ scl = IF SclHigh THEN 1 ELSE 0
      /\ sdaNow = IF SdaHigh' /\ acking = 0 THEN 1 ELSE 0
      /\ sclNow = IF SclHigh' THEN 1 ELSE 0
  BY <1>1, <1>2, <1>3 DEF Level, LevelOf
<1>5. IF scl = 1 /\ sclNow = 1 /\ sda = 1 /\ sdaNow = 0 THEN Start
      ELSE IF scl = 1 /\ sclNow = 1 /\ sda = 0 /\ sdaNow = 1 THEN Stop
      ELSE IF scl = 0 /\ sclNow = 1 THEN ClockRises(sdaNow)
      ELSE IF scl = 1 /\ sclNow = 0 THEN ClockFalls
      ELSE UNCHANGED logic
  BY DEF Watches
<1> HIDE DEF sda, scl, sdaNow, sclNow
<1> QED BY ONLY <1>3, <1>4, <1>5

LEMMA EventsWrong ==
  ASSUME BusTypeOK, PulledInv, Operate, Watches, swapped # wiring, on = 1, panel # 0
  PROVE  /\ acking = 0 /\ SdaHigh /\ SdaHigh' /\ SclHigh /\ ~SclHigh' => Start
         /\ acking = 0 /\ SdaHigh /\ SdaHigh' /\ ~SclHigh /\ SclHigh' => Stop
         /\ ~SdaHigh /\ SdaHigh' => ClockRises(IF SclHigh' /\ acking = 0 THEN 1 ELSE 0)
         /\ SdaHigh /\ ~SdaHigh' => ClockFalls
         /\ ~SdaHigh /\ ~SdaHigh' => UNCHANGED logic
         /\ SdaHigh /\ SdaHigh' /\ (acking = 1 \/ (SclHigh <=> SclHigh')) => UNCHANGED logic
<1> DEFINE sda == Level(wiring)
           scl == Level(1 - wiring)
           sdaNow == LevelOf(pulled', acking, wiring)
           sclNow == LevelOf(pulled', acking, 1 - wiring)
<1>1. /\ SclPin \in pulled <=> ~SclHigh
      /\ SdaPin \in pulled <=> ~SdaHigh
  BY DEF PulledInv
<1>2. /\ SclPin \in pulled' <=> ~SclHigh'
      /\ SdaPin \in pulled' <=> ~SdaHigh'
  BY PulledStep, OperateMoves DEF PulledInv
<1>3. wiring = SclPin /\ 1 - wiring = SdaPin /\ SclPin # SdaPin /\ acking \in {0, 1}
  BY PinsAre DEF BusTypeOK
<1>4. /\ sda = IF SclHigh /\ acking = 0 THEN 1 ELSE 0
      /\ scl = IF SdaHigh THEN 1 ELSE 0
      /\ sdaNow = IF SclHigh' /\ acking = 0 THEN 1 ELSE 0
      /\ sclNow = IF SdaHigh' THEN 1 ELSE 0
  BY <1>1, <1>2, <1>3 DEF Level, LevelOf
<1>5. IF scl = 1 /\ sclNow = 1 /\ sda = 1 /\ sdaNow = 0 THEN Start
      ELSE IF scl = 1 /\ sclNow = 1 /\ sda = 0 /\ sdaNow = 1 THEN Stop
      ELSE IF scl = 0 /\ sclNow = 1 THEN ClockRises(sdaNow)
      ELSE IF scl = 1 /\ sclNow = 0 THEN ClockFalls
      ELSE UNCHANGED logic
  BY DEF Watches
<1> HIDE DEF sda, scl, sdaNow, sclNow
<1> QED BY ONLY <1>3, <1>4, <1>5

(* Whatever it sees, its logic stays within its types.                     *)
LEMMA LogicStep ==
  ASSUME BusTypeOK, Settings, Watches
  PROVE  /\ mode' \in {"idle", "address", "data"} /\ bits' \in 0 .. 8
         /\ shift' \in 0 .. (2 ^ bits' - 1) /\ acking' \in {0, 1}
         /\ taken' \in Seq(0 .. 255)
         /\ acking' = 1 => bits' = 8 /\ mode' # "idle"
<1> DEFINE sda == Level(wiring)
           scl == Level(1 - wiring)
           sdaNow == LevelOf(pulled', acking, wiring)
           sclNow == LevelOf(pulled', acking, 1 - wiring)
<1>1. /\ mode \in {"idle", "address", "data"} /\ bits \in 0 .. 8
      /\ shift \in 0 .. (2 ^ bits - 1) /\ acking \in {0, 1}
      /\ taken \in Seq(0 .. 255)
      /\ acking = 1 => bits = 8 /\ mode # "idle"
  BY DEF BusTypeOK, Settings
<1>2. CASE UNCHANGED logic
  BY <1>1, <1>2 DEF logic
<1>3. CASE Start
  BY <1>3, PowersOfTwo DEF Start
<1>4. CASE Stop /\ acking = 0
  BY <1>1, <1>4 DEF Stop
<1>5. CASE ClockRises(sdaNow)
  <2>1. CASE mode = "idle" \/ bits = 8
    BY <1>2, <1>5, <2>1 DEF ClockRises
  <2>2. CASE mode # "idle" /\ bits # 8
    <3>1. /\ shift' = 2 * shift + sdaNow /\ bits' = bits + 1
          /\ UNCHANGED <<mode, acking, taken>>
      BY <1>5, <2>2 DEF ClockRises
    <3>2. sdaNow \in {0, 1} /\ bits \in 0 .. 7
      BY <1>1, <2>2 DEF LevelOf
    <3>3. 2 ^ (bits + 1) = 2 * 2 ^ bits /\ 2 ^ bits \in Nat \ {0}
      BY <3>2, Doubling
    <3> HIDE DEF sdaNow
    <3>4. shift' \in 0 .. (2 ^ bits' - 1)
      BY <1>1, <3>1, <3>2, <3>3
    <3> QED BY <1>1, <2>2, <3>1, <3>2, <3>4
  <2> QED BY <2>1, <2>2
<1>6. CASE ClockFalls
  <2>1. CASE acking = 1
    BY <1>1, <1>6, <2>1, PowersOfTwo DEF ClockFalls
  <2>2. CASE acking # 1 /\ mode # "idle" /\ bits = 8
    <3>1. /\ acking' = (IF Mine THEN 1 ELSE 0)
          /\ mode' = (IF Mine THEN mode ELSE "idle")
          /\ taken' = (IF mode = "data" THEN Append(taken, shift) ELSE taken)
          /\ UNCHANGED <<bits, shift>>
      BY <1>6, <2>2 DEF ClockFalls
    <3>2. shift \in 0 .. 255
      BY <1>1, <2>2, PowersOfTwo
    <3>3. Append(taken, shift) \in Seq(0 .. 255)
      BY <1>1, <3>2
    <3>4. taken' \in Seq(0 .. 255)
      BY <1>1, <3>1, <3>3
    <3> QED BY <1>1, <2>2, <3>1, <3>4
  <2>3. CASE acking # 1 /\ ~(mode # "idle" /\ bits = 8)
    BY <1>2, <1>6, <2>3 DEF ClockFalls
  <2> QED BY <2>1, <2>2, <2>3
<1>7. IF on = 0 \/ panel = 0 THEN UNCHANGED logic
      ELSE IF scl = 1 /\ sclNow = 1 /\ sda = 1 /\ sdaNow = 0 THEN Start
      ELSE IF scl = 1 /\ sclNow = 1 /\ sda = 0 /\ sdaNow = 1 THEN Stop
      ELSE IF scl = 0 /\ sclNow = 1 THEN ClockRises(sdaNow)
      ELSE IF scl = 1 /\ sclNow = 0 THEN ClockFalls
      ELSE UNCHANGED logic
  BY DEF Watches
<1>8. sdaNow = 1 => acking = 0
  BY <1>1 DEF LevelOf
<1> HIDE DEF sda, scl, sdaNow, sclNow
<1> QED BY ONLY <1>2, <1>3, <1>4, <1>5, <1>6, <1>7, <1>8

LEMMA TypeStep ==
  ASSUME BusTypeOK, Settings, Operate
  PROVE  BusTypeOK' /\ Settings'
<1>1. /\ done' = done + 1 /\ done \in Nat /\ done < End /\ End' = End /\ End \in Nat
      /\ UNCHANGED <<driver, setting, on>>
  BY OperateMoves, PanelWatches
<1>2. ok' \in {0, 1}
  BY PanelWatches DEF BusTypeOK
<1>3. UNCHANGED logic \/ (Watches /\ ~(on = 0 \/ panel = 0))
  BY PanelWatches DEF Watches
<1>4. CASE UNCHANGED logic
  BY <1>1, <1>2, <1>4 DEF BusTypeOK, Settings, driver, setting, logic
<1>5. CASE Watches /\ ~(on = 0 \/ panel = 0)
  <2>1. Settings'
    BY <1>1, <1>5, LogicStep DEF Settings, setting
  <2> QED BY <1>1, <1>2, <1>5, <2>1, LogicStep DEF BusTypeOK, driver, setting
<1> QED BY <1>3, <1>4, <1>5

LEMMA Unpowered ==
  ASSUME BusTypeOK, Operate, on = 0 \/ panel = 0
  PROVE  UNCHANGED logic
BY PanelWatches, Zenon DEF Watches

LEMMA Fixed ==
  ASSUME Operate
  PROVE  /\ stage' = stage /\ swapped' = swapped /\ address' = address
         /\ detected' = detected /\ message' = message /\ wiring' = wiring
         /\ panel' = panel /\ begin' = begin /\ on' = on
         /\ Resumed' = Resumed /\ First' = First
<1>1. UNCHANGED <<driver, setting, on>>
  BY DEF Operate
<1> QED BY <1>1 DEF driver, setting, Resumed, First

-----------------------------------------------------------------------------
(***************************************************************************)
(* With the pins the right way round                                       *)
(***************************************************************************)
(* Only a start brings a panel back, and there is none within.             *)
LEMMA AwayStep ==
  ASSUME BusTypeOK, PulledInv, Settings, Operate, swapped = wiring, Away, done >= 3
  PROVE  Away'
<1>1. \/ UNCHANGED logic
      \/ mode' = "idle" /\ UNCHANGED <<bits, shift, acking, taken>>
  <2>1. CASE on = 0 \/ panel = 0
    BY <2>1, Unpowered
  <2>2. CASE InByte /\ Place = 26
    BY <2>2, PanelWatches
  <2>3. CASE on = 1 /\ panel # 0 /\ ~(InByte /\ Place = 26)
    <3>1. Watches
      BY <2>3, PanelWatches
    <3>2. ~(SclHigh /\ SclHigh' /\ SdaHigh /\ ~SdaHigh')
      <4> USE LevelsAre, OperateMoves
      <4>1. CASE AtStart
        <5>1. done = 3
          BY <4>1 DEF AtStart
        <5> QED BY <5>1
      <4>2. CASE AtShow
        BY <4>2 DEF AtShow
      <4>3. CASE AtRise
        BY <4>3 DEF AtRise
      <4>4. CASE AtFall
        BY <4>4 DEF AtFall
      <4>5. CASE AtAnswer
        BY <4>5 DEF AtAnswer
      <4>6. CASE AtStop
        BY <4>6 DEF AtStop
      <4> QED BY <4>1, <4>2, <4>3, <4>4, <4>5, <4>6, Kinds
    <3>3. \A s : ClockRises(s) => UNCHANGED logic
      BY DEF ClockRises, Away
    <3>4. ClockFalls => UNCHANGED logic
      BY DEF ClockFalls, Away
    <3>5. Stop => mode' = "idle" /\ UNCHANGED <<bits, shift, acking, taken>>
      BY DEF Stop
    <3>6. acking = 0
      BY DEF Away
    <3>7. /\ acking = 0 /\ SclHigh /\ SclHigh' /\ ~SdaHigh /\ SdaHigh' => Stop
          /\ ~SclHigh /\ SclHigh' => ClockRises(IF SdaHigh' /\ acking = 0 THEN 1 ELSE 0)
          /\ SclHigh /\ ~SclHigh' => ClockFalls
          /\ ~SclHigh /\ ~SclHigh' => UNCHANGED logic
          /\ SclHigh /\ SclHigh' /\ (acking = 1 \/ (SdaHigh <=> SdaHigh')) => UNCHANGED logic
      BY <2>3, <3>1, EventsRight
    <3>8. \/ Stop \/ ClockFalls \/ UNCHANGED logic
          \/ ClockRises(IF SdaHigh' /\ acking = 0 THEN 1 ELSE 0)
      BY ONLY <3>2, <3>6, <3>7
    <3> QED BY <3>3, <3>4, <3>5, <3>8
  <2> QED BY <2>1, <2>2, <2>3 DEF BusTypeOK
<1>2. mode' = "idle" /\ acking' = 0 /\ taken' = << >>
  BY <1>1 DEF Away, logic
<1>3. done' >= 31 => ok' = 0
  <2>1. CASE done >= 31
    BY <2>1, PanelWatches DEF Away
  <2>2. CASE done = 30
    <3>1. InByte
      BY <2>2, OperateMoves DEF InByte
    <3>2. Place = 26
      <4>1. Number \in Nat /\ Place \in 0 .. 27 /\ done = 4 + 28 * Number + Place
        BY <3>1, PlaceIs, BytesAre
      <4> QED BY <2>2, <4>1, SMT
    <3>3. Level(SdaPin) = 1
      <4>1. SdaPin \notin pulled
        BY <3>1, <3>2, LevelsAre DEF PulledInv
      <4> QED BY <4>1 DEF Level, LevelOf, Away
    <3> QED BY <3>1, <3>2, <3>3, PanelWatches
  <2>3. done' = done + 1 /\ done \in Nat
    BY OperateMoves
  <2> QED BY <2>1, <2>2, <2>3
<1> QED BY <1>2, <1>3, Fixed DEF Away

(* Up to the start condition the panel sees nothing. *)
LEMMA StartStep ==
  ASSUME BusInv, Operate, swapped = wiring, done <= 2
  PROVE  RightInv'
<1> USE DEF BusInv
<1>1. /\ done' = done + 1 /\ done \in Nat /\ swapped' = wiring' /\ stage # "rest"
      /\ ~(InByte /\ Place = 26) /\ Watches /\ ok' = ok /\ ok = 1
  <2>1. ~(InByte /\ Place = 26)
    BY OperateMoves DEF InByte
  <2> QED BY <2>1, PanelWatches, OperateMoves, Fixed DEF Operate, RightInv
<1>2. CASE done <= 1
  <2>1. UNCHANGED logic
    <3>1. CASE on = 0 \/ panel = 0
      BY <3>1, Unpowered
    <3>2. CASE on = 1 /\ panel # 0
      BY <1>1, <1>2, <3>2, LevelsAre, EventsRight
    <3> QED BY <3>1, <3>2 DEF BusTypeOK
  <2>2. done' <= 2
    BY <1>1, <1>2
  <2> QED BY <1>1, <2>1, <2>2, Fixed DEF RightInv, logic
<1>3. CASE done = 2
  <2>1. done' = 3 /\ BytesEnd' \in Nat /\ BytesEnd' >= 32
    BY <1>1, <1>3, OperateMoves
  <2>2. CASE on = 0 \/ panel = 0
    <3>1. UNCHANGED logic
      BY <2>2, Unpowered
    <3>2. Away'
      BY <2>1, <2>2, <3>1, Fixed DEF Away, Settings, logic
    <3> QED BY <2>1, <3>2 DEF RightInv
  <2>3. CASE on = 1 /\ panel # 0 /\ acking = 0
    <3>1. Start
      BY <1>1, <1>3, <2>3, LevelsAre, EventsRight
    <3>2. ~InByte'
      BY <2>1 DEF InByte
    <3>3. Synced'
      BY <1>1, <2>1, <2>3, <3>1, <3>2, Fixed DEF Synced, Start
    <3> QED BY <2>1, <3>3 DEF RightInv
  <2>4. CASE on = 1 /\ panel # 0 /\ acking = 1
    <3>1. UNCHANGED logic
      BY <1>1, <1>3, <2>4, LevelsAre, EventsRight
    <3>2. Resumed
      BY <1>3, <2>4 DEF RightInv
    <3>3. Held'
      BY <1>1, <2>4, <3>1, <3>2, Fixed DEF Held, logic
    <3> QED BY <2>1, <3>3 DEF RightInv
  <2> QED BY <2>2, <2>3, <2>4 DEF BusTypeOK
<1> QED BY <1>1, <1>2, <1>3

(* The clock falls, and the address byte begins. *)
LEMMA AddressBegins ==
  ASSUME BusInv, Operate, swapped = wiring, done = 3, Synced \/ Held
  PROVE  Synced'
<1> USE DEF BusInv
<1>1. /\ done' = 4 /\ InByte' /\ Number' = 0 /\ Place' = 0
      /\ BytesEnd' \in Nat /\ BytesEnd' >= 32
      /\ Watches /\ ok' = ok /\ ok = 1 /\ on = 1 /\ panel # 0
  <2>1. ~(InByte /\ Place = 26)
    BY DEF InByte
  <2> QED BY <2>1, PanelWatches, OperateMoves, NextPlace DEF Synced, Held
<1>2. ClockFalls
  BY <1>1, LevelsAre, EventsRight
<1>3. /\ acking' = 0 /\ bits' = 0 /\ shift' = 0
      /\ \/ mode' = "address" /\ taken' = << >>
         \/ Resumed' /\ mode' = "data"
  <2>1. CASE Synced
    <3>1. /\ acking = 0 /\ bits = 0
          /\ \/ mode = "address" /\ taken = << >>
             \/ Resumed /\ mode = "data"
      BY <2>1 DEF Synced
    <3>2. UNCHANGED logic
      BY <1>2, <3>1 DEF ClockFalls
    <3>3. shift = 0
      BY <3>1, PowersOfTwo DEF BusTypeOK
    <3> QED BY <3>1, <3>2, <3>3, Fixed DEF logic
  <2>2. CASE Held
    BY <1>2, <2>2, Fixed DEF ClockFalls, Held
  <2> QED BY <2>1, <2>2
<1>4. Current' \in 0 .. 255
  <2>1. Current' = 2 * address
    BY <1>1, OperateMoves, BytesAre DEF Current
  <2> QED BY <2>1 DEF BusTypeOK
<1>5. shift' = Current' \div 2 ^ (8 - bits')
  <2>1. 8 - bits' = 8
    BY <1>3
  <2> QED BY <1>3, <1>4, <2>1, WholeByte
<1>6. TakenIs(BytesTaken(Number, Place))' \/ Resumed'
  BY <1>1, <1>3 DEF TakenIs, BytesTaken
<1>7. /\ acking' = (IF Place' >= 24 THEN 1 ELSE 0)
      /\ bits' = (IF Place' >= 24 THEN 8 ELSE (Place' + 1) \div 3)
      /\ mode' = (IF Number' = 0 THEN "address" ELSE "data") \/ (Resumed' /\ mode' = "data")
      /\ ~(Number' > 0 \/ Place' >= 24)
  BY <1>1, <1>3
<1>8. on' = 1 /\ panel' # 0 /\ ok' = 1
  BY <1>1, Fixed
<1>9. ~(done' >= BytesEnd')
  BY <1>1
<1> QED BY <1>1, <1>3, <1>5, <1>6, <1>7, <1>8, <1>9, Zenon DEF Synced

(* Within a byte: what is to be shown of the panel at the next place. *)
LEMMA SyncedOn ==
  ASSUME BusTypeOK, Operate, InByte, Place < 27, on = 1, panel # 0, ok' = 1,
         acking' = IF Place + 1 >= 24 THEN 1 ELSE 0,
         bits' = IF Place + 1 >= 24 THEN 8 ELSE (Place + 2) \div 3,
         shift' = Current \div 2 ^ (8 - bits'),
         mode' = (IF Number = 0 THEN "address" ELSE "data") \/ (Resumed /\ mode' = "data"),
         Number > 0 \/ Place + 1 >= 24 => address = panel,
         Resumed \/ /\ Len(taken') = BytesTaken(Number, Place + 1)
                    /\ \A i \in 1 .. BytesTaken(Number, Place + 1) : taken'[i] = message[i]
  PROVE  Synced'
<1>1. /\ InByte' /\ Number' = Number /\ Place' = Place + 1 /\ Current' = Current
      /\ Place \in 0 .. 27
  BY NextPlace, PlaceIs
<1>2. ~(done' <= 4) /\ ~(done' >= BytesEnd')
  BY <1>1, OperateMoves DEF InByte
<1>3. on' = 1 /\ panel' # 0 /\ ok' = 1 /\ address' = address /\ panel' = panel
      /\ message' = message /\ (Resumed' <=> Resumed)
  BY Fixed
<1>4. Place' + 1 = Place + 2
  BY ONLY <1>1
<1>5. TakenIs(BytesTaken(Number, Place))' \/ Resumed'
  BY <1>1, <1>3, Zenon DEF TakenIs, BytesTaken
<1>6. /\ acking' = (IF Place' >= 24 THEN 1 ELSE 0)
      /\ bits' = (IF Place' >= 24 THEN 8 ELSE (Place' + 1) \div 3)
      /\ shift' = Current' \div 2 ^ (8 - bits')
      /\ mode' = (IF Number' = 0 THEN "address" ELSE "data") \/ (Resumed' /\ mode' = "data")
      /\ Number' > 0 \/ Place' >= 24 => address' = panel'
  BY <1>1, <1>3, <1>4, Zenon
<1> QED BY <1>2, <1>3, <1>5, <1>6, Zenon DEF Synced

(* What is known of a panel that follows, within a byte. *)
LEMMA SyncedAt ==
  ASSUME BusTypeOK, InByte, Synced
  PROVE  /\ ok = 1 /\ on = 1 /\ panel # 0
         /\ acking = IF Place >= 24 THEN 1 ELSE 0
         /\ bits = IF Place >= 24 THEN 8 ELSE (Place + 1) \div 3
         /\ shift = Current \div 2 ^ (8 - bits)
         /\ mode = (IF Number = 0 THEN "address" ELSE "data") \/ (Resumed /\ mode = "data")
         /\ mode # "idle"
         /\ Number > 0 \/ Place >= 24 => address = panel
         /\ Resumed \/ /\ Len(taken) = BytesTaken(Number, Place)
                       /\ \A i \in 1 .. BytesTaken(Number, Place) : taken[i] = message[i]
BY DEF Synced, TakenIs

(* SDA changes with SCL low: the panel sees nothing.                       *)
LEMMA ShowSynced ==
  ASSUME BusInv, Operate, swapped = wiring, Synced, AtShow
  PROVE  Synced'
<1> USE DEF BusInv
<1>1. InByte /\ Place \in 0 .. 21 /\ Place % 3 = 0
  <2>1. InByte /\ Place \in 0 .. 27 /\ Place < 24 /\ Place % 3 = 0
    BY PlaceIs DEF AtShow
  <2> QED BY ONLY <2>1
<1>2. Watches /\ ok' = ok
  BY <1>1, PanelWatches
<1>3. UNCHANGED logic
  BY <1>1, <1>2, SyncedAt, LevelsAre, EventsRight DEF AtShow
<1>4. (Place + 2) \div 3 = (Place + 1) \div 3
  BY <1>1
<1>5. BytesTaken(Number, Place + 1) = BytesTaken(Number, Place)
  BY <1>1 DEF BytesTaken
<1> QED BY <1>1, <1>2, <1>3, <1>4, <1>5, SyncedAt, SyncedOn DEF logic

(* SCL rises: the panel shifts the bit in.                                 *)
LEMMA RiseSynced ==
  ASSUME BusInv, Operate, swapped = wiring, Synced, AtRise
  PROVE  Synced'
<1> USE DEF BusInv
<1> DEFINE k == Place \div 3
<1>1. InByte /\ Place \in 1 .. 22 /\ k \in 0 .. 7 /\ Place = 3 * k + 1
  <2>1. InByte /\ Place \in 0 .. 27 /\ Place < 24 /\ Place % 3 = 1
    BY PlaceIs DEF AtRise
  <2> QED BY ONLY <2>1
<1>2. Watches /\ ok' = ok
  BY <1>1, PanelWatches
<1>3. /\ bits = k /\ acking = 0 /\ shift = Current \div 2 ^ (8 - k)
      /\ mode # "idle" /\ on = 1 /\ panel # 0
  BY <1>1, SyncedAt
<1>4. ClockRises(Bit(Current, k))
  <2>1. Bit(Current, k) \in {0, 1}
    BY <1>1, PlaceIs, BitsOfByte
  <2>2. /\ ~SclHigh /\ SclHigh'
        /\ SdaHigh' <=> Bit(Current, k) = 1
    BY <1>1, LevelsAre DEF AtRise
  <2>3. ClockRises(IF SdaHigh' /\ acking = 0 THEN 1 ELSE 0)
    BY <1>2, <1>3, <2>2, EventsRight
  <2>4. (IF SdaHigh' /\ acking = 0 THEN 1 ELSE 0) = Bit(Current, k)
    BY <1>3, <2>1, <2>2
  <2> QED BY <2>3, <2>4
<1>5. /\ shift' = 2 * shift + Bit(Current, k) /\ bits' = k + 1
      /\ UNCHANGED <<mode, acking, taken>>
  BY <1>1, <1>3, <1>4 DEF ClockRises
<1>6. shift' = Current \div 2 ^ (8 - bits')
  <2>1. Current \div 2 ^ (7 - k) = 2 * (Current \div 2 ^ (8 - k)) + Bit(Current, k)
    BY <1>1, PlaceIs, BitsOfByte
  <2>2. 8 - bits' = 7 - k
    BY <1>1, <1>5
  <2> QED BY <1>3, <1>5, <2>1, <2>2
<1>7. (Place + 2) \div 3 = k + 1 /\ ~(Place + 1 >= 24)
  BY <1>1
<1>8. BytesTaken(Number, Place + 1) = BytesTaken(Number, Place)
  BY <1>1 DEF BytesTaken
<1> QED BY <1>1, <1>2, <1>3, <1>5, <1>6, <1>7, <1>8, SyncedAt, SyncedOn

(* SCL falls: behind the eighth bit the panel answers or turns away.       *)
LEMMA FallSynced ==
  ASSUME BusInv, Operate, swapped = wiring, Synced, AtFall
  PROVE  Synced' \/ Away'
<1> USE DEF BusInv
<1>1. InByte /\ Place \in 2 .. 23 /\ Place % 3 = 2
  <2>1. InByte /\ Place \in 0 .. 27 /\ Place < 24 /\ Place % 3 = 2
    BY PlaceIs DEF AtFall
  <2> QED BY ONLY <2>1
<1>2. Watches /\ ok' = ok
  BY <1>1, PanelWatches
<1>3. ClockFalls
  BY <1>1, <1>2, SyncedAt, LevelsAre, EventsRight DEF AtFall
<1>4. CASE Place # 23
  <2>1. Place \in 2 .. 20 /\ (Place + 2) \div 3 = (Place + 1) \div 3 /\ (Place + 1) \div 3 < 8
    BY <1>1, <1>4
  <2>2. UNCHANGED logic
    BY <1>1, <1>3, <2>1, SyncedAt DEF ClockFalls
  <2>3. BytesTaken(Number, Place + 1) = BytesTaken(Number, Place)
    BY <2>1 DEF BytesTaken
  <2> QED BY <1>1, <1>2, <2>1, <2>2, <2>3, SyncedAt, SyncedOn DEF logic
<1>5. CASE Place = 23
  <2>1. /\ bits = 8 /\ acking = 0 /\ mode # "idle" /\ ok = 1 /\ on = 1 /\ panel # 0
        /\ shift = Current
    <3>1. bits = 8 /\ acking = 0 /\ mode # "idle" /\ ok = 1 /\ on = 1 /\ panel # 0
      BY <1>1, <1>5, SyncedAt
    <3>2. 8 - bits = 0
      BY <3>1
    <3> QED BY <1>1, <3>1, <3>2, SyncedAt, PlaceIs, WholeByte
  <2>2. /\ acking' = (IF Mine THEN 1 ELSE 0)
        /\ mode' = (IF Mine THEN mode ELSE "idle")
        /\ taken' = (IF mode = "data" THEN Append(taken, shift) ELSE taken)
        /\ UNCHANGED <<bits, shift>>
    BY <1>3, <2>1 DEF ClockFalls
  <2>3. Current = Current \div 2 ^ (8 - bits')
    <3>1. 8 - bits' = 0
      BY <2>1, <2>2
    <3> QED BY <1>1, <3>1, PlaceIs, WholeByte
  <2>4. CASE Mine
    <3>1. address = panel
      <4>1. CASE mode = "data"
        BY <1>1, <2>1, <4>1, SyncedAt, PlaceIs, BytesAre DEF Resumed
      <4>2. CASE mode # "data"
        <5>1. Number = 0
          BY <1>1, <4>2, SyncedAt
        <5>2. Current = 2 * address /\ shift = 2 * panel
          BY <1>1, <2>4, <4>2, <5>1, PlaceIs DEF Mine
        <5>3. address \in Int /\ panel \in Int
          BY SoftI2cAssumption DEF BusTypeOK
        <5> QED BY <2>1, <5>2, <5>3
      <4> QED BY <4>1, <4>2
    <3>2. Resumed \/ /\ Len(taken') = BytesTaken(Number, Place + 1)
                     /\ \A i \in 1 .. BytesTaken(Number, Place + 1) : taken'[i] = message[i]
      <4>1. CASE Resumed
        BY <4>1
      <4>2. CASE ~Resumed /\ Number = 0
        <5>1. taken' = taken
          BY <1>1, <2>2, <4>2, SyncedAt
        <5>2. BytesTaken(Number, Place + 1) = 0 /\ BytesTaken(Number, Place) = 0
          BY <4>2 DEF BytesTaken
        <5> QED BY <1>1, <4>2, <5>1, <5>2, SyncedAt
      <4>3. CASE ~Resumed /\ Number > 0
        <5>1. /\ Number \in Nat /\ Number > 0
              /\ BytesTaken(Number, Place + 1) = Number
              /\ BytesTaken(Number, Place) = Number - 1
          BY <1>1, <1>5, <4>3, PlaceIs, BytesAre DEF BytesTaken
        <5>2. taken' = Append(taken, Current) /\ Current = message[Number]
          BY <1>1, <2>1, <2>2, <4>3, SyncedAt, PlaceIs
        <5>3. /\ taken \in Seq(0 .. 255) /\ Len(taken) = Number - 1
              /\ \A i \in 1 .. Number - 1 : taken[i] = message[i]
          BY <1>1, <4>3, <5>1, SyncedAt DEF BusTypeOK
        <5>4. Current \in 0 .. 255
          BY <1>1, PlaceIs
        <5>5. Len(taken') = Number /\ \A i \in 1 .. Number : taken'[i] = message[i]
          BY ONLY <5>1, <5>2, <5>3, <5>4
        <5> QED BY <5>1, <5>5
      <4>4. Number \in Nat
        BY <1>1, PlaceIs, BytesAre
      <4> QED BY <4>1, <4>2, <4>3, <4>4
    <3> QED BY <1>1, <1>2, <1>5, <2>1, <2>2, <2>3, <2>4, <3>1, <3>2, SyncedAt, SyncedOn
  <2>5. CASE ~Mine
    <3>1. mode = "address" /\ Number = 0
      BY <1>1, <2>1, <2>5, SyncedAt DEF Mine
    <3>2. panel # address
      <4>1. Current = 2 * address /\ shift # 2 * panel
        BY <1>1, <2>5, <3>1, PlaceIs DEF Mine
      <4> QED BY <2>1, <4>1
    <3>3. taken' = << >>
      <4>1. taken' = taken /\ ~Resumed
        BY <2>2, <3>1, <3>2 DEF Resumed
      <4>2. Len(taken) = 0
        BY <1>1, <3>1, <4>1, SyncedAt DEF BytesTaken
      <4> QED BY <4>1, <4>2 DEF BusTypeOK
    <3>4. done' = 28
      BY <1>1, <1>5, <3>1, PlaceIs, OperateMoves
    <3>5. mode' = "idle" /\ acking' = 0
      BY <2>2, <2>5
    <3>6. Away'
      BY <3>2, <3>3, <3>4, <3>5, Fixed DEF Away
    <3> QED BY <3>6
  <2> QED BY <2>4, <2>5
<1> QED BY <1>4, <1>5

(* The answer is read, and the panel lets go.                              *)
LEMMA AnswerSynced ==
  ASSUME BusInv, Operate, swapped = wiring, Synced, AtAnswer
  PROVE  Synced'
<1> USE DEF BusInv
<1>1. InByte /\ Place \in {24, 25, 26, 27}
  BY DEF AtAnswer
<1>2. /\ bits = 8 /\ acking = 1 /\ mode # "idle" /\ ok = 1 /\ on = 1 /\ panel # 0
      /\ address = panel /\ shift = Current \div 2 ^ (8 - bits)
      /\ mode = (IF Number = 0 THEN "address" ELSE "data") \/ (Resumed /\ mode = "data")
      /\ Resumed \/ /\ Len(taken) = BytesTaken(Number, Place)
                    /\ \A i \in 1 .. BytesTaken(Number, Place) : taken[i] = message[i]
  BY <1>1, SyncedAt
<1>3. CASE Place # 27
  <2>1. Place \in {24, 25, 26} /\ InByte
    BY <1>1, <1>3
  <2>2. UNCHANGED logic /\ ok' = ok
    <3>1. CASE Place = 24
      BY <1>2, <2>1, <3>1, LevelsAre, PanelWatches, EventsRight
    <3>2. CASE Place = 25
      <4>1. \A b : ClockRises(b) => UNCHANGED logic
        BY <1>2 DEF ClockRises
      <4> QED BY <1>2, <2>1, <3>2, <4>1, LevelsAre, PanelWatches, EventsRight
    <3>3. CASE Place = 26
      <4>1. Level(SdaPin) = 0
        BY <1>2, PinsAre DEF Level, LevelOf
      <4> QED BY <2>1, <3>3, <4>1, PanelWatches
    <3> QED BY <2>1, <3>1, <3>2, <3>3
  <2>3. BytesTaken(Number, Place + 1) = BytesTaken(Number, Place)
    BY <2>1 DEF BytesTaken
  <2>4. Place + 1 >= 24 /\ Place < 27
    BY <2>1
  <2> QED BY <1>1, <1>2, <2>2, <2>3, <2>4, SyncedOn DEF logic
<1>4. CASE Place = 27
  <2>1. ClockFalls /\ ok' = ok
    BY <1>1, <1>2, <1>4, LevelsAre, PanelWatches, EventsRight
  <2>2. acking' = 0 /\ bits' = 0 /\ shift' = 0 /\ mode' = "data" /\ taken' = taken
    BY <1>2, <2>1 DEF ClockFalls
  <2>3. /\ Number' = Number + 1 /\ Place' = 0 /\ Number \in 0 .. Len(message)
        /\ Len(message) \in Nat
        /\ IF Number < Len(message) THEN InByte' ELSE done' = BytesEnd'
    BY <1>1, <1>4, NextPlace, PlaceIs, BytesAre
  <2>4. on' = 1 /\ panel' # 0 /\ ok' = 1 /\ address' = panel' /\ message' = message
        /\ (Resumed' <=> Resumed)
    BY <1>2, <2>1, Fixed
  <2>5. /\ done' > 4 /\ BytesEnd' \in Nat /\ End' = BytesEnd' + 3 /\ done' \in Nat
    BY <1>1, <1>4, PlaceIs, OperateMoves, BytesAre
  <2>6. /\ BytesTaken(Number, Place) = Number
        /\ BytesTaken(Number + 1, 0) = Number
    BY <1>4, <2>3 DEF BytesTaken
  <2>7. CASE Number < Len(message)
    <3>1. InByte' /\ ~(done' >= BytesEnd') /\ ~(done' <= 4)
      BY <2>3, <2>5, <2>7 DEF InByte
    <3>2. Current' \in 0 .. 255
      <4>1. Current' = Bytes[Number + 2]
        BY <2>3, OperateMoves DEF Current
      <4>2. Number + 2 \in 1 .. Len(Bytes)
        BY <2>3, <2>7, BytesAre
      <4> QED BY <4>1, <4>2, BytesAre
    <3>3. shift' = Current' \div 2 ^ (8 - bits')
      <4>1. 8 - bits' = 8
        BY <2>2
      <4> QED BY <2>2, <3>2, <4>1, WholeByte
    <3>4. TakenIs(BytesTaken(Number, Place))' \/ Resumed'
      BY <1>2, <2>2, <2>3, <2>4, <2>6 DEF TakenIs, BytesTaken
    <3>5. /\ acking' = (IF Place' >= 24 THEN 1 ELSE 0)
          /\ bits' = (IF Place' >= 24 THEN 8 ELSE (Place' + 1) \div 3)
          /\ mode' = (IF Number' = 0 THEN "address" ELSE "data") \/ (Resumed' /\ mode' = "data")
      BY <2>2, <2>3
    <3> QED BY <2>4, <3>1, <3>3, <3>4, <3>5, Zenon DEF Synced
  <2>8. CASE ~(Number < Len(message))
    <3>1. done' = BytesEnd' /\ ~InByte' /\ ~(done' <= 4) /\ Number = Len(message)
      BY <2>3, <2>5, <2>8 DEF InByte
    <3>2. TakenIs(Len(message))' \/ Resumed'
      BY <1>2, <2>2, <2>4, <2>6, <3>1 DEF TakenIs
    <3>3. /\ done' >= BytesEnd' /\ done' < End' /\ done' < BytesEnd' + 2
      <4>1. \A b \in Nat : b >= b /\ b < b + 3 /\ b < b + 2
        OBVIOUS
      <4> QED BY ONLY <2>5, <3>1, <4>1, Zenon
    <3> QED BY <2>2, <2>4, <3>1, <3>2, <3>3, Zenon DEF Synced
  <2> QED BY <2>7, <2>8
<1> QED BY <1>3, <1>4

(* The last operations are a stop to the panel.                            *)
LEMMA StopSynced ==
  ASSUME BusInv, Operate, swapped = wiring, Synced, AtStop
  PROVE  Synced'
<1> USE DEF BusInv
<1>1. /\ done' = done + 1 /\ BytesEnd' = BytesEnd /\ BytesEnd \in Nat /\ BytesEnd >= 32
      /\ End' = BytesEnd + 3 /\ done \in {BytesEnd, BytesEnd + 1, BytesEnd + 2}
      /\ End = BytesEnd + 3
  BY OperateMoves DEF AtStop
<1>2. ~InByte /\ ~InByte' /\ ~(done' <= 4) /\ done >= BytesEnd /\ done' >= BytesEnd' /\ done < End
  BY <1>1 DEF InByte
<1>3. /\ ok = 1 /\ on = 1 /\ panel # 0 /\ acking = 0 /\ address = panel
      /\ mode = "data" /\ shift = 0
      /\ bits = (IF done < BytesEnd + 2 THEN 0 ELSE 1)
      /\ TakenIs(Len(message)) \/ Resumed
  BY <1>2 DEF Synced
<1>4. Watches /\ ok' = 1
  BY <1>2, <1>3, PanelWatches
<1>5. /\ acking' = 0 /\ shift' = 0 /\ taken' = taken
      /\ mode' = (IF done' < End' THEN "data" ELSE "idle")
      /\ bits' = (IF done' < BytesEnd' + 2 THEN 0 ELSE 1)
  <2>1. CASE done = BytesEnd
    <3>1. UNCHANGED logic
      BY <1>3, <1>4, <2>1, LevelsAre, EventsRight
    <3> QED BY <1>1, <1>3, <2>1, <3>1 DEF logic
  <2>2. CASE done = BytesEnd + 1
    <3>1. ClockRises(0)
      BY <1>3, <1>4, <2>2, LevelsAre, EventsRight
    <3>2. bits = 0
      BY <1>1, <1>3, <2>2
    <3>3. shift' = 2 * shift + 0 /\ bits' = 1 /\ UNCHANGED <<mode, acking, taken>>
      BY <1>3, <3>1, <3>2 DEF ClockRises
    <3> QED BY <1>1, <1>3, <2>2, <3>3
  <2>3. CASE done = BytesEnd + 2
    <3>1. Stop
      BY <1>3, <1>4, <2>3, LevelsAre, EventsRight
    <3> QED BY <1>1, <1>3, <2>3, <3>1 DEF Stop
  <2> QED BY <1>1, <2>1, <2>2, <2>3
<1>6. TakenIs(Len(message))' \/ Resumed'
  BY <1>3, <1>5, Fixed DEF TakenIs
<1>7. on' = 1 /\ panel' # 0 /\ address' = panel'
  BY <1>3, Fixed
<1> QED BY <1>2, <1>4, <1>5, <1>6, <1>7, Zenon DEF Synced

LEMMA RightStep ==
  ASSUME BusInv, Operate
  PROVE  RightInv'
<1> USE DEF BusInv
<1>1. swapped' = swapped /\ wiring' = wiring /\ done' = done + 1 /\ done \in Nat
  BY OperateMoves, Fixed
<1>2. CASE swapped # wiring
  BY <1>1, <1>2 DEF RightInv
<1>3. CASE swapped = wiring /\ done <= 2
  BY <1>3, StartStep
<1>4. CASE swapped = wiring /\ done >= 3
  <2>1. Synced \/ Away \/ (done = 3 /\ Held)
    BY <1>4 DEF RightInv
  <2>2. ~(done' <= 2)
    BY <1>1, <1>4
  <2>3. Synced' \/ Away'
    <3>1. CASE Away
      BY <1>4, <3>1, AwayStep
    <3>2. CASE done = 3 /\ (Synced \/ Held)
      BY <1>4, <3>2, AddressBegins
    <3>3. CASE done # 3 /\ Synced
      <4>1. ~AtStart
        BY <1>1, <1>4, <3>3 DEF AtStart
      <4> QED BY <1>4, <3>3, <4>1, Kinds, ShowSynced, RiseSynced, FallSynced,
                 AnswerSynced, StopSynced
    <3> QED BY <2>1, <3>1, <3>2, <3>3
  <2> QED BY <2>2, <2>3 DEF RightInv
<1> QED BY <1>1, <1>2, <1>3, <1>4

-----------------------------------------------------------------------------
(***************************************************************************)
(* With the pins exchanged                                                 *)
(***************************************************************************)
LEMMA UsualAre == Usual[1] \in 1 .. 127 /\ Usual[2] \in 1 .. 127
<1>1. Usual \in Seq(1 .. 127) /\ Len(Usual) = 2
  BY SoftI2cAssumption
<1>2. 1 \in 1 .. Len(Usual) /\ 2 \in 1 .. Len(Usual)
  BY <1>1
<1> QED BY <1>1, <1>2, ElementOfSeq

LEMMA WrongAt ==
  ASSUME BusInv, Operate, swapped # wiring
  PROVE  /\ Silent /\ Unanswered
         /\ done' = done + 1 /\ done \in Nat /\ BytesEnd' = BytesEnd
         /\ BytesEnd \in Nat /\ BytesEnd >= 32 /\ End = BytesEnd + 3 /\ End' = End
         /\ begin' = begin /\ (First' <=> First)
         /\ acking \in {0, 1} /\ bits \in 0 .. 8
         /\ First => begin = "busy" /\ on = 1 /\ panel # 0 /\ message = << >>
         /\ acking = 1 => bits = 8 /\ mode # "idle"
<1>1. /\ Silent /\ Unanswered /\ acking \in {0, 1} /\ bits \in 0 .. 8
      /\ acking = 1 => bits = 8 /\ mode # "idle"
  BY DEF BusInv, WrongInv, BusTypeOK, Settings
<1>2. First => begin = "busy" /\ on = 1 /\ panel # 0 /\ message = << >>
  <2> SUFFICES ASSUME First PROVE on = 1 /\ panel # 0 /\ message = << >>
    BY DEF First
  <2>1. begin = "busy" /\ stage = "probe"
    BY DEF First
  <2> QED BY <2>1 DEF BusInv, BusTypeOK, Settings, SearchInv
<1> QED BY <1>1, <1>2, OperateMoves, Fixed, BytesAre DEF BusInv

LEMMA StaysIdle ==
  ASSUME mode' = "idle", acking' = 0
  PROVE  Unanswered'
BY DEF Unanswered, Loose

LEMMA UnpoweredWrong ==
  ASSUME BusInv, Operate, swapped # wiring, on = 0 \/ panel = 0
  PROVE  Silent' /\ Unanswered'
<1>1. UNCHANGED logic /\ mode = "idle" /\ acking = 0
  BY Unpowered DEF BusInv, Settings
<1> QED BY <1>1, StaysIdle, WrongAt DEF logic, Silent

(* The start condition is a falling clock to the panel.                    *)
LEMMA StartWrong ==
  ASSUME BusInv, Operate, swapped # wiring, on = 1, panel # 0, AtStart
  PROVE  Silent' /\ Unanswered'
<1>1. /\ done \in {0, 1, 2, 3} /\ done' = done + 1 /\ ~InByte /\ Watches
      /\ BytesEnd' \in Nat /\ BytesEnd' >= 32
  <2>1. done \in {0, 1, 2, 3} /\ ~InByte
    BY WrongAt DEF AtStart, InByte
  <2> QED BY <2>1, WrongAt, PanelWatches DEF BusInv
<1>2. CASE done <= 1
  <2>1. UNCHANGED logic
    BY <1>1, <1>2, LevelsAre, EventsWrong DEF BusInv
  <2>2. done <= 2 /\ done' <= 2 /\ ~(done' >= 3) /\ ~(done' >= BytesEnd')
    BY <1>1, <1>2
  <2> QED BY <2>1, <2>2, WrongAt DEF logic, Silent, Unanswered
<1>3. CASE done = 2
  <2>1. ClockFalls /\ ~SdaHigh'
    BY <1>1, <1>3, LevelsAre, EventsWrong DEF BusInv
  <2>2. /\ done' = 3 /\ ~(done' <= 2) /\ ~(done' >= BytesEnd') /\ ~(done' >= 4)
    BY <1>1, <1>3
  <2>3. /\ First \/ (acking = 0 /\ (mode = "idle" \/ bits <= 1))
        /\ acking \in {0, 1} /\ bits \in 0 .. 8
        /\ Silent /\ (First => begin = "busy") /\ begin' = begin /\ (First' <=> First)
    BY <1>3, WrongAt DEF Unanswered
  <2>4. CASE acking = 1
    <3>1. acking' = 0 /\ bits' = 0
      BY <2>1, <2>4 DEF ClockFalls
    <3> QED BY <2>1, <2>2, <2>3, <2>4, <3>1 DEF Silent, Unanswered, Loose
  <2>5. CASE acking = 0 /\ mode # "idle" /\ bits = 8
    <3>1. First
      BY <2>3, <2>5
    <3>2. acking' = 1 \/ (acking' = 0 /\ mode' = "idle")
      BY <2>1, <2>5 DEF ClockFalls
    <3> QED BY <2>2, <2>3, <3>1, <3>2 DEF Silent, Unanswered, Loose, Stuck
  <2>6. CASE acking = 0 /\ (mode = "idle" \/ bits # 8)
    <3>1. UNCHANGED logic
      BY <2>1, <2>6 DEF ClockFalls
    <3>2. mode = "idle" \/ bits <= 7
      BY <2>3, <2>6
    <3> QED BY <2>1, <2>2, <2>3, <2>6, <3>1, <3>2 DEF Silent, Unanswered, Loose, logic
  <2> QED BY <2>3, <2>4, <2>5, <2>6
<1>4. CASE done = 3
  <2>1. UNCHANGED logic /\ ~SdaHigh /\ ~SdaHigh'
    BY <1>1, <1>4, LevelsAre, EventsWrong DEF BusInv
  <2>2. /\ ~(done' <= 2) /\ ~(done' >= BytesEnd') /\ done' >= 4 /\ done' = 4
        /\ done >= 3 /\ done < BytesEnd
        /\ Place' = 0 /\ Number' = 0
    BY <1>1, <1>4, NextPlace, WrongAt DEF BusInv
  <2>3. (acking = 0 /\ Loose) \/ Stuck
    BY <2>2, WrongAt DEF Unanswered
  <2>4. CASE acking = 0 /\ Loose
    <3>1. mode = "idle" \/ bits <= 7
      BY <2>1, <2>4 DEF Loose
    <3>2. Loose'
      BY <2>1, <2>2, <3>1 DEF Loose, logic
    <3> QED BY <2>1, <2>2, <2>4, <3>2, WrongAt DEF Silent, Unanswered, logic
  <2>5. CASE Stuck
    <3>1. Current' = 2 * address
      BY <2>2, OperateMoves, BytesAre DEF Current, BusInv
    <3>2. Current' \in 0 .. 255
      BY <3>1 DEF BusInv, BusTypeOK
    <3>3. 8 - ((Place' + 2) \div 3) = 8
      BY <2>2
    <3>4. Current' \div 2 ^ (8 - ((Place' + 2) \div 3)) = 0
      BY <3>2, <3>3, WholeByte
    <3>5. Stuck'
      BY <2>1, <2>2, <2>5, <3>4, WrongAt DEF Stuck, logic
    <3> QED BY <2>1, <2>2, <3>5, WrongAt DEF Silent, Unanswered, logic
  <2> QED BY <2>3, <2>4, <2>5
<1> QED BY <1>1, <1>2, <1>3, <1>4

LEMMA WrongByte ==
  ASSUME BusInv, Operate, swapped # wiring, InByte, Place < 27
  PROVE  /\ Number' = Number /\ Place' = Place + 1 /\ Current' = Current
         /\ Place \in 0 .. 26 /\ Current \in 0 .. 255 /\ done' >= 4
         /\ (acking = 0 /\ Loose) \/ Stuck
         /\ Loose => mode = "idle" \/ /\ ~(SdaHigh /\ SclHigh)
                                      /\ bits <= 7 \/ (Place % 3 = 1 /\ SdaHigh)
                                      /\ Place % 3 = 0 /\ SdaHigh => bits = 0
         /\ (acking' = 0 /\ Loose') \/ Stuck' => Unanswered'
<1>1. done >= 4 /\ done < BytesEnd /\ Place \in 0 .. 27 /\ Current \in 0 .. 255
  BY PlaceIs DEF InByte, BusInv
<1>2. /\ InByte' /\ Number' = Number /\ Place' = Place + 1 /\ Current' = Current
  BY NextPlace DEF BusInv
<1>3. done \in Nat /\ done' = done + 1 /\ BytesEnd' = BytesEnd /\ BytesEnd \in Nat
  BY WrongAt
<1>4. /\ ~(done <= 2) /\ done >= 3 /\ ~(done' <= 2) /\ ~(done' >= BytesEnd')
      /\ done' >= 4 /\ done' >= 3 /\ done' < BytesEnd' /\ Place \in 0 .. 26
  BY <1>1, <1>2, <1>3 DEF InByte
<1>5. (acking = 0 /\ Loose) \/ Stuck
  BY <1>1, <1>4, WrongAt DEF Unanswered
<1>6. (acking' = 0 /\ Loose') \/ Stuck' => Unanswered'
  BY <1>4 DEF Unanswered
<1>7. Loose => mode = "idle" \/ /\ ~(SdaHigh /\ SclHigh)
                                /\ bits <= 7 \/ (Place % 3 = 1 /\ SdaHigh)
                                /\ Place % 3 = 0 /\ SdaHigh => bits = 0
  BY <1>1, <1>4 DEF Loose
<1> QED BY <1>1, <1>2, <1>4, <1>5, <1>6, <1>7

LEMMA StaysLoose ==
  ASSUME done' >= 4, done' \in Nat, acking' = 0,
         mode' = "idle" \/ /\ ~(SdaHigh' /\ SclHigh')
                           /\ bits' <= 7 \/ (Place' % 3 = 1 /\ SdaHigh')
                           /\ Place' % 3 = 0 /\ SdaHigh' => bits' = 0
  PROVE  Loose'
BY DEF Loose

(* A bit that differs from the last one is an edge of the panel's clock.   *)
LEMMA ShowWrong ==
  ASSUME BusInv, Operate, swapped # wiring, on = 1, panel # 0, AtShow
  PROVE  Silent' /\ Unanswered'
<1>1. /\ InByte /\ Place < 24 /\ Place % 3 = 0 /\ Place < 27 /\ Place # 26
      /\ Watches /\ Place \in 0 .. 27
  <2>1. InByte /\ Place < 24 /\ Place % 3 = 0 /\ Place \in 0 .. 27
    BY PlaceIs DEF AtShow, BusInv
  <2>2. Place < 27 /\ Place # 26
    BY <2>1
  <2> QED BY <2>1, <2>2, PanelWatches DEF BusInv
<1>2. /\ ~SclHigh /\ ~SclHigh' /\ (SdaHigh' <=> Bit(Current, Place \div 3) = 1)
  BY <1>1, LevelsAre DEF BusInv
<1>3. /\ Place' = Place + 1 /\ Current' = Current /\ Place' % 3 = 1 /\ Place' <= 24
      /\ done' >= 4 /\ done' \in Nat /\ Current \in 0 .. 255
  BY <1>1, WrongByte, WrongAt
<1>4. CASE acking = 0 /\ Loose
  <2>1. mode = "idle" \/ (bits <= 7 /\ (SdaHigh => bits = 0))
    BY <1>1, <1>4, WrongByte
  <2>2. CASE ~SdaHigh /\ SdaHigh'
    <3>1. ClockRises(0)
      BY <1>1, <1>2, <2>2, EventsWrong DEF BusInv
    <3>2. acking' = 0 /\ mode' = mode /\ taken' = taken
      BY <1>4, <3>1 DEF ClockRises, logic
    <3>3. Loose'
      BY <1>2, <1>3, <2>2, <3>2, StaysLoose
    <3> QED BY <1>1, <3>2, <3>3, WrongByte, WrongAt DEF Silent
  <2>3. CASE ~(~SdaHigh /\ SdaHigh')
    <3>1. UNCHANGED logic
      <4>1. CASE SdaHigh /\ ~SdaHigh'
        <5>1. ClockFalls
          BY <1>1, <4>1, EventsWrong DEF BusInv
        <5>2. ~(mode # "idle" /\ bits = 8)
          BY <2>1
        <5> QED BY <1>4, <5>1, <5>2 DEF ClockFalls
      <4>2. CASE SdaHigh <=> SdaHigh'
        BY <1>1, <1>2, <4>2, EventsWrong DEF BusInv
      <4> QED BY <2>3, <4>1, <4>2
    <3>2. Loose'
      BY <1>2, <1>3, <1>4, <2>1, <3>1, StaysLoose DEF logic
    <3> QED BY <1>1, <1>4, <3>1, <3>2, WrongByte, WrongAt DEF Silent, logic
  <2> QED BY <2>2, <2>3
<1>5. CASE Stuck
  <2>1. acking = 1 /\ bits = 8 /\ First /\ First' /\ begin = "busy" /\ begin' = "busy"
    BY <1>5, WrongAt DEF Stuck
  <2>2. CASE SdaHigh /\ ~SdaHigh'
    <3>1. ClockFalls
      BY <1>1, <2>2, EventsWrong DEF BusInv
    <3>2. acking' = 0 /\ bits' = 0
      BY <2>1, <3>1 DEF ClockFalls
    <3>3. Loose'
      BY <1>2, <1>3, <3>2, StaysLoose
    <3> QED BY <1>1, <2>1, <3>2, <3>3, WrongByte DEF Silent
  <2>3. CASE ~(SdaHigh /\ ~SdaHigh')
    <3>1. UNCHANGED logic
      <4>1. CASE ~SdaHigh /\ SdaHigh'
        <5>1. ClockRises(0)
          BY <1>1, <1>2, <4>1, EventsWrong DEF BusInv
        <5> QED BY <2>1, <5>1 DEF ClockRises
      <4>2. CASE SdaHigh <=> SdaHigh'
        BY <1>1, <1>2, <4>2, EventsWrong DEF BusInv
      <4> QED BY <2>3, <4>1, <4>2
    <3>2. SdaHigh' \/ Current' \div 2 ^ (8 - ((Place' + 2) \div 3)) = 0
      <4> SUFFICES ASSUME ~SdaHigh' PROVE Current' \div 2 ^ (8 - ((Place' + 2) \div 3)) = 0
        OBVIOUS
      <4>1. ~SdaHigh
        BY <2>3
      <4> DEFINE k == Place \div 3
      <4>2. /\ k \in 0 .. 7 /\ (Place + 2) \div 3 = k
            /\ 8 - ((Place' + 2) \div 3) = 7 - k
        BY <1>1, <1>3
      <4>3. done >= 4
        BY <1>1 DEF InByte
      <4>4. Current \div 2 ^ (8 - k) = 0
        <5>1. done # 3
          BY <4>3
        <5> QED BY <1>5, <4>1, <4>2, <5>1 DEF Stuck
      <4>5. /\ Bit(Current, k) \in {0, 1} /\ Bit(Current, k) # 1
            /\ Current \div 2 ^ (7 - k) = 2 * (Current \div 2 ^ (8 - k)) + Bit(Current, k)
        BY <1>2, <1>3, <4>2, BitsOfByte
      <4> HIDE DEF k
      <4> QED BY <1>3, <4>2, <4>4, <4>5
    <3>3. Stuck'
      BY <1>3, <2>1, <3>1, <3>2 DEF Stuck, logic
    <3> QED BY <1>1, <2>1, <3>3, WrongByte DEF Silent
  <2> QED BY <2>2, <2>3
<1> QED BY <1>1, <1>4, <1>5, WrongByte

(* SCL rises with SDA high: a stop.                                        *)
LEMMA RiseWrong ==
  ASSUME BusInv, Operate, swapped # wiring, on = 1, panel # 0, AtRise
  PROVE  Silent' /\ Unanswered'
<1>1. /\ InByte /\ Place < 24 /\ Place % 3 = 1 /\ Place < 27 /\ Place # 26
      /\ Watches /\ Place \in 0 .. 27
  <2>1. InByte /\ Place < 24 /\ Place % 3 = 1 /\ Place \in 0 .. 27
    BY PlaceIs DEF AtRise, BusInv
  <2>2. Place < 27 /\ Place # 26
    BY <2>1
  <2> QED BY <2>1, <2>2, PanelWatches DEF BusInv
<1>2. ~SclHigh /\ SclHigh' /\ (SdaHigh' <=> SdaHigh)
  BY <1>1, LevelsAre DEF BusInv
<1>3. /\ Place' = Place + 1 /\ Current' = Current /\ Place' % 3 = 2 /\ Place' <= 24
      /\ done' >= 4 /\ done' \in Nat
      /\ (Place' + 2) \div 3 = (Place + 2) \div 3
  BY <1>1, WrongByte, WrongAt
<1>4. CASE acking = 0 /\ Loose
  <2>1. mode = "idle" \/ bits <= 7 \/ SdaHigh
    BY <1>1, <1>4, WrongByte
  <2>2. CASE SdaHigh
    <3>1. Stop
      BY <1>1, <1>2, <1>4, <2>2, EventsWrong DEF BusInv
    <3> QED BY <1>4, <3>1, StaysIdle, WrongAt DEF Stop, Silent
  <2>3. CASE ~SdaHigh
    <3>1. UNCHANGED logic
      BY <1>1, <1>2, <2>3, EventsWrong DEF BusInv
    <3>2. Loose'
      BY <1>2, <1>3, <1>4, <2>1, <2>3, <3>1, StaysLoose DEF logic
    <3> QED BY <1>1, <1>4, <3>1, <3>2, WrongByte, WrongAt DEF Silent, logic
  <2> QED BY <2>2, <2>3
<1>5. CASE Stuck
  <2>1. acking = 1 /\ bits = 8 /\ First' /\ begin' = "busy"
    BY <1>5, WrongAt DEF Stuck
  <2>2. UNCHANGED logic
    BY <1>1, <1>2, <2>1, EventsWrong DEF BusInv
  <2>3. Stuck'
    <3>1. done # 3
      BY <1>1, WrongAt DEF InByte
    <3> QED BY <1>2, <1>3, <1>5, <2>1, <2>2, <3>1 DEF Stuck, logic
  <2> QED BY <1>1, <2>1, <2>3, WrongByte DEF Silent
<1> QED BY <1>1, <1>4, <1>5, WrongByte

(* SCL falls with SDA high: a start, and no bit since.                     *)
LEMMA FallWrong ==
  ASSUME BusInv, Operate, swapped # wiring, on = 1, panel # 0, AtFall
  PROVE  Silent' /\ Unanswered'
<1>1. /\ InByte /\ Place < 24 /\ Place % 3 = 2 /\ Place < 27 /\ Place # 26
      /\ Watches /\ Place \in 0 .. 27
  <2>1. InByte /\ Place < 24 /\ Place % 3 = 2 /\ Place \in 0 .. 27
    BY PlaceIs DEF AtFall, BusInv
  <2>2. Place < 27 /\ Place # 26
    BY <2>1
  <2> QED BY <2>1, <2>2, PanelWatches DEF BusInv
<1>2. SclHigh /\ ~SclHigh' /\ (SdaHigh' <=> SdaHigh)
  BY <1>1, LevelsAre DEF BusInv
<1>3. /\ Place' = Place + 1 /\ Current' = Current /\ Place' % 3 = 0 /\ Place' <= 24
      /\ done' >= 4 /\ done' \in Nat
      /\ (Place' + 2) \div 3 = (Place + 2) \div 3
  BY <1>1, WrongByte, WrongAt
<1>4. CASE acking = 0 /\ Loose
  <2>1. mode = "idle" \/ bits <= 7
    BY <1>1, <1>4, WrongByte
  <2>2. CASE SdaHigh
    <3>1. Start
      BY <1>1, <1>2, <1>4, <2>2, EventsWrong DEF BusInv
    <3>2. Loose'
      BY <1>2, <1>3, <3>1, StaysLoose DEF Start
    <3> QED BY <1>1, <3>1, <3>2, WrongByte, WrongAt DEF Start, Silent
  <2>3. CASE ~SdaHigh
    <3>1. UNCHANGED logic
      BY <1>1, <1>2, <2>3, EventsWrong DEF BusInv
    <3>2. Loose'
      BY <1>2, <1>3, <1>4, <2>1, <2>3, <3>1, StaysLoose DEF logic
    <3> QED BY <1>1, <1>4, <3>1, <3>2, WrongByte, WrongAt DEF Silent, logic
  <2> QED BY <2>2, <2>3
<1>5. CASE Stuck
  <2>1. acking = 1 /\ bits = 8 /\ First' /\ begin' = "busy"
    BY <1>5, WrongAt DEF Stuck
  <2>2. UNCHANGED logic
    BY <1>1, <1>2, <2>1, EventsWrong DEF BusInv
  <2>3. Stuck'
    <3>1. done # 3
      BY <1>1, WrongAt DEF InByte
    <3> QED BY <1>2, <1>3, <1>5, <2>1, <2>2, <3>1 DEF Stuck, logic
  <2> QED BY <1>1, <2>1, <2>3, WrongByte DEF Silent
<1> QED BY <1>1, <1>4, <1>5, WrongByte

(* An address has a one in it and an even byte ends with a zero, so a panel*)
(* that held its line at first has let go by the time SDA is released.     *)
LEMMA AnswerWrong ==
  ASSUME BusInv, Operate, swapped # wiring, on = 1, panel # 0, AtAnswer
  PROVE  Silent' /\ Unanswered'
<1>1. InByte /\ Place \in {24, 25, 26, 27} /\ Number \in 0 .. Len(message)
      /\ Current \in 0 .. 255
  BY PlaceIs DEF AtAnswer, BusInv
<1>2. acking = 0 /\ Loose
  <2>1. (acking = 0 /\ Loose) \/ Stuck
    <3>1. done >= 3 /\ done < BytesEnd
      BY <1>1, WrongAt DEF InByte
    <3> QED BY <3>1, WrongAt DEF Unanswered
  <2>2. ASSUME Stuck PROVE FALSE
    <3>1. First /\ done >= 4 /\ done # 3 /\ Place <= 24
      BY <1>1, <2>2, WrongAt DEF Stuck, InByte
    <3>2. Place = 24 /\ (Place + 2) \div 3 = 8 /\ (Place - 1) \div 3 = 7 /\ Place \in 1 .. 24
      BY <1>1, <3>1
    <3>3. Number = 0
      BY <1>1, <3>1, WrongAt
    <3>4. Current = 2 * address /\ address \in 1 .. 127
      BY <1>1, <3>3, PlaceIs DEF BusInv, BusTypeOK
    <3>5. Current \div 2 ^ (8 - 8) # 0
      <4>1. Current \div 2 ^ 0 = Current
        BY <1>1, WholeByte
      <4> QED BY <3>4, <4>1
    <3>6. Bit(Current, 7) # 1
      <4>1. Bit(Current, 7) = (Current \div 2 ^ 0) % 2
        BY DEF Bit
      <4>2. Current \div 2 ^ 0 = Current
        BY <1>1, WholeByte
      <4> QED BY <3>4, <4>1, <4>2
    <3>7. ~SdaHigh
      <4>1. done < BytesEnd /\ BytesEnd < End /\ ~(done < 3)
        BY <1>1, <3>1, WrongAt DEF InByte
      <4> QED BY <1>1, <3>2, <3>6, <4>1, WrongAt DEF SdaHigh
    <3> QED BY <2>2, <3>1, <3>2, <3>5, <3>7 DEF Stuck
  <2> QED BY <2>1, <2>2
<1>3. mode = "idle" \/ /\ ~(SdaHigh /\ SclHigh)
                       /\ bits <= 7 \/ (Place % 3 = 1 /\ SdaHigh)
                       /\ Place % 3 = 0 /\ SdaHigh => bits = 0
  BY <1>1, <1>2, WrongAt DEF Loose, InByte
<1>4. CASE Place = 24
  <2>1. /\ Watches /\ ~SclHigh /\ ~SclHigh' /\ SdaHigh'
    BY <1>1, <1>4, LevelsAre, PanelWatches DEF BusInv
  <2>2. /\ acking' = 0 /\ mode' = mode /\ taken' = taken
    <3>1. CASE SdaHigh
      BY <1>2, <2>1, <3>1, EventsWrong DEF BusInv, logic
    <3>2. CASE ~SdaHigh
      <4>1. ClockRises(0)
        BY <2>1, <3>2, EventsWrong DEF BusInv
      <4> QED BY <1>2, <4>1 DEF ClockRises, logic
    <3> QED BY <3>1, <3>2
  <2>3. Place' = 25 /\ Place' % 3 = 1 /\ done' >= 4 /\ done' \in Nat
    BY <1>1, <1>4, WrongByte, WrongAt
  <2>4. Loose'
    BY <2>1, <2>2, <2>3, StaysLoose
  <2> QED BY <1>1, <1>4, <2>2, <2>4, WrongByte, WrongAt DEF Silent
<1>5. CASE Place = 25
  <2>1. /\ Watches /\ ~SclHigh /\ SclHigh' /\ SdaHigh /\ SdaHigh'
    BY <1>1, <1>5, LevelsAre, PanelWatches DEF BusInv
  <2>2. Stop
    BY <1>2, <2>1, EventsWrong DEF BusInv
  <2> QED BY <1>2, <2>2, StaysIdle, WrongAt DEF Stop, Silent
<1>6. CASE Place = 26
  <2>1. UNCHANGED logic /\ mode = "idle"
    BY <1>1, <1>3, <1>6, LevelsAre, PanelWatches DEF BusInv
  <2> QED BY <1>2, <2>1, StaysIdle, WrongAt DEF Silent, logic
<1>7. CASE Place = 27
  <2>1. /\ Watches /\ SclHigh /\ ~SclHigh' /\ SdaHigh /\ SdaHigh'
    BY <1>1, <1>7, LevelsAre, PanelWatches DEF BusInv
  <2>2. Start
    BY <1>2, <2>1, EventsWrong DEF BusInv
  <2>3. acking' = 0 /\ bits' = 0 /\ mode' = "address" /\ taken' = << >>
    BY <2>2 DEF Start
  <2>4. /\ done' = 4 + 28 * Number + 28 /\ done' \in Nat /\ done' >= 4 /\ ~(done' <= 2)
        /\ Place' = 0 /\ (done' < BytesEnd' \/ done' = BytesEnd')
    BY <1>1, <1>7, PlaceIs, NextPlace, WrongAt DEF BusInv, InByte
  <2>5. Loose'
    BY <2>1, <2>3, <2>4, StaysLoose
  <2> QED BY <2>3, <2>4, <2>5, WrongAt DEF Silent, Unanswered
<1> QED BY <1>1, <1>4, <1>5, <1>6, <1>7

(* The stop condition is a rising clock to the panel.                      *)
LEMMA StopWrong ==
  ASSUME BusInv, Operate, swapped # wiring, on = 1, panel # 0, AtStop
  PROVE  Silent' /\ Unanswered'
<1>1. /\ done \in {BytesEnd, BytesEnd + 1, BytesEnd + 2} /\ done' = done + 1
      /\ BytesEnd' = BytesEnd /\ BytesEnd \in Nat /\ BytesEnd >= 32
      /\ End = BytesEnd + 3 /\ End' = End
  BY WrongAt DEF AtStop
<1>2. done >= BytesEnd /\ done # End /\ ~InByte /\ ~(done' <= 2) /\ ~(done' < BytesEnd')
  BY <1>1 DEF InByte
<1>3. acking = 0 /\ (mode = "idle" \/ bits = 0) /\ Watches
  BY <1>2, WrongAt, PanelWatches DEF Unanswered, BusInv
<1>4. CASE done = BytesEnd
  <2>1. ClockFalls
    BY <1>3, <1>4, LevelsAre, EventsWrong DEF BusInv
  <2>2. ~(mode # "idle" /\ bits = 8)
    BY <1>3
  <2>3. UNCHANGED logic
    BY <1>3, <2>1, <2>2 DEF ClockFalls
  <2> QED BY <1>2, <1>3, <2>3, WrongAt DEF Silent, Unanswered, logic
<1>5. CASE done = BytesEnd + 1
  <2>1. UNCHANGED logic
    BY <1>3, <1>5, LevelsAre, EventsWrong DEF BusInv
  <2> QED BY <1>2, <1>3, <2>1, WrongAt DEF Silent, Unanswered, logic
<1>6. CASE done = BytesEnd + 2
  <2>1. ClockRises(1)
    BY <1>3, <1>6, LevelsAre, EventsWrong DEF BusInv
  <2>2. /\ acking' = 0 /\ mode' = mode /\ taken' = taken
        /\ mode = "idle" \/ bits' = 1
    BY <1>3, <2>1 DEF ClockRises, logic
  <2>3. done' = End'
    BY <1>1, <1>6
  <2> QED BY <1>2, <2>2, <2>3, WrongAt DEF Silent, Unanswered
<1> QED BY <1>1, <1>4, <1>5, <1>6

(* With the pins exchanged nobody pulls the line that is read.             *)
LEMMA WrongRefused ==
  ASSUME BusInv, Operate, swapped # wiring, done' >= 31
  PROVE  ok' = 0
<1>1. CASE done >= 31
  <2>1. ok = 0
    BY <1>1 DEF BusInv, WrongInv
  <2> QED BY <2>1, PanelWatches DEF BusInv
<1>2. CASE ~(done >= 31)
  <2>1. done = 30 /\ InByte
    BY <1>2, WrongAt DEF InByte
  <2>2. Place = 26
    BY <2>1 DEF Place
  <2>3. SdaHigh
    BY <2>1, <2>2, LevelsAre DEF BusInv
  <2>4. Level(SdaPin) = 1
    BY <2>3, PinsAre DEF BusInv, PulledInv, Level, LevelOf
  <2> QED BY <2>1, <2>2, <2>4, PanelWatches DEF BusInv
<1> QED BY <1>1, <1>2

LEMMA WrongStep ==
  ASSUME BusInv, Operate
  PROVE  WrongInv'
<1> SUFFICES ASSUME swapped' # wiring'
             PROVE  /\ Silent' /\ Unanswered'
                    /\ begin' = "busy" => stage' = "probe"
                    /\ done' >= 31 => ok' = 0
  BY DEF WrongInv
<1>1. swapped # wiring
  BY Fixed
<1>2. Silent' /\ Unanswered'
  <2>1. CASE on = 0 \/ panel = 0
    BY <1>1, <2>1, UnpoweredWrong
  <2>2. CASE on = 1 /\ panel # 0
    BY <1>1, <2>2, Kinds, StartWrong, ShowWrong, RiseWrong, FallWrong, AnswerWrong, StopWrong
       DEF BusInv
  <2> QED BY <2>1, <2>2 DEF BusInv, BusTypeOK
<1>3. begin' = "busy" => stage' = "probe"
  BY <1>1, Fixed DEF BusInv, WrongInv
<1> QED BY <1>1, <1>2, <1>3, WrongRefused

-----------------------------------------------------------------------------
(***************************************************************************)
(* The search and the calls                                                *)
(***************************************************************************)
LEMMA SearchStep ==
  ASSUME BusInv, Operate
  PROVE  SearchInv'
<1>1. stage # "rest"
  BY DEF Operate
<1>2. SearchInv
  BY DEF BusInv
<1> QED BY <1>1, <1>2, Fixed DEF SearchInv, PanelFound, NothingElseFound, NotPast, SdaPin, Unusual

LEMMA OperateStep ==
  ASSUME BusInv, Operate
  PROVE  BusInv'
BY TypeStep, PulledStep, SearchStep, RightStep, WrongStep DEF BusInv

(* The scan goes on at the next address that is not a usual one.           *)
LEMMA ScanIs ==
  ASSUME NEW a \in Int
  PROVE  /\ ScanFrom(a) \in Int /\ ScanFrom(a) >= a /\ Unusual(ScanFrom(a))
         /\ \A p \in Int : Unusual(p) /\ a <= p => ScanFrom(a) <= p
<1> DEFINE P(b) == Unusual(b) /\ \A c \in a .. (b - 1) : ~Unusual(c)
<1>1. Usual[1] \in Int /\ Usual[2] \in Int
  BY UsualAre
<1>2. \E b \in a .. (a + 2) : P(b)
  <2>1. CASE Unusual(a)
    <3>1. P(a) /\ a \in a .. (a + 2)
      BY <2>1
    <3> QED BY <3>1
  <2>2. CASE ~Unusual(a) /\ Unusual(a + 1)
    <3>1. P(a + 1) /\ a + 1 \in a .. (a + 2)
      BY <2>2
    <3> QED BY <3>1
  <2>3. CASE ~Unusual(a) /\ ~Unusual(a + 1)
    <3>1. Unusual(a + 2)
      BY <1>1, <2>3 DEF Unusual
    <3>2. \A c \in a .. (a + 2 - 1) : c = a \/ c = a + 1
      OBVIOUS
    <3>3. P(a + 2) /\ a + 2 \in a .. (a + 2)
      BY <2>3, <3>1, <3>2
    <3> QED BY <3>3
  <2> QED BY <2>1, <2>2, <2>3
<1>3. ScanFrom(a) \in a .. (a + 2) /\ P(ScanFrom(a))
  <2> DEFINE s == CHOOSE b \in a .. (a + 2) : P(b)
  <2>1. s \in a .. (a + 2) /\ P(s)
    <3> HIDE DEF P
    <3> QED BY <1>2
  <2> QED BY <2>1 DEF ScanFrom
<1> HIDE DEF P
<1>4. ASSUME NEW p \in Int, Unusual(p), a <= p
      PROVE  ScanFrom(a) <= p
  <2>1. p \notin a .. (ScanFrom(a) - 1)
    BY <1>3, <1>4 DEF P
  <2> QED BY <1>3, <1>4, <2>1
<1> QED BY <1>3, <1>4 DEF P

(* What follows an address without the panel does not pass the panel.      *)
LEMMA FollowingIs ==
  ASSUME BusInv, stage = "probe"
  PROVE  /\ Following \in Int /\ Low \in Int /\ High \in Int /\ Low >= 1 /\ High <= 127
         /\ Following <= High => Following \in {Usual[1], Usual[2]} \cup (Low .. High)
         /\ address = Usual[1] => Following = Usual[2] /\ Following <= High
         /\ NotPast /\ panel # 0 /\ panel # address
              => /\ Following <= High
                 /\ panel # Usual[1]
                 /\ panel = Usual[2] => Following = Usual[2]
                 /\ Following \in {Usual[1], Usual[2]} \/ (Unusual(panel) => Following <= panel)
<1>1. /\ Usual[1] \in 1 .. 127 /\ Usual[2] \in 1 .. 127 /\ Usual[1] # Usual[2]
      /\ Low \in 1 .. 127 /\ High \in 1 .. 127 /\ High > Usual[2]
      /\ Panels \subseteq {0, Usual[1], Usual[2]} \cup (Low .. High)
  BY UsualAre, SoftI2cAssumption
<1>2. /\ address \in {Usual[1], Usual[2]} \cup (Low .. High) /\ address \in Int
      /\ panel \in {0, Usual[1], Usual[2]} \cup (Low .. High)
  BY <1>1 DEF BusInv, SearchInv, BusTypeOK
<1>3. CASE address = Usual[1]
  <2>1. Following = Usual[2]
    BY <1>3 DEF Following
  <2> QED BY <1>1, <1>2, <1>3, <2>1 DEF NotPast
<1>4. CASE address = Usual[2]
  <2>1. Following = ScanFrom(Low)
    BY <1>1, <1>4 DEF Following
  <2>2. Following \in Int /\ Following >= Low /\ Unusual(Following)
        /\ \A p \in Int : Unusual(p) /\ Low <= p => Following <= p
    BY <1>1, <2>1, ScanIs
  <2>3. ASSUME NotPast, panel # 0, panel # address
        PROVE  panel # Usual[1] /\ panel # Usual[2] /\ panel \in Low .. High /\ Unusual(panel)
    BY <1>1, <1>2, <1>4, <2>3 DEF NotPast, Unusual
  <2> QED BY <1>1, <1>4, <2>2, <2>3
<1>5. CASE address # Usual[1] /\ address # Usual[2]
  <2>1. Following = ScanFrom(address + 1)
    BY <1>5 DEF Following
  <2>2. Following \in Int /\ Following >= address + 1 /\ Unusual(Following)
        /\ \A p \in Int : Unusual(p) /\ address + 1 <= p => Following <= p
    BY <1>2, <2>1, ScanIs
  <2>3. ASSUME NotPast, panel # 0, panel # address
        PROVE  /\ panel # Usual[1] /\ panel # Usual[2] /\ panel \in Low .. High /\ Unusual(panel)
               /\ address + 1 <= panel
    <3>1. panel # Usual[1] /\ panel # Usual[2]
      BY <1>1, <1>5, <2>3 DEF NotPast
    <3>2. Unusual(panel) /\ panel \in Low .. High
      BY <1>2, <2>3, <3>1 DEF Unusual
    <3>3. address <= panel
      BY <1>5, <2>3, <3>2 DEF NotPast
    <3> QED BY <1>2, <2>3, <3>1, <3>2, <3>3
  <2>4. address \in Low .. High
    BY <1>2, <1>5
  <2> QED BY <1>1, <1>5, <2>2, <2>3, <2>4
<1> QED BY <1>3, <1>4, <1>5

(* What a transaction leaves.                                              *)
LEMMA AtEnd ==
  ASSUME BusInv, done = End
  PROVE  /\ pulled = {} /\ acking = 0
         /\ swapped = wiring => \/ /\ Synced /\ mode = "idle" /\ ok = 1 /\ address = panel
                                   /\ TakenIs(Len(message)) \/ Resumed
                                \/ Away /\ ok = 0
         /\ swapped # wiring => /\ ok = 0 /\ Silent
                                /\ mode = "idle" \/ bits <= 1
                                /\ begin = "busy" => stage = "probe"
<1>1. /\ BytesEnd \in Nat /\ BytesEnd >= 32 /\ End = BytesEnd + 3
  BY BytesAre DEF BusInv
<1>2. /\ done >= 31 /\ done >= 3 /\ ~(done <= 2) /\ done # 3 /\ done >= BytesEnd
      /\ ~(done < End) /\ done >= BytesEnd + 2
  BY <1>1
<1>3. pulled = {}
  BY <1>2, NothingPulled DEF BusInv, SdaHigh, SclHigh
<1>4. CASE swapped = wiring
  <2>1. Synced \/ Away
    BY <1>2, <1>4 DEF BusInv, RightInv
  <2>2. CASE Synced
    BY <1>2, <1>3, <1>4, <2>2 DEF Synced
  <2>3. CASE Away
    BY <1>2, <1>3, <1>4, <2>3 DEF Away
  <2> QED BY <2>1, <2>2, <2>3
<1>5. CASE swapped # wiring
  <2>1. Silent /\ Unanswered /\ ok = 0 /\ (begin = "busy" => stage = "probe")
    BY <1>2, <1>5 DEF BusInv, WrongInv
  <2>2. bits \in 0 .. 8
    BY DEF BusInv, BusTypeOK
  <2>3. acking = 0 /\ (mode = "idle" \/ bits <= 1)
    BY <1>2, <2>1, <2>2 DEF Unanswered
  <2> QED BY <1>3, <1>5, <2>1, <2>3
<1> QED BY <1>4, <1>5

LEMMA EndIsNat ==
  ASSUME NEW a \in 1 .. 127, NEW m \in Seq(0 .. 255)
  PROVE  Len(StartCondition) + 28 * Len(<<2 * a>> \o m) + Len(StopCondition) \in Nat
<1>1. <<2 * a>> \in Seq(0 .. 255)
  OBVIOUS
<1>2. <<2 * a>> \o m \in Seq(0 .. 255)
  BY <1>1
<1>3. Len(<<2 * a>> \o m) \in Nat
  BY <1>2
<1>4. Len(StartCondition) = 4 /\ Len(StopCondition) = 3
  BY DEF StartCondition, StopCondition
<1> QED BY <1>3, <1>4

(* A call begins, and ends, with nothing done.                             *)
LEMMA Fresh ==
  ASSUME done' = 0, pulled' = {}, address' \in 1 .. 127, message' \in Seq(0 .. 255),
         swapped' \in {0, 1}
  PROVE  /\ done' \in 0 .. End' /\ PulledInv'
<1>1. End' \in Nat
  BY EndIsNat DEF End, BytesEnd, Bytes
<1>2. SdaHigh' /\ SclHigh'
  BY DEF SdaHigh, SclHigh
<1> QED BY <1>1, <1>2 DEF PulledInv

LEMMA FreshType ==
  ASSUME BusInv, UNCHANGED <<setting, on, logic>>,
         stage' \in {"probe", "write", "rest"}, swapped' \in {0, 1},
         address' \in 1 .. 127, detected' \in 0 .. 127, message' \in Seq(0 .. 255),
         ok' \in {0, 1}, done' = 0, pulled' = {}
  PROVE  BusTypeOK' /\ PulledInv' /\ Settings'
<1>1. done' \in 0 .. End' /\ PulledInv'
  BY Fresh
<1> QED BY <1>1 DEF BusInv, BusTypeOK, Settings, setting, logic

(* Fresh with the pins the right way round, and with them exchanged.       *)
LEMMA FreshRight ==
  ASSUME done' = 0, acking' = 0 \/ Resumed',
         begin' # "busy" /\ stage' = "probe" => taken' = << >>,
         stage' # "probe" => mode' # "data" /\ (detected' # 0 => mode' = "idle"),
         stage' # "rest" => ok' = 1
  PROVE  RightInv'
BY DEF RightInv

LEMMA FreshWrong ==
  ASSUME done' = 0, BytesEnd' \in Nat, BytesEnd' >= 32,
         First' \/ (acking' = 0 /\ (mode' = "idle" \/ bits' <= 1)), Silent',
         begin' = "busy" => stage' = "probe"
  PROVE  WrongInv'
BY DEF WrongInv, Unanswered

LEMMA BytesEndIs ==
  ASSUME address' \in 1 .. 127, message' \in Seq(0 .. 255)
  PROVE  BytesEnd' \in Nat /\ BytesEnd' >= 32
<1>1. <<2 * address'>> \in Seq(Int) /\ Len(<<2 * address'>>) = 1 /\ message' \in Seq(Int)
  <2>1. 2 * address' \in Int
    OBVIOUS
  <2>2. \A m \in Seq(0 .. 255) : m \in Seq(Int)
    BY SeqMonotonic, 0 .. 255 \subseteq Int
  <2> QED BY <2>1, <2>2
<1>2. Len(<<2 * address'>> \o message') = 1 + Len(message') /\ Len(message') \in Nat
  BY <1>1
<1>3. Len(StartCondition) = 4
  BY DEF StartCondition
<1> QED BY <1>2, <1>3 DEF BytesEnd, Bytes

(* A pass that ends without an answer has gone past the panel.             *)
LEMMA PassEnds ==
  ASSUME BusInv, stage = "probe", done = End, ok = 0, Following > High,
         swapped = wiring \/ swapped = 0
  PROVE  begin = "late" \/ panel = 0
<1> SUFFICES ASSUME begin # "late", panel # 0 PROVE FALSE
  OBVIOUS
<1>1. swapped = wiring /\ NotPast
  BY DEF BusInv, SearchInv
<1>2. panel # address
  BY <1>1, AtEnd DEF Away
<1>3. Following \in Int /\ High \in Int /\ Following <= High
  BY <1>1, <1>2, FollowingIs
<1> QED BY <1>3

(* A probe ends: found, the next address, the other pins, or none.         *)
LEMMA ProbeStep ==
  ASSUME BusInv, ProbeNext
  PROVE  BusInv'
<1> USE DEF ProbeNext
<1>1. /\ stage = "probe" /\ done = End /\ detected = 0 /\ message = << >>
      /\ address \in 1 .. 127 /\ ok \in {0, 1} /\ swapped \in {0, 1} /\ wiring \in {0, 1}
      /\ PanelFound /\ NothingElseFound
      /\ begin # "late" /\ panel # 0 => \/ swapped = 1 /\ wiring = 0
                                        \/ swapped = wiring /\ NotPast
      /\ begin = "busy" => panel # 0
  BY DEF BusInv, SearchInv, BusTypeOK, Pins, Settings
<1>2. << >> \in Seq(0 .. 255) /\ Usual[1] \in 1 .. 127 /\ Usual[2] \in 1 .. 127
  BY UsualAre
<1>3. UNCHANGED <<setting, on, logic>> /\ pulled' = {} /\ message' = << >> /\ done' = 0
  BY <1>1, AtEnd DEF Found, Probe, Transact
<1>4. /\ wiring' = wiring /\ panel' = panel /\ begin' = begin /\ on' = on
      /\ mode' = mode /\ bits' = bits /\ acking' = acking /\ taken' = taken
      /\ acking' = 0
  BY <1>1, <1>3, AtEnd DEF setting, logic
<1>5. CASE ok = 1 /\ Found(address) /\ UNCHANGED swapped
  <2>1. /\ stage' = "rest" /\ detected' = address /\ address' = Usual[1] /\ ok' = ok
        /\ swapped' = swapped
    BY <1>5 DEF Found
  <2>2. swapped = wiring /\ mode = "idle" /\ address = panel
    BY <1>1, <1>5, AtEnd
  <2>3. BusTypeOK' /\ PulledInv' /\ Settings'
    BY <1>1, <1>2, <1>3, <2>1, FreshType
  <2>4. SearchInv'
    BY <1>3, <1>4, <2>1, <2>2 DEF SearchInv, PanelFound, NothingElseFound, SdaPin
  <2>5. RightInv'
    BY <1>3, <1>4, <2>1, <2>2, FreshRight
  <2>6. WrongInv'
    BY <1>4, <2>1, <2>2 DEF WrongInv
  <2> QED BY <2>3, <2>4, <2>5, <2>6 DEF BusInv
<1>6. CASE ok = 0 /\ Following <= High /\ Probe(swapped, Following)
  <2>1. /\ stage' = stage /\ detected' = detected /\ address' = Following /\ ok' = 1
        /\ swapped' = swapped
    BY <1>6 DEF Probe, Transact
  <2>2. /\ address' \in {Usual[1], Usual[2]} \cup (Low .. High)
        /\ address' \in 1 .. 127
    <3>1. /\ Low \in Int /\ High \in Int /\ Low >= 1 /\ High <= 127
          /\ Following \in {Usual[1], Usual[2]} \cup (Low .. High)
      BY <1>1, <1>6, FollowingIs
    <3>2. Low .. High \subseteq 1 .. 127
      BY <3>1
    <3> QED BY <1>2, <2>1, <3>1, <3>2
  <2>3. BusTypeOK' /\ PulledInv' /\ Settings'
    BY <1>1, <1>2, <1>3, <2>1, <2>2, FreshType
  <2>4. ASSUME begin # "late", panel # 0, swapped = wiring, NotPast
        PROVE  NotPast'
    <3>1. panel # address
      BY <1>1, <1>6, <2>4, AtEnd DEF Away
    <3> QED BY <1>1, <1>4, <2>1, <2>4, <3>1, FollowingIs DEF NotPast, Unusual
  <2>5. SearchInv'
    BY <1>1, <1>3, <1>4, <2>1, <2>2, <2>4 DEF SearchInv, PanelFound, NothingElseFound, SdaPin
  <2>6. RightInv'
    <3>1. CASE swapped = wiring
      <4>1. taken = << >>
        BY <1>1, <1>6, <3>1, AtEnd DEF Away
      <4> QED BY <1>1, <1>3, <1>4, <2>1, <4>1, FreshRight
    <3>2. CASE swapped # wiring
      BY <1>4, <2>1, <3>2 DEF RightInv
    <3> QED BY <3>1, <3>2
  <2>7. WrongInv'
    <3>1. CASE swapped = wiring
      BY <1>4, <2>1, <3>1 DEF WrongInv
    <3>2. CASE swapped # wiring
      <4>1. Silent' /\ (mode' = "idle" \/ bits' <= 1)
        BY <1>1, <1>4, <3>2, AtEnd DEF Silent
      <4> QED BY <1>1, <1>2, <1>3, <1>4, <2>1, <2>2, <4>1, BytesEndIs, FreshWrong
    <3> QED BY <3>1, <3>2
  <2> QED BY <2>3, <2>5, <2>6, <2>7 DEF BusInv
<1>7. CASE ok = 0 /\ Following > High /\ swapped = 1 /\ Probe(0, Usual[1])
  <2>1. /\ stage' = stage /\ detected' = detected /\ address' = Usual[1] /\ ok' = 1
        /\ swapped' = 0
    BY <1>7 DEF Probe, Transact
  <2>2. BusTypeOK' /\ PulledInv' /\ Settings'
    BY <1>1, <1>2, <1>3, <2>1, FreshType
  <2>3. swapped = wiring => begin = "late" \/ panel = 0
    BY <1>1, <1>7, PassEnds
  <2>4. NotPast'
    BY <1>4, <2>1 DEF NotPast
  <2>5. SearchInv'
    BY <1>1, <1>3, <1>4, <1>7, <2>1, <2>3, <2>4 DEF SearchInv, PanelFound, NothingElseFound, SdaPin
  <2>6. RightInv'
    <3>1. CASE swapped # wiring
      <4>1. Silent
        BY <1>1, <3>1, AtEnd
      <4> QED BY <1>1, <1>3, <1>4, <2>1, <4>1, FreshRight DEF Silent
    <3>2. CASE swapped = wiring
      BY <1>1, <1>4, <1>7, <2>1, <3>2 DEF RightInv
    <3> QED BY <3>1, <3>2
  <2>7. WrongInv'
    <3>1. CASE swapped # wiring
      BY <1>1, <1>4, <1>7, <2>1, <3>1 DEF WrongInv
    <3>2. CASE swapped = wiring
      <4>1. Silent' /\ mode' = "idle"
        BY <1>1, <1>4, <1>7, <3>2, AtEnd DEF Silent, Away
      <4> QED BY <1>1, <1>2, <1>3, <1>4, <2>1, <4>1, BytesEndIs, FreshWrong
    <3> QED BY <3>1, <3>2
  <2> QED BY <2>2, <2>5, <2>6, <2>7 DEF BusInv
<1>8. CASE ok = 0 /\ Following > High /\ swapped = 0 /\ Found(0) /\ swapped' = 1
  <2>1. /\ stage' = "rest" /\ detected' = 0 /\ address' = Usual[1] /\ ok' = ok
        /\ swapped' = 1
    BY <1>8 DEF Found
  <2>2. BusTypeOK' /\ PulledInv' /\ Settings'
    BY <1>1, <1>2, <1>3, <2>1, FreshType
  <2>3. (begin = "late" \/ panel = 0) /\ begin # "busy"
    BY <1>1, <1>8, PassEnds
  <2>4. SearchInv'
    BY <1>3, <1>4, <2>1, <2>3 DEF SearchInv, PanelFound, NothingElseFound, SdaPin
  <2>5. RightInv'
    <3>1. CASE swapped # wiring
      <4>1. Silent
        BY <1>1, <3>1, AtEnd
      <4> QED BY <1>1, <1>3, <1>4, <2>1, <2>3, <4>1, FreshRight DEF Silent
    <3>2. CASE swapped = wiring
      BY <1>1, <1>4, <1>8, <2>1, <3>2 DEF RightInv
    <3> QED BY <3>1, <3>2
  <2>6. WrongInv'
    <3>1. CASE swapped # wiring
      BY <1>1, <1>4, <1>8, <2>1, <3>1 DEF WrongInv
    <3>2. CASE swapped = wiring
      <4>1. Silent' /\ mode' = "idle"
        BY <1>1, <1>4, <1>8, <3>2, AtEnd DEF Silent, Away
      <4> QED BY <1>1, <1>2, <1>3, <1>4, <2>1, <2>3, <4>1, BytesEndIs, FreshWrong
    <3> QED BY <3>1, <3>2
  <2> QED BY <2>2, <2>4, <2>5, <2>6 DEF BusInv
<1> QED BY <1>5, <1>6, <1>7, <1>8

LEMMA WriteStep ==
  ASSUME BusInv, Write
  PROVE  BusInv'
<1>1. /\ stage = "rest" /\ stage' = "write" /\ message' \in Messages /\ swapped' = swapped
      /\ address' = (IF detected = 0 THEN Usual[1] ELSE detected) /\ detected' = detected
      /\ done' = 0 /\ ok' = 1 /\ pulled' = pulled /\ UNCHANGED <<setting, on, logic>>
  BY DEF Write, Transact
<1>2. /\ done = 0 /\ PanelFound /\ NothingElseFound
      /\ swapped \in {0, 1} /\ detected \in 0 .. 127 /\ wiring \in Pins
  BY <1>1 DEF BusInv, SearchInv, BusTypeOK
<1>3. message' \in Seq(0 .. 255) /\ address' \in 1 .. 127
  BY <1>1, <1>2, UsualAre, SoftI2cAssumption
<1>4. pulled = {}
  BY <1>2, NothingPulled DEF BusInv, SdaHigh, SclHigh
<1>5. BusTypeOK' /\ PulledInv' /\ Settings'
  BY <1>1, <1>2, <1>3, <1>4, FreshType
<1>6. /\ wiring' = wiring /\ panel' = panel /\ begin' = begin
      /\ mode' = mode /\ bits' = bits /\ acking' = acking /\ taken' = taken
  BY <1>1 DEF setting, logic
<1>7. SearchInv'
  BY <1>1, <1>2, <1>6 DEF SearchInv, PanelFound, NothingElseFound, SdaPin
<1>8. RightInv'
  <2>1. CASE swapped = wiring
    <3>1. /\ acking = 0 \/ Resumed
          /\ mode # "data" /\ (detected # 0 => mode = "idle")
      BY <1>1, <1>2, <2>1 DEF BusInv, RightInv
    <3>2. ~Resumed
      BY <1>1 DEF Resumed
    <3> QED BY <1>1, <1>6, <3>1, <3>2, FreshRight
  <2>2. CASE swapped # wiring
    BY <1>1, <1>6, <2>2 DEF RightInv
  <2> QED BY <2>1, <2>2
<1>9. WrongInv'
  <2>1. CASE swapped # wiring
    <3>1. Silent /\ Unanswered /\ begin # "busy" /\ ~First /\ done <= 2
      BY <1>1, <1>2, <2>1 DEF BusInv, WrongInv, First
    <3>2. acking = 0 /\ (mode = "idle" \/ bits <= 1)
      BY <3>1 DEF Unanswered
    <3>3. Silent' /\ begin' # "busy"
      BY <1>6, <3>1 DEF Silent
    <3> QED BY <1>1, <1>3, <1>6, <3>2, <3>3, BytesEndIs, FreshWrong
  <2>2. CASE swapped = wiring
    BY <1>1, <1>6, <2>2 DEF WrongInv
  <2> QED BY <2>1, <2>2
<1> QED BY <1>5, <1>7, <1>8, <1>9 DEF BusInv

LEMMA EndWriteStep ==
  ASSUME BusInv, EndWrite
  PROVE  BusInv'
<1>1. /\ stage = "write" /\ done = End /\ stage' = "rest" /\ message' = << >> /\ done' = 0
      /\ UNCHANGED <<swapped, address, detected, ok, pulled, setting, on, logic>>
  BY DEF EndWrite
<1>2. /\ PanelFound /\ NothingElseFound /\ address \in 1 .. 127 /\ ok \in {0, 1}
      /\ swapped \in {0, 1} /\ detected \in 0 .. 127
  BY DEF BusInv, SearchInv, BusTypeOK
<1>3. message' \in Seq(0 .. 255) /\ pulled' = {}
  BY <1>1, AtEnd
<1>4. BusTypeOK' /\ PulledInv' /\ Settings'
  BY <1>1, <1>2, <1>3, FreshType
<1>5. /\ wiring' = wiring /\ panel' = panel /\ begin' = begin
      /\ mode' = mode /\ bits' = bits /\ acking' = acking /\ taken' = taken
      /\ acking' = 0
  BY <1>1, AtEnd DEF setting, logic
<1>6. SearchInv'
  BY <1>1, <1>2, <1>5 DEF SearchInv, PanelFound, NothingElseFound, SdaPin
<1>7. RightInv'
  <2>1. CASE swapped = wiring
    <3>1. mode = "idle"
      BY <1>1, <2>1, AtEnd DEF Away
    <3> QED BY <1>1, <1>5, <3>1, FreshRight
  <2>2. CASE swapped # wiring
    BY <1>1, <1>5, <2>2 DEF RightInv
  <2> QED BY <2>1, <2>2
<1>8. WrongInv'
  <2>1. CASE swapped # wiring
    <3>1. Silent' /\ (mode' = "idle" \/ bits' <= 1) /\ begin' # "busy"
      BY <1>1, <1>5, <2>1, AtEnd DEF Silent
    <3> QED BY <1>1, <1>2, <1>3, <1>5, <3>1, BytesEndIs, FreshWrong
  <2>2. CASE swapped = wiring
    BY <1>1, <1>5, <2>2 DEF WrongInv
  <2> QED BY <2>1, <2>2
<1> QED BY <1>4, <1>6, <1>7, <1>8 DEF BusInv

LEMMA PowerUpStep ==
  ASSUME BusInv, PowerUp
  PROVE  BusInv'
<1>1. /\ on = 0 /\ on' = 1
      /\ UNCHANGED <<driver, done, ok, pulled, setting, logic>>
  BY DEF PowerUp
<1>2. BusTypeOK' /\ Settings'
  BY <1>1, SameTransaction DEF BusInv, BusTypeOK, Settings, driver, setting, logic
<1>3. Bytes' = Bytes /\ BytesEnd' = BytesEnd /\ End' = End /\ SdaPin' = SdaPin /\ SclPin' = SclPin
  BY <1>1, SameTransaction
<1>4. /\ SdaHigh' = SdaHigh /\ SclHigh' = SclHigh /\ Place' = Place /\ Number' = Number
      /\ Current' = Current /\ InByte' = InByte
  BY <1>1, <1>3 DEF SdaHigh, SclHigh, Place, Number, Current, InByte
<1>5. PulledInv'
  BY <1>1, <1>3, <1>4 DEF BusInv, PulledInv
<1>6. SearchInv'
  BY <1>1, <1>3 DEF BusInv, SearchInv, PanelFound, NothingElseFound, NotPast, Unusual,
                    driver, setting
<1>7. Resumed' = Resumed /\ First' = First
  BY <1>1 DEF Resumed, First, driver, setting
<1>8. RightInv'
  <2>1. ~Synced /\ ~Held
    BY <1>1 DEF Synced, Held
  <2>2. Away => Away'
    BY <1>1 DEF Away, logic, driver, setting
  <2> QED BY <1>1, <1>7, <2>1, <2>2 DEF BusInv, RightInv, logic, driver, setting
<1>9. WrongInv'
  <2>1. Silent' = Silent /\ Unanswered' = Unanswered
    BY <1>1, <1>3, <1>4, <1>7 DEF Silent, Unanswered, Loose, Stuck, logic, setting
  <2> QED BY <1>1, <2>1 DEF BusInv, WrongInv, driver, setting
<1> QED BY <1>2, <1>5, <1>6, <1>8, <1>9 DEF BusInv

LEMMA StutterStep ==
  ASSUME BusInv, UNCHANGED vars
  PROVE  BusInv'
<1>1. UNCHANGED <<driver, done, ok, pulled, setting, on, logic>>
  BY DEF vars
<1>2. Bytes' = Bytes /\ BytesEnd' = BytesEnd /\ End' = End /\ SdaPin' = SdaPin /\ SclPin' = SclPin
  BY <1>1, SameTransaction
<1>3. BusTypeOK' /\ Settings'
  BY <1>1, <1>2 DEF BusInv, BusTypeOK, Settings, driver, setting, logic
<1>4. /\ SdaHigh' = SdaHigh /\ SclHigh' = SclHigh /\ Place' = Place /\ Number' = Number
      /\ Current' = Current /\ InByte' = InByte
  BY <1>1, <1>2 DEF SdaHigh, SclHigh, Place, Number, Current, InByte
<1>5. PulledInv'
  BY <1>1, <1>2, <1>4 DEF BusInv, PulledInv
<1>6. SearchInv'
  BY <1>1, <1>2 DEF BusInv, SearchInv, PanelFound, NothingElseFound, NotPast, Unusual,
                    driver, setting
<1>7. Resumed' = Resumed /\ First' = First
  BY <1>1 DEF Resumed, First, driver, setting
<1>8. RightInv'
  <2>1. Synced' = Synced /\ Held' = Held /\ Away' = Away
    BY <1>1, <1>2, <1>4, <1>7 DEF Synced, Held, Away, TakenIs, BytesTaken, logic, driver, setting
  <2> QED BY <1>1, <1>7, <2>1 DEF BusInv, RightInv, logic, driver, setting
<1>9. WrongInv'
  <2>1. Silent' = Silent /\ Unanswered' = Unanswered
    BY <1>1, <1>2, <1>4, <1>7 DEF Silent, Unanswered, Loose, Stuck, logic, setting
  <2> QED BY <1>1, <2>1 DEF BusInv, WrongInv, driver, setting
<1> QED BY <1>3, <1>5, <1>6, <1>8, <1>9 DEF BusInv

LEMMA NextStep ==
  ASSUME BusInv, [Next]_vars
  PROVE  BusInv'
BY OperateStep, ProbeStep, WriteStep, EndWriteStep, PowerUpStep, StutterStep DEF Next

LEMMA Beginning ==
  ASSUME Init, HolderIsProbed
  PROVE  BusInv
<1>1. /\ stage = "probe" /\ swapped = 1 /\ address = Usual[1] /\ detected = 0
      /\ message = << >> /\ done = 0 /\ ok = 1 /\ pulled = {}
      /\ wiring \in Pins /\ panel \in Panels /\ taken = << >>
      /\ begin \in {"ready", "late", "busy"} /\ on = (IF begin = "late" THEN 0 ELSE 1)
      /\ mode \in {"idle", "address", "data"} /\ acking \in {0, 1} /\ bits \in 0 .. 8
      /\ shift \in 0 .. (2 ^ bits - 1) /\ (acking = 1 => bits = 8 /\ mode # "idle")
      /\ begin # "busy" => mode = "idle" /\ acking = 0
      /\ begin = "busy" => panel # 0
  <2>1. CASE begin # "busy" /\ mode = "idle" /\ bits = 0 /\ shift = 0 /\ acking = 0
    <3>1. bits \in 0 .. 8 /\ shift \in 0 .. (2 ^ bits - 1)
      BY <2>1, PowersOfTwo
    <3> QED BY <2>1, <3>1 DEF Init
  <2>2. CASE /\ begin = "busy" /\ panel # 0
             /\ mode \in {"address", "data"} /\ acking \in {0, 1}
             /\ bits \in 0 .. 8 /\ shift \in 0 .. (2 ^ bits - 1) /\ (acking = 1 => bits = 8)
    BY <2>2, Zenon DEF Init
  <2> QED BY <2>1, <2>2, Zenon DEF Init
<1>2. << >> \in Seq(0 .. 255) /\ Usual[1] \in 1 .. 127 /\ Usual[1] # 0
  <2>1. 0 \notin 1 .. 127
    OBVIOUS
  <2> QED BY <2>1, UsualAre
<1>3. BusTypeOK
  <2>1. address \in 1 .. 127 /\ message \in Seq(0 .. 255)
    BY ONLY <1>1, <1>2, Zenon
  <2>2. End \in Nat
    BY <2>1, EndIsNat DEF End, BytesEnd, Bytes
  <2>3. done \in 0 .. End
    BY <1>1, <2>2
  <2> QED BY <1>1, <1>2, <2>1, <2>3 DEF BusTypeOK
<1>4. PulledInv
  BY <1>1 DEF PulledInv, SdaHigh, SclHigh
<1>5. Settings
  BY <1>1 DEF Settings
<1>6. SearchInv
  BY <1>1, <1>2 DEF SearchInv, NotPast, PanelFound, NothingElseFound, Pins
<1>7. RightInv
  <2>1. swapped = wiring /\ acking = 1 => Resumed
    BY <1>1 DEF HolderIsProbed, SdaPin, Resumed
  <2> QED BY <1>1, <2>1 DEF RightInv
<1>8. WrongInv
  <2>1. Silent
    BY <1>1 DEF Silent
  <2>2. done <= 2 /\ ~(done >= 3) /\ ~(done >= BytesEnd) /\ ~(done >= 31)
    BY <1>1, <1>3, BytesAre
  <2>3. Unanswered
    BY <1>1, <2>2 DEF Unanswered, First
  <2> QED BY <1>1, <2>1, <2>2, <2>3 DEF WrongInv
<1> QED BY <1>3, <1>4, <1>5, <1>6, <1>7, <1>8 DEF BusInv

-----------------------------------------------------------------------------
(***************************************************************************)
(* What follows of the invariant                                           *)
(***************************************************************************)
LEMMA PrefixIs ==
  ASSUME BusTypeOK, NEW m \in 0 .. Len(message), TakenIs(m)
  PROVE  IsPrefix(taken, message)
<1>1. taken \in Seq(0 .. 255) /\ message \in Seq(0 .. 255)
  BY DEF BusTypeOK
<1>2. Len(taken) = m /\ \A i \in 1 .. m : taken[i] = message[i]
  BY DEF TakenIs
<1>3. SubSeq(taken, 1, m) = [i \in 1 .. m |-> taken[i]]
  BY <1>1, <1>2
<1>4. SubSeq(message, 1, m) = [i \in 1 .. m |-> message[i]]
  BY <1>1
<1> QED BY <1>1, <1>2, <1>3, <1>4 DEF IsPrefix

LEMMA AllTaken ==
  ASSUME BusTypeOK, TakenIs(Len(message))
  PROVE  taken = message
BY SeqEqual DEF BusTypeOK, TakenIs

LEMMA NothingTaken ==
  ASSUME BusTypeOK, TakenIs(0)
  PROVE  taken = << >>
BY DEF BusTypeOK, TakenIs

(* What the panel has of the message, wherever the driver is.              *)
LEMMA SyncedTakes ==
  ASSUME BusInv, Synced, ~Resumed, mode = "data" \/ stage = "probe", done >= 3
  PROVE  \/ taken = << >> /\ stage = "probe"
         \/ \E m \in 0 .. Len(message) : TakenIs(m)
<1>1. done \in Nat /\ BytesEnd \in Nat /\ Len(message) \in Nat
  BY BytesAre DEF BusInv, BusTypeOK
<1>2. CASE done < 4
  BY <1>1, <1>2 DEF Synced
<1>3. CASE InByte
  <2>1. TakenIs(BytesTaken(Number, Place))
    BY <1>3 DEF Synced
  <2>2. BytesTaken(Number, Place) \in 0 .. Len(message)
    BY <1>1, <1>3, PlaceIs DEF BusInv, BytesTaken
  <2> QED BY <2>1, <2>2
<1>4. CASE done >= BytesEnd
  <2>1. TakenIs(Len(message)) /\ Len(message) \in 0 .. Len(message)
    BY <1>1, <1>4 DEF Synced
  <2> QED BY <2>1
<1> QED BY <1>1, <1>2, <1>3, <1>4 DEF InByte

LEMMA TakenAre ==
  ASSUME BusInv
  PROVE  OnlyWrittenBytesTaken
<1>1. BusTypeOK /\ done \in Nat /\ (stage = "probe" => message = << >>)
  BY BytesAre DEF BusInv, BusTypeOK, SearchInv
<1>2. ASSUME stage = "probe", begin # "busy" PROVE taken = << >>
  <2>1. CASE swapped # wiring
    BY <1>2, <2>1 DEF BusInv, WrongInv, Silent
  <2>2. CASE swapped = wiring /\ done <= 2
    BY <1>2, <2>2 DEF BusInv, RightInv
  <2>3. CASE swapped = wiring /\ done >= 3
    <3>1. ~Resumed /\ (Synced \/ Away)
      BY <1>2, <2>3 DEF BusInv, RightInv, Resumed, Held
    <3>2. CASE Away
      BY <3>2 DEF Away
    <3>3. CASE Synced
      <4>1. Len(message) = 0
        BY <1>1, <1>2
      <4>2. \A m \in 0 .. 0 : m = 0
        OBVIOUS
      <4> QED BY <1>1, <1>2, <2>3, <3>1, <3>3, <4>1, <4>2, SyncedTakes, NothingTaken
    <3> QED BY <3>1, <3>2, <3>3
  <2> QED BY <1>1, <2>1, <2>2, <2>3
<1>3. ASSUME stage = "write", mode = "data" PROVE IsPrefix(taken, message)
  <2>1. swapped = wiring
    BY <1>3 DEF BusInv, WrongInv, Silent
  <2>2. ~(done <= 2)
    BY <1>3, <2>1 DEF BusInv, RightInv
  <2>3. Synced /\ ~Resumed /\ done >= 3
    BY <1>1, <1>3, <2>1, <2>2 DEF BusInv, RightInv, Away, Held, Resumed
  <2>4. \E m \in 0 .. Len(message) : TakenIs(m)
    BY <1>3, <2>3, SyncedTakes
  <2> QED BY <1>1, <2>4, PrefixIs
<1> QED BY <1>2, <1>3 DEF OnlyWrittenBytesTaken

LEMMA DeliveryIs ==
  ASSUME BusInv
  PROVE  SuccessIsDelivery
<1> SUFFICES ASSUME stage = "write", done = End PROVE ok = 1 <=> taken = message
  BY DEF SuccessIsDelivery
<1>1. BusTypeOK /\ message # << >> /\ ~Resumed
  BY SoftI2cAssumption DEF BusInv, SearchInv, Resumed
<1>2. CASE swapped # wiring
  <2>1. ok = 0 /\ taken = << >>
    BY <1>2, AtEnd DEF Silent
  <2> QED BY <1>1, <2>1
<1>3. CASE swapped = wiring
  <2>1. \/ ok = 1 /\ TakenIs(Len(message))
        \/ ok = 0 /\ taken = << >>
    BY <1>1, <1>3, AtEnd DEF Away
  <2> QED BY <1>1, <2>1, AllTaken
<1> QED BY <1>2, <1>3

LEMMA BusRests ==
  ASSUME BusInv
  PROVE  BusIsFree
<1> SUFFICES ASSUME stage = "rest"
             PROVE  /\ \A pin \in Pins : Level(pin) = 1
                    /\ detected # 0 => mode = "idle"
  BY DEF BusIsFree
<1>1. /\ done = 0 /\ NothingElseFound /\ ~Resumed /\ ~First /\ acking \in {0, 1}
  BY DEF BusInv, SearchInv, Resumed, First, BusTypeOK
<1>2. pulled = {}
  BY <1>1, NothingPulled DEF BusInv, SdaHigh, SclHigh
<1>3. acking = 0
  BY <1>1 DEF BusInv, RightInv, WrongInv, Unanswered
<1>4. detected # 0 => mode = "idle"
  BY <1>1 DEF BusInv, RightInv, NothingElseFound, SdaPin
<1> QED BY <1>2, <1>3, <1>4 DEF Level, LevelOf

LEMMA BusInvSays ==
  ASSUME BusInv
  PROVE  PanelIsReached /\ TypeOK
<1>1. shift \in 0 .. 255
  <2>1. bits \in 0 .. 8 /\ shift \in 0 .. (2 ^ bits - 1)
    BY DEF BusInv, BusTypeOK
  <2>3. 2 ^ bits \in 0 .. 256
    BY <2>1, PowersBounded
  <2> HIDE DEF BusInv
  <2> DEFINE power == 2 ^ bits
  <2>4. power \in 0 .. 256 /\ shift \in 0 .. (power - 1)
    BY <2>1, <2>3
  <2> HIDE DEF power
  <2> QED BY <2>4
<1>2. TypeOK
  BY <1>1 DEF BusInv, BusTypeOK, PulledInv, TypeOK
<1> QED BY <1>2, TakenAre, DeliveryIs, BusRests DEF PanelIsReached, BusInv, SearchInv

(* The invariant, of which the two properties below are parts.             *)
THEOREM BusInvariance == Spec /\ HolderIsProbed => []BusInv
<1>1. Init /\ HolderIsProbed => BusInv
  BY Beginning DEF HolderIsProbed
<1>2. BusInv /\ [Next]_vars => BusInv'
  BY NextStep
<1> QED BY <1>1, <1>2, PTL DEF Spec

(* The search of BspOledSoftI2c_Init finds the panel, whichever way it is  *)
(* wired, and nothing but the panel; it writes nothing; a write of         *)
(* BspOledSoftI2c_Write reports success exactly when the panel has taken   *)
(* all of it; and the bus is free between the calls.                       *)
THEOREM PanelAlwaysReached == Spec /\ HolderIsProbed => []PanelIsReached
<1>1. BusInv => PanelIsReached
  BY BusInvSays
<1> QED BY <1>1, BusInvariance, PTL

(* The types of the driver and of the panel.                               *)
THEOREM BusTypesCorrect == Spec /\ HolderIsProbed => []TypeOK
<1>1. BusInv => TypeOK
  BY BusInvSays
<1> QED BY <1>1, BusInvariance, PTL
=============================================================================
