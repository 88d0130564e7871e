---------------------------- MODULE FrameBuffer ----------------------------
(***************************************************************************)
(* The frame buffer of the panel (bsp_oled.c): a byte holds the pixels of  *)
(* one column in one page, the lowest bit on top.  Pictures lie across     *)
(* pages and edges, at negative coordinates too, and C divides towards     *)
(* zero.  A byte is the set of its bits, a shift drops what leaves it.     *)
(***************************************************************************)
EXTENDS Integers

CONSTANTS
  Columns, Pages, Bits,  (* 128, 8, 8                                      *)
  Xs, Ys, Pictures       (* as in Canvas                                   *)

ASSUME FrameBufferAssumption ==
  /\ Columns \in Nat \ {0} /\ Pages \in Nat \ {0} /\ Bits \in Nat \ {0}
  /\ Xs \subseteq Int /\ Ys \subseteq Int
  /\ \A picture \in Pictures :
       /\ picture.w \in Nat \ {0} /\ picture.h \in Nat \ {0}
       /\ picture.pixels \subseteq (0 .. (picture.w - 1)) \X (0 .. (picture.h - 1))

VARIABLE buffer          (* OLED_DisplayBuf                                *)

Cells == (0 .. (Pages - 1)) \X (0 .. (Columns - 1))
Byte == SUBSET (0 .. (Bits - 1))

Quotient(a, b) == IF a >= 0 THEN a \div b ELSE -((-a) \div b)
Remainder(a, b) == a - b * Quotient(a, b)

ShiftUp(byte, n) == {bit + n : bit \in byte} \cap (0 .. (Bits - 1))
ShiftDown(byte, n) == {bit - n : bit \in byte} \cap (0 .. (Bits - 1))

FrameInit == buffer = [cell \in Cells |-> {}]

Clear == buffer' = [cell \in Cells |-> {}]

Cleared(x, y, w, h) ==
  [cell \in Cells |->
     {bit \in buffer[cell] :
        ~ (cell[2] \in x .. (x + w - 1) /\ cell[1] * Bits + bit \in y .. (y + h - 1))}]

ClearArea(x, y, w, h) == buffer' = Cleared(x, y, w, h)

(* Byte j * w + i of a picture: the data of a font has its unused bits     *)
(* zero.                                                                   *)
Image(picture, i, j) == {bit \in 0 .. (Bits - 1) : <<i, j * Bits + bit>> \in picture.pixels}

(* Mutant: a negative Y is divided like the others. *)
PageOfTruncated(y) == Quotient(y, Bits)

PageOf(y) == IF y < 0 THEN Quotient(y, Bits) - 1 ELSE Quotient(y, Bits)
ShiftOf(y) == IF y < 0 THEN Remainder(y, Bits) + Bits ELSE Remainder(y, Bits)

Rows(h) == 0 .. Quotient(h - 1, Bits)

(* What the loops put into one byte: the rows of the picture that begin in *)
(* its page, and those that begin in the page above.                       *)
Drawn(cell, x, y, picture) ==
  (UNION {ShiftUp(Image(picture, cell[2] - x, j), ShiftOf(y)) :
            j \in {k \in Rows(picture.h) : PageOf(y) + k = cell[1]}})
    \cup
  (UNION {ShiftDown(Image(picture, cell[2] - x, j), Bits - ShiftOf(y)) :
            j \in {k \in Rows(picture.h) : PageOf(y) + k + 1 = cell[1]}})

ShowImage(x, y, picture) ==
  buffer' = [cell \in Cells |->
               Cleared(x, y, picture.w, picture.h)[cell]
                 \cup (IF cell[2] - x \in 0 .. (picture.w - 1)
                       THEN Drawn(cell, x, y, picture) ELSE {})]

FrameNext ==
  \/ Clear
  \/ \E x \in Xs, y \in Ys, picture \in Pictures :
       ClearArea(x, y, picture.w, picture.h) \/ ShowImage(x, y, picture)

FrameSpec == FrameInit /\ [][FrameNext]_buffer

-----------------------------------------------------------------------------
(* OLED_GetPoint *)
Lit == {p \in (0 .. (Columns - 1)) \X (0 .. (Pages * Bits - 1)) :
          Remainder(p[2], Bits) \in buffer[<<Quotient(p[2], Bits), p[1]>>]}

FrameTypeOK == buffer \in [Cells -> Byte]

(* Pages, shifts and clipping make up the plane of pixels: a picture is    *)
(* shown where it is put, covers what was there and changes nothing else,  *)
(* whichever page boundary or edge it lies across.                         *)
Plane == INSTANCE Canvas WITH
  Width <- Columns, Height <- Pages * Bits, lit <- Lit

CanvasSpec == Plane!Spec
=============================================================================
