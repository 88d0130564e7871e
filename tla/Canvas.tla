------------------------------- MODULE Canvas -------------------------------
(***************************************************************************)
(* What the drawing functions of the panel promise: a plane of pixels of   *)
(* which the screen is a part, and pictures that may lie across its edges. *)
(***************************************************************************)
EXTENDS Integers

CONSTANTS
  Width, Height,  (* of the screen                                         *)
  Xs, Ys,         (* where pictures are put                                *)
  Pictures        (* records of a width w, a height h and a set of pixels  *)

VARIABLE lit      (* the pixels of the screen that are on                  *)

Screen == (0 .. (Width - 1)) \X (0 .. (Height - 1))

Area(x, y, w, h) == (x .. (x + w - 1)) \X (y .. (y + h - 1))

At(x, y, pixels) == {<<x + p[1], y + p[2]>> : p \in pixels}

Init == lit = {}

Clear == lit' = {}

ClearArea(x, y, w, h) == lit' = lit \ Area(x, y, w, h)

(* A picture covers what was there. *)
ShowImage(x, y, picture) ==
  lit' = (lit \ Area(x, y, picture.w, picture.h))
           \cup (At(x, y, picture.pixels) \cap Screen)

Next ==
  \/ Clear
  \/ \E x \in Xs, y \in Ys, picture \in Pictures :
       ClearArea(x, y, picture.w, picture.h) \/ ShowImage(x, y, picture)

Spec == Init /\ [][Next]_lit
=============================================================================
