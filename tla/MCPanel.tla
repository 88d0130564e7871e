------------------------------ MODULE MCPanel ------------------------------
(***************************************************************************)
(* The panel: its bus, bit by bit, and the drawing into its frame buffer.  *)
(* They share no variable, so one of them moves in a behaviour.            *)
(* The bus has the addresses of the code and panels at both ends of the    *)
(* scan, and begins where HolderIsProbed allows.                           *)
(* The buffer has two pages of two bits; pictures of up to two pages lie   *)
(* at every shift, across every edge.                                      *)
(***************************************************************************)
EXTENDS SoftI2c, FrameBuffer

MCUsual == <<60, 61>>
MCMessages == {<<0, 174>>, <<64, 255, 0>>, <<0, 120>>}

Filled(w, h) == [w |-> w, h |-> h, pixels |-> (0 .. (w - 1)) \X (0 .. (h - 1))]
Chequered(w, h) ==
  [w |-> w, h |-> h,
   pixels |-> {p \in (0 .. (w - 1)) \X (0 .. (h - 1)) : (p[1] + p[2]) % 2 = 0}]
MCXs == -1 .. 1
MCYs == -4 .. 4
MCPictures == {Filled(2, 3), Chequered(1, 4)}

VARIABLE part

MCInit ==
  /\ part \in {"bus", "drawing"}
  /\ Init /\ FrameInit
  /\ HolderIsProbed /\ (begin = "busy" => part = "bus")

MCNext ==
  \/ part = "bus" /\ UNCHANGED <<part, buffer>> /\ Next
  \/ part = "drawing" /\ UNCHANGED <<part, vars>> /\ FrameNext

MCSpec == MCInit /\ [][MCNext]_<<vars, buffer, part>>
=============================================================================
