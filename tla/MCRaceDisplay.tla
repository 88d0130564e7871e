--------------------------- MODULE MCRaceDisplay ---------------------------
(* Two modes, two laps, one queued press of a key and a panel of two       *)
(* pages: enough for a change to fall before, inside and after a transfer. *)
EXTENDS RaceDisplay
=============================================================================
