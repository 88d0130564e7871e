---------------------------- MODULE MCRaceConfig ----------------------------
(* Three modes, of which the last is the lap race, two laps and two        *)
(* queued presses of a key.                                                *)
EXTENDS RaceConfig
=============================================================================
