---------------------------- MODULE RaceDisplay ----------------------------
(***************************************************************************)
(* The OLED task of app_race_config.c on top of RaceConfig.  It has the    *)
(* priority of the race task and time-slices with it; control preempts it. *)
(* AppRaceConfig_DisplayRunOnce takes one frame of g_snapshot and sends it *)
(* to the panel one page per call, so a transfer takes Pages calls and the *)
(* configuration keeps changing meanwhile.                                 *)
(*                                                                         *)
(* What matters of a page is whether it shows the frame captured last.     *)
(***************************************************************************)
EXTENDS RaceConfig

CONSTANT Pages   (* pages of the panel: 8 *)

ASSUME RaceDisplayAssumption == Pages \in Nat \ {0}

PageNumbers == 0 .. Pages - 1

VARIABLES
  initialized,  (* static initialized of DisplayRunOnce                    *)
  transfer,     (* static transfer_active                                  *)
  page,         (* static page: the next page to send                      *)
  frame,        (* OLED_DisplayBuf: the captured configuration             *)
  panel,        (* the pages of the panel that show that frame             *)
  refreshDue    (* APP_RACE_OLED_REFRESH_MS since the last capture         *)

displayVars == <<initialized, transfer, page, frame, panel, refreshDue>>
vars == <<configVars, displayVars>>

DisplayInit ==
  /\ Init
  /\ initialized = FALSE
  /\ transfer = FALSE
  /\ page = 0
  /\ frame = config
  /\ panel = {}
  /\ refreshDue = FALSE

(* OLED_Init clears the panel; the call goes on with a capture. *)
InitializePanel ==
  /\ ~initialized
  /\ initialized' = TRUE
  /\ panel' = {}
  /\ dirty' = TRUE
  /\ UNCHANGED <<config, raceVars, transfer, page, frame, refreshDue>>

(* The PRIMASK section copies g_snapshot and clears the flag together.     *)
Capture ==
  /\ initialized
  /\ ~transfer
  /\ dirty \/ refreshDue
  /\ frame' = config
  /\ panel' = IF frame = config THEN panel ELSE {}
  /\ dirty' = FALSE
  /\ refreshDue' = FALSE
  /\ page' = 0
  /\ transfer' = TRUE
  /\ UNCHANGED <<config, raceVars, initialized>>

(* Mutant: the transfer ends one page early. *)
SendPageShort ==
  /\ transfer
  /\ panel' = panel \union {page}
  /\ page' = page + 1
  /\ transfer' = (page + 2 < Pages)
  /\ UNCHANGED <<configVars, initialized, frame, refreshDue>>

SendPage ==
  /\ transfer
  /\ panel' = panel \union {page}
  /\ page' = page + 1
  /\ transfer' = (page + 1 < Pages)
  /\ UNCHANGED <<configVars, initialized, frame, refreshDue>>

DisplayStep == InitializePanel \/ Capture \/ SendPage

RefreshElapses ==
  /\ initialized
  /\ ~refreshDue
  /\ refreshDue' = TRUE
  /\ UNCHANGED <<configVars, initialized, transfer, page, frame, panel>>

DisplayNext ==
  \/ Next /\ UNCHANGED displayVars
  \/ DisplayStep
  \/ RefreshElapses

DisplaySpec == DisplayInit /\ [][DisplayNext]_vars

(* Both tasks of priority 1 get their time slices; the refresh interval    *)
(* passes, but nothing below relies on it.                                 *)
FairDisplaySpec ==
  /\ DisplaySpec
  /\ WF_vars(RaceStep /\ UNCHANGED displayVars)
  /\ WF_vars(DisplayStep)

-----------------------------------------------------------------------------
DisplayTypeOK ==
  /\ TypeOK
  /\ initialized \in BOOLEAN
  /\ transfer \in BOOLEAN
  /\ page \in 0 .. Pages
  /\ refreshDue \in BOOLEAN
  /\ panel \subseteq PageNumbers

(* No change is lost: when the dirty flag is clear and no handler is       *)
(* between its first write and its last, the captured frame is the current *)
(* configuration.  Control, race and the OLED task all write the flag.     *)
NoChangeLost == initialized /\ pc = "pop" /\ ~dirty => frame = config

(* A finished transfer shows one frame: no page of an older configuration  *)
(* is left on the panel.                                                   *)
PanelNotTorn == ~transfer /\ panel # {} => panel = PageNumbers

(* Once the operator and the car leave the configuration alone, the panel  *)
(* comes to show it and keeps showing it, also without the refresh.        *)
PanelSettles ==
  <>[][UNCHANGED config]_vars
    => <>[](frame = config /\ panel = PageNumbers)
=============================================================================
