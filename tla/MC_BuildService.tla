---------------------------- MODULE MC_BuildService ----------------------------
(***************************************************************************)
(* Three twelve-second slots with the code's 3 s window, its 60 s lag      *)
(* limit and a 1 s submit time.  The execution head starts one or five     *)
(* slots old, so the lag check fires, and rounds overrun into the next     *)
(* slot.                                                                   *)
(***************************************************************************)
EXTENDS BuildService

====
