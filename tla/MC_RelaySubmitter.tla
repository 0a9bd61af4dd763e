-------------------------- MODULE MC_RelaySubmitter --------------------------
(***************************************************************************)
(* One optimistic relay for TLC.  Two slots with one payload each give    *)
(* two keys, and checked_state keeps one entry, so the trim evicts.       *)
(* Three sends let two submissions of one slot be in flight at once and   *)
(* a third arrive after their answers.                                    *)
(***************************************************************************)
EXTENDS RelaySubmitter

MCSlots == {1, 2}
MCValues == {1, 2}

====
