------------------------- MODULE MC_RelayValidators -------------------------
(***************************************************************************)
(* Two relays fetching duty lists three slots ahead into a map of three    *)
(* entries over five slots: enough for the map to fill and be trimmed,     *)
(* for both relays to announce the same slot, and for a bad pubkey to stop *)
(* an update before the trim.  The constants are given in the .cfg files.  *)
(***************************************************************************)
EXTENDS RelayValidators
====
