----------------------------- MODULE MC_TxFetcher -----------------------------
(***************************************************************************)
(* A WithHash endpoint and a WithBody endpoint announcing three txs into  *)
(* a HashPool of two entries, so the sources race on one tx and a tx is   *)
(* evicted and announced again.                                            *)
(***************************************************************************)
EXTENDS TxFetcher, TLC

CONSTANTS s1, s2

MCKind == (s1 :> "hash") @@ (s2 :> "body")

====
