----------------------------- MODULE MC_Simulator -----------------------------
(***************************************************************************)
(* Two pool threads, a batch of two txs and a stream of three async       *)
(* calls: enough for the batch's results to come back out of order and   *)
(* for the stream to find the queue full.                                  *)
(***************************************************************************)
EXTENDS Simulator

MCBatchTxs == <<"t1", "t2">>

====
