------------------------------ MODULE MC_SeqPool ------------------------------
(***************************************************************************)
(* A sequence pool of two senders for TLC.  A sends nonces 0, 1, 2 and a  *)
(* second tx at nonce 1 (a replacement), B sends nonce 0; the pool holds  *)
(* three txs, so arriving out of nonce order, replacement, re-sequencing  *)
(* and eviction all happen.                                                *)
(***************************************************************************)
EXTENDS SeqPool

MCTxs == 1..5
MCCaller == [t \in MCTxs |-> IF t = 5 THEN "B" ELSE "A"]
MCNonce == [t \in MCTxs |-> CASE t = 1 -> 0 [] t = 2 -> 1 [] t = 3 -> 2
                              [] t = 4 -> 1 [] t = 5 -> 0]

====
