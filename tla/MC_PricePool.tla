---------------------------- MODULE MC_PricePool ----------------------------
(***************************************************************************)
(* A price pool of two senders for TLC.  A holds nonces 0..2: tx 2 bids   *)
(* a higher fee cap but a lower tip than tx 1 (refused), tx 5 outbids     *)
(* both (replaces), tx 3 has no tip at base fee 2.  B holds nonces 0, 1   *)
(* and 3 (a gap).  A sender's list holds two txs, the pool three, and     *)
(* list() returns one account, so the cap, the eviction of underpriced    *)
(* txs and the early break all happen.                                    *)
(***************************************************************************)
EXTENDS PricePool, TLC

MCAccountOrder == <<"A", "B">>
MCTxs == 1..8
MCCaller == [t \in MCTxs |-> IF t \in {1, 2, 3, 4, 5} THEN "A" ELSE "B"]
MCNonce == (1 :> 0 @@ 2 :> 0 @@ 3 :> 1 @@ 4 :> 2 @@ 5 :> 0
            @@ 6 :> 0 @@ 7 :> 1 @@ 8 :> 3)
MCMaxFee == (1 :> 2 @@ 2 :> 3 @@ 3 :> 1 @@ 4 :> 3 @@ 5 :> 4
             @@ 6 :> 1 @@ 7 :> 2 @@ 8 :> 2)
MCTipCap == (1 :> 2 @@ 2 :> 1 @@ 3 :> 1 @@ 4 :> 3 @@ 5 :> 3
             @@ 6 :> 1 @@ 7 :> 2 @@ 8 :> 2)
MCFilters == {[t \in MCTxs |-> "absent"],
              [t \in MCTxs |-> IF t \in {1, 5, 6} THEN "valid" ELSE "absent"],
              [t \in MCTxs |-> IF t = 6 THEN "invalid" ELSE "absent"]}

====
