--------------------------- MODULE MC_BlockBuilder ---------------------------
(***************************************************************************)
(* A build round over a small pool for TLC.  Accounts A and B send, P is  *)
(* the payer.  Bundle 1 = <<t1, t2>> (t1 may revert), bundle 2 = <<t3>>,  *)
(* which competes with t1 for A's nonce 0 and is offered by the price     *)
(* pool too; the SeqPool holds t4, t5 (t5's tip is undefined); the price *)
(* pool holds A: t3, t8 and B: t6, t7 (t7's tip is undefined, so          *)
(* flatten drops it).  The gas limit fits only some of the txs, so Pop    *)
(* and Stop both happen, and a page holds one tx, so commit_pool pages.  *)
(***************************************************************************)
EXTENDS BlockBuilder, TLC

MCAccounts == {"A", "B", "P"}
MCTxs == 1..8
MCCaller == (1 :> "A" @@ 2 :> "B" @@ 3 :> "A" @@ 4 :> "A" @@ 5 :> "B"
             @@ 6 :> "B" @@ 7 :> "B" @@ 8 :> "A")
MCNonce == (1 :> 0 @@ 2 :> 0 @@ 3 :> 0 @@ 4 :> 1 @@ 5 :> 1
            @@ 6 :> 1 @@ 7 :> 2 @@ 8 :> 2)
MCGasLimitOf == (1 :> 30000 @@ 2 :> 40000 @@ 3 :> 25000 @@ 4 :> 30000
                 @@ 5 :> 21000 @@ 6 :> 50000 @@ 7 :> 60000 @@ 8 :> 21000)
MCFee == [t \in MCTxs |-> CASE t = 3 -> 2 [] t = 6 -> 3 [] t = 7 -> 3
                            [] t = 8 -> 5 [] OTHER -> 1]
MCTipOK == MCTxs \ {5, 7}
MCAllowRevert == {1}
MCOutcomes == (1 :> {"succ", "revert"} @@ 2 :> {"succ", "revert", "stateErr"}
               @@ 3 :> {"succ"} @@ 4 :> {"succ", "stateErr"}
               @@ 5 :> {"succ"} @@ 6 :> {"succ", "unsupported"}
               @@ 7 :> {"succ"} @@ 8 :> {"succ", "fail", "stateErr"})
MCTipsOutcomes == {"succ", "revert", "fail", "stateErr"}
MCInitNonce == ("A" :> 0 @@ "B" :> 0 @@ "P" :> 5)
MCBundleList == << <<1, 2>>, <<3>> >>
MCSeqList == <<4, 5>>
MCPricePending == ("A" :> {3, 8} @@ "B" :> {6, 7} @@ "P" :> {})

====
