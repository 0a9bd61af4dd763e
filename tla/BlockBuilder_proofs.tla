------------------------- MODULE BlockBuilder_proofs -------------------------
(***************************************************************************)
(* Proofs about a build round (BlockBuilder.tla) for every value of the   *)
(* constants: the type invariant, which says in particular that the u64   *)
(* gas pool never wraps, and the gas accounting of use_gas, refund_gas    *)
(* and fill_tips.                                                         *)
(***************************************************************************)
EXTENDS BlockBuilder, TLAPS

(* The receipt chain: each receipt's cumulative gas adds its gas to the  *)
(* previous one, and header.gas_used is the last.                         *)
ReceiptChain ==
    /\ \A i \in 1..Len(receipts) : receipts[i].cum = CumBefore(i) + receipts[i].gas
    /\ gasUsed = CumBefore(Len(receipts) + 1)

(* The gas pool and header.gas_used make up the round's budget. *)
Conservation ==
    pc \notin {"prepare", "failed"} =>
        gasPool + gasUsed = Budget + (IF TipsTx \in Range(txs) THEN TX_GAS_RESERVE ELSE 0)

(* The tips transfer only enters the block in fill_tips. *)
TipsLast == TipsTx \in Range(txs) => pc \in {"finalize", "done", "failed"}

(* The block is empty until prepare is done. *)
PrepareEmpty == pc = "prepare" => txs = <<>>

(* fill_bundles' indexes point into the bundle list inside a bundle. *)
BundleIndexes ==
    /\ pc \in {"bundleTx", "bundleRevert", "bundleFlush"} => bi \in 1..Len(BundleList)
    /\ pc = "bundleTx" => ti \in 1..Len(BundleList[bi])

Receipt == [gas : Nat, cum : Nat, succ : BOOLEAN]

(***************************************************************************)
(* The inductive invariant.  TypeOK and GasAccounting alone are not       *)
(* inductive: a step must also know that the tips transfer is only in the *)
(* block once fill_tips has run (so revert_txs_to never pops it and the   *)
(* budget is counted once), that prepare starts from an empty block, and  *)
(* that fill_bundles' indexes point into the bundle list while a bundle  *)
(* is being committed.                                                    *)
(***************************************************************************)
IInv ==
    /\ TypeOK
    /\ ReceiptChain
    /\ Conservation
    /\ TipsLast
    /\ PrepareEmpty
    /\ BundleIndexes

(* commit_transaction only executes a tx when the gas pool holds more   *)
(* than TX_GAS and at least the tx's gas limit: its two first guards.     *)
LEMMA ExecutedFits ==
    ASSUME NEW t, NEW pool, NEW isAlive, NEW outcomes, NEW limit,
           NEW res \in CommitResults(t, pool, isAlive, outcomes, limit),
           Executed(res)
    PROVE  ~(pool <= TX_GAS_INTRINSIC) /\ ~(pool < limit)
BY DEF CommitResults, Executed, ExecResult

(* Every bundle the pool lists holds at least one tx. *)
LEMMA BundlesNonEmpty ==
    \A j \in 1..Len(BundleList) : BundleList[j] \in Seq(Txs) /\ Len(BundleList[j]) >= 1
BY PoolAssumption

(* The start state satisfies the inductive invariant. *)
LEMMA InitIInv == Init => IInv
<1> SUFFICES ASSUME Init PROVE IInv
  OBVIOUS
<1>1. TypeOK
  <2>1. alive \in BOOLEAN /\ bstop \in BOOLEAN /\ faulted \in BOOLEAN
    BY Zenon DEF Init
  <2>2. pc \in Phases
    BY DEF Init, Phases
  <2>3. nonce \in [Accounts -> Nat] /\ snapshot \in [Accounts -> Nat]
    BY PoolAssumption DEF Init
  <2>4. checked \in [Txs -> {"absent", "valid", "invalid"}]
    BY DEF Init
  <2>5. rest \in [Accounts -> SUBSET Txs]
    BY DEF Init
  <2>6. bundleResult \in [1..Len(BundleList) -> {"none", "submitted", "reverted"}]
    BY DEF Init
  <2>7. txs \in Seq(TxIds) /\ receipts \in Seq(Receipt) /\ Len(receipts) = Len(txs)
    BY DEF Init
  <2>8. /\ gasPool \in Nat /\ gasUsed \in Nat
        /\ bi \in 1..(Len(BundleList) + 1) /\ ti \in Nat \ {0}
        /\ bstart \in Nat /\ si \in Nat \ {0}
    BY DEF Init
  <2>9. /\ seqMarked \subseteq Txs /\ seqRemoved \subseteq Txs
        /\ heads \subseteq Txs /\ page \subseteq Txs /\ priceRemoved \subseteq Txs
        /\ err \in {"none", "StateError", "NoTx", "FeeTooLow", "SendTipsFail"}
    BY DEF Init
  <2>10. QED
    BY <2>1, <2>2, <2>3, <2>4, <2>5, <2>6, <2>7, <2>8, <2>9, Zenon DEF TypeOK, Receipt
<1>2. ReceiptChain /\ Conservation /\ TipsLast /\ PrepareEmpty /\ BundleIndexes
  BY DEF Init, ReceiptChain, CumBefore, Conservation, TipsLast, PrepareEmpty, BundleIndexes, Range
<1>3. QED
  BY <1>1, <1>2 DEF Init, IInv

(* commit_transaction's bookkeeping keeps the types and the receipt      *)
(* chain, moves gas from the pool to the header, and adds an executed tx *)
(* to the block.                                                          *)
LEMMA CommitLogFacts ==
    ASSUME NEW t \in TxIds, NEW res \in Results, NEW g \in Nat, NEW pool \in Nat,
           txs \in Seq(TxIds), receipts \in Seq(Receipt), Len(receipts) = Len(txs),
           gasUsed \in Nat, checked \in [Txs -> {"absent", "valid", "invalid"}],
           ReceiptChain,
           Executed(res) => g <= pool,
           CommitLog(t, res, g, pool)
    PROVE  /\ txs' \in Seq(TxIds)
           /\ receipts' \in Seq(Receipt)
           /\ Len(receipts') = Len(txs')
           /\ gasPool' \in Nat /\ gasUsed' \in Nat
           /\ checked' \in [Txs -> {"absent", "valid", "invalid"}]
           /\ ReceiptChain'
           /\ gasPool' + gasUsed' = pool + gasUsed
           /\ Range(txs') = IF Executed(res) THEN Range(txs) \cup {t} ELSE Range(txs)
<1>1. checked' \in [Txs -> {"absent", "valid", "invalid"}]
  BY DEF CommitLog
<1>2. CASE Executed(res)
  <2>1. /\ txs' = Append(txs, t)
        /\ receipts' = Append(receipts, [gas |-> g, cum |-> gasUsed + g,
                                         succ |-> res = "Success"])
        /\ gasPool' = pool - g /\ gasUsed' = gasUsed + g
    BY <1>2 DEF CommitLog
  <2>2. [gas |-> g, cum |-> gasUsed + g, succ |-> res = "Success"] \in Receipt
    <3>1. gasUsed + g \in Nat
      OBVIOUS
    <3>2. (res = "Success") \in BOOLEAN
      BY Zenon
    <3>3. QED
      BY <3>1, <3>2, Zenon DEF Receipt
  <2>3. ReceiptChain'
    <3> DEFINE r == [gas |-> g, cum |-> gasUsed + g, succ |-> res = "Success"]
               n == Len(receipts)
    <3>1. /\ Len(receipts') = n + 1
          /\ \A i \in 1..n : receipts'[i] = receipts[i]
          /\ receipts'[n + 1] = r
      BY <2>1
    <3>2. \A i \in 1..(n + 1) : CumBefore(i)' = CumBefore(i)
      BY <3>1 DEF CumBefore
    <3>3. receipts'[n + 1].cum = gasUsed + receipts'[n + 1].gas
      BY <3>1 DEF r
    <3>4. gasUsed' = receipts'[n + 1].cum
      BY <2>1, <3>1 DEF r
    <3>5. \A i \in 1..(n + 1) : receipts'[i].cum = CumBefore(i)' + receipts'[i].gas
      <4>1. SUFFICES ASSUME NEW i \in 1..(n + 1)
                     PROVE  receipts'[i].cum = CumBefore(i)' + receipts'[i].gas
        OBVIOUS
      <4>2. CASE i <= n
        BY <3>1, <3>2, <4>2 DEF ReceiptChain, n
      <4>3. CASE i = n + 1
        BY <3>2, <3>3, <4>3 DEF ReceiptChain, n
      <4>4. QED
        BY <4>2, <4>3 DEF n
    <3>6. (gasUsed = CumBefore(Len(receipts) + 1))'
      BY <3>1, <3>4 DEF CumBefore, n
    <3>7. QED
      BY <3>1, <3>5, <3>6 DEF ReceiptChain, n
  <2>4. Range(txs') = Range(txs) \cup {t}
    BY <2>1 DEF Range
  <2>5. QED
    BY <1>1, <1>2, <2>1, <2>2, <2>3, <2>4
<1>3. CASE ~Executed(res)
  <2>1. UNCHANGED <<txs, receipts, gasUsed>> /\ gasPool' = pool
    BY <1>3 DEF CommitLog
  <2>2. QED
    BY <1>1, <1>3, <2>1 DEF ReceiptChain, CumBefore
<1>4. QED
  BY <1>2, <1>3

(* A commit of a pool tx in a state of the invariant: the bookkeeping   *)
(* facts of CommitLogFacts, with the gas the tx used paid from the pool.  *)
LEMMA TryCommitFacts ==
    ASSUME IInv, NEW t \in Txs, NEW res \in Results,
           NEW g \in GasChoices(GasLimitOf[t]),
           TryCommit(t, res, g)
    PROVE  /\ txs' \in Seq(TxIds)
           /\ receipts' \in Seq(Receipt)
           /\ Len(receipts') = Len(txs')
           /\ gasPool' \in Nat /\ gasUsed' \in Nat
           /\ checked' \in [Txs -> {"absent", "valid", "invalid"}]
           /\ ReceiptChain'
           /\ gasPool' + gasUsed' = gasPool + gasUsed
           /\ Range(txs') \subseteq Range(txs) \cup {t}
<1>1. /\ GasLimitOf[t] \in Nat /\ TX_GAS_INTRINSIC <= GasLimitOf[t]
      /\ g \in Nat /\ g <= GasLimitOf[t]
  BY GasAssumption DEF GasChoices
<1>2. Executed(res) => g <= gasPool
  <2>1. ASSUME Executed(res) PROVE ~(gasPool < GasLimitOf[t])
    BY <2>1, ExecutedFits DEF TryCommit
  <2>2. gasPool \in Nat
    BY DEF IInv, TypeOK
  <2>3. QED
    BY <1>1, <2>1, <2>2
<1>3. t \in TxIds /\ gasPool \in Nat
  BY DEF TxIds, IInv, TypeOK
<1>4. /\ txs \in Seq(TxIds) /\ receipts \in Seq(Receipt) /\ Len(receipts) = Len(txs)
      /\ gasUsed \in Nat /\ checked \in [Txs -> {"absent", "valid", "invalid"}]
      /\ ReceiptChain
  BY DEF IInv, TypeOK, Receipt
<1>5. CommitLog(t, res, g, gasPool)
  BY DEF TryCommit
<1>7. QED
  BY <1>1, <1>2, <1>3, <1>4, <1>5, CommitLogFacts

(* Executor::apply's nonce bump keeps the nonces natural numbers. *)
LEMMA CommitStateTyped ==
    ASSUME nonce \in [Accounts -> Nat], NEW t \in TxIds, NEW res,
           CommitState(t, res)
    PROVE  nonce' \in [Accounts -> Nat]
<1>1. TxCaller(t) \in Accounts
  BY TxAssumption DEF TxCaller, TxIds
<1>2. QED
  BY <1>1 DEF CommitState

(* One iteration of revert_txs_to keeps the invariant: refund_gas gives *)
(* back exactly the gas use_gas took for the popped receipt.              *)
LEMMA RevertTxIInv == IInv /\ RevertTx => IInv'
<1> SUFFICES ASSUME IInv, RevertTx PROVE IInv'
  OBVIOUS
<1> DEFINE L == Len(txs)
           t == txs[L]
           g == receipts[L].gas
<1>1. /\ txs \in Seq(TxIds) /\ receipts \in Seq(Receipt) /\ Len(receipts) = L
      /\ L \in Nat /\ L >= 1
      /\ pc = "bundleRevert"
  BY DEF IInv, TypeOK, RevertTx, Receipt, L
<1>2. /\ txs' = SubSeq(txs, 1, L - 1) /\ receipts' = SubSeq(receipts, 1, L - 1)
      /\ checked' = IF t = TipsTx THEN checked ELSE [checked EXCEPT ![t] = "absent"]
      /\ gasPool' = gasPool + g /\ gasUsed' = gasUsed - g
      /\ UNCHANGED <<pc, alive, bi, ti, bstop, faulted>>
  BY <1>1 DEF RevertTx, L, t, g
<1>3. /\ receipts[L].cum = CumBefore(L) + g
      /\ gasUsed = receipts[L].cum
      /\ CumBefore(L) \in Nat /\ g \in Nat
  <2>1. \A i \in 1..L : receipts[i] \in Receipt
    BY <1>1
  <2>2. \A i \in 1..L : receipts[i].cum \in Nat /\ receipts[i].gas \in Nat
    BY <2>1 DEF Receipt
  <2>3. CumBefore(L) \in Nat
    BY <1>1, <2>2 DEF CumBefore
  <2>4. receipts[L].cum = CumBefore(L) + g /\ gasUsed = receipts[L].cum
    BY <1>1 DEF IInv, ReceiptChain, CumBefore, g
  <2>5. QED
    BY <1>1, <2>2, <2>3, <2>4 DEF g
<1>4. /\ Len(receipts') = L - 1 /\ Len(txs') = L - 1
      /\ \A i \in 1..(L - 1) : receipts'[i] = receipts[i] /\ txs'[i] = txs[i]
  BY <1>1, <1>2
<1>5. ReceiptChain'
  <2>1. \A i \in 1..(L - 1) : CumBefore(i)' = CumBefore(i)
    BY <1>1, <1>4 DEF CumBefore
  <2>2. \A i \in 1..(L - 1) : receipts'[i].cum = CumBefore(i)' + receipts'[i].gas
    BY <1>1, <1>4, <2>1 DEF IInv, ReceiptChain
  <2>3. (gasUsed = CumBefore(Len(receipts) + 1))'
    BY <1>1, <1>2, <1>3, <1>4 DEF CumBefore
  <2>4. QED
    BY <1>4, <2>2, <2>3 DEF ReceiptChain
<1>6. TipsTx \notin Range(txs) /\ TipsTx \notin Range(txs')
  <2>1. TipsTx \notin Range(txs)
    BY <1>1 DEF IInv, TipsLast
  <2>2. Range(txs') \subseteq Range(txs)
    BY <1>1, <1>4 DEF Range
  <2>3. QED
    BY <2>1, <2>2
<1>7. TypeOK'
  <2>1. (alive \in BOOLEAN /\ bstop \in BOOLEAN /\ faulted \in BOOLEAN)'
    BY <1>2, Zenon DEF IInv, TypeOK
  <2>2. (txs \in Seq(TxIds) /\ receipts \in Seq(Receipt) /\ Len(receipts) = Len(txs))'
    BY <1>1, <1>2, <1>4
  <2>3. (gasPool \in Nat /\ gasUsed \in Nat)'
    <3>1. gasPool \in Nat
      BY DEF IInv, TypeOK
    <3>2. QED
      BY <1>2, <1>3, <3>1
  <2>4. checked' \in [Txs -> {"absent", "valid", "invalid"}]
    BY <1>2 DEF IInv, TypeOK
  <2>5. QED
    BY <2>1, <2>2, <2>3, <2>4 DEF RevertTx, IInv, TypeOK, Receipt
<1>8. Conservation'
  <2>1. gasPool + gasUsed = Budget
    BY <1>1, <1>6, GasAssumption DEF IInv, Conservation, Budget
  <2>2. gasPool \in Nat /\ gasUsed \in Nat
    BY DEF IInv, TypeOK
  <2>4. gasPool' + gasUsed' = Budget
    BY <1>2, <1>3, <2>1, <2>2
  <2>5. (IF TipsTx \in Range(txs') THEN TX_GAS_RESERVE ELSE 0) = 0
    BY ONLY <1>6
  <2>6. Budget \in Int
    BY GasAssumption DEF Budget
  <2>7. Budget + (IF TipsTx \in Range(txs') THEN TX_GAS_RESERVE ELSE 0) = Budget
    BY ONLY <2>5, <2>6
  <2>3. QED
    BY ONLY <2>4, <2>7 DEF Conservation
<1>9. TipsLast' /\ PrepareEmpty' /\ BundleIndexes'
  BY <1>1, <1>2, <1>6 DEF IInv, TipsLast, PrepareEmpty, BundleIndexes
<1>10. QED
  BY <1>5, <1>7, <1>8, <1>9 DEF IInv

(* The part of the invariant a commit outside fill_tips keeps, given    *)
(* the facts of TryCommitFacts and a phase before the tips.               *)
LEMMA CommitKeepsGas ==
    ASSUME IInv, NEW t \in Txs,
           pc \notin {"prepare", "failed", "finalize", "done"},
           gasPool' + gasUsed' = gasPool + gasUsed,
           Range(txs') \subseteq Range(txs) \cup {t},
           gasPool' \in Nat, gasUsed' \in Nat
    PROVE  /\ TipsTx \notin Range(txs')
           /\ Conservation'
<1>1. TipsTx \notin Range(txs) /\ t # TipsTx
  BY TxAssumption DEF IInv, TipsLast
<1>2. TipsTx \notin Range(txs')
  BY <1>1
<1>3. gasPool + gasUsed = Budget
  BY <1>1, GasAssumption DEF IInv, Conservation, Budget
<1>4. gasPool' + gasUsed' = Budget + (IF TipsTx \in Range(txs') THEN TX_GAS_RESERVE ELSE 0)
  <2>1. (IF TipsTx \in Range(txs') THEN TX_GAS_RESERVE ELSE 0) = 0
    BY <1>2
  <2>2. Budget \in Int
    BY GasAssumption DEF Budget
  <2>3. gasPool' + gasUsed' = Budget
    BY <1>3
  <2>4. Budget + (IF TipsTx \in Range(txs') THEN TX_GAS_RESERVE ELSE 0) = Budget
    BY ONLY <2>1, <2>2
  <2>5. QED
    BY ONLY <2>3, <2>4
<1>5. QED
  BY <1>2, <1>4 DEF Conservation

(* One iteration of fill_seq keeps the invariant. *)
LEMMA SeqTxIInv == IInv /\ SeqTx => IInv'
<1> SUFFICES ASSUME IInv, SeqTx PROVE IInv'
  OBVIOUS
<1> DEFINE t == SeqList[si]
<1>1. pc = "seqTx" /\ si \in Nat \ {0} /\ si <= Len(SeqList) /\ t \in Txs
  BY PoolAssumption DEF SeqTx, IInv, TypeOK, t
<1>2. PICK res \in Results, g \in GasChoices(GasLimitOf[t]) :
        /\ TryCommit(t, res, g)
        /\ CommitState(t, res)
        /\ seqMarked' = IF res = "MarkFail" THEN seqMarked \cup {t} ELSE seqMarked
        /\ seqRemoved' = IF res = "RemoveTx" THEN seqRemoved \cup {t} ELSE seqRemoved
        /\ si' = si + 1
        /\ \/ /\ res \notin {"Stop", "Err"} /\ pc' = "seqTx" /\ UNCHANGED <<err, faulted>>
           \/ /\ res = "Stop" /\ pc' = "price" /\ UNCHANGED <<err, faulted>>
           \/ /\ res = "Err" /\ StateFault
  BY DEF SeqTx, t
<1>3. UNCHANGED <<alive, snapshot, bi, ti, bstart, bstop, bundleResult,
                  heads, rest, page, priceRemoved>>
  BY DEF SeqTx
<1>4. /\ txs' \in Seq(TxIds) /\ receipts' \in Seq(Receipt) /\ Len(receipts') = Len(txs')
      /\ gasPool' \in Nat /\ gasUsed' \in Nat
      /\ checked' \in [Txs -> {"absent", "valid", "invalid"}]
      /\ ReceiptChain'
      /\ gasPool' + gasUsed' = gasPool + gasUsed
      /\ Range(txs') \subseteq Range(txs) \cup {t}
      /\ nonce' \in [Accounts -> Nat]
  <2>1. nonce \in [Accounts -> Nat] /\ t \in TxIds
    BY <1>1 DEF IInv, TypeOK, TxIds
  <2>2. QED
    BY <1>1, <1>2, <2>1, TryCommitFacts, CommitStateTyped
<1>5. pc' \in {"seqTx", "price", "failed"} /\ err' \in {err, "StateError"}
      /\ (faulted \in BOOLEAN)'
  BY <1>2, Zenon DEF StateFault, IInv, TypeOK
<1>6. TipsTx \notin Range(txs') /\ Conservation'
  BY <1>1, <1>4, CommitKeepsGas
<1>7. TypeOK'
  <2>1. (alive \in BOOLEAN /\ bstop \in BOOLEAN)'
    BY <1>3, Zenon DEF IInv, TypeOK
  <2>2. (seqMarked \subseteq Txs /\ seqRemoved \subseteq Txs /\ si \in Nat \ {0})'
    BY <1>1, <1>2 DEF IInv, TypeOK
  <2>3. QED
    BY <1>3, <1>4, <1>5, <2>1, <2>2 DEF IInv, TypeOK, Phases, Receipt
<1>8. TipsLast' /\ PrepareEmpty' /\ BundleIndexes'
  BY <1>5, <1>6 DEF TipsLast, PrepareEmpty, BundleIndexes
<1>9. QED
  BY <1>4, <1>6, <1>7, <1>8 DEF IInv

(* One iteration of fill_bundles' tx loop keeps the invariant; the      *)
(* failed bundle's revert to its state root restores typed nonces.        *)
LEMMA BundleTxIInv == IInv /\ BundleTx => IInv'
<1> SUFFICES ASSUME IInv, BundleTx PROVE IInv'
  OBVIOUS
<1> DEFINE b == BundleList[bi]
           t == b[ti]
<1>1. /\ pc = "bundleTx" /\ bi \in 1..Len(BundleList)
      /\ ti \in 1..Len(b) /\ b \in Seq(Txs) /\ t \in Txs
  BY BundlesNonEmpty DEF BundleTx, IInv, BundleIndexes, b, t
<1>2. UNCHANGED <<alive, snapshot, bi, bstart, bundleResult, si, seqMarked,
                  seqRemoved, heads, rest, page, priceRemoved>>
  BY DEF BundleTx
<1>3. (alive \in BOOLEAN)' /\ snapshot' \in [Accounts -> Nat]
  BY <1>2, Zenon DEF IInv, TypeOK
<1>4. CASE /\ StateFault
           /\ UNCHANGED <<nonce, txs, receipts, gasPool, gasUsed, checked, ti, bstop>>
  <2>1. (bstop \in BOOLEAN /\ faulted \in BOOLEAN)'
    BY <1>4, Zenon DEF StateFault, IInv, TypeOK
  <2>2. TypeOK'
    BY <1>2, <1>3, <1>4, <2>1 DEF StateFault, IInv, TypeOK, Phases
  <2>3. ReceiptChain' /\ Conservation' /\ TipsLast' /\ PrepareEmpty' /\ BundleIndexes'
    BY <1>4 DEF StateFault, IInv, ReceiptChain, CumBefore, Conservation, TipsLast,
                PrepareEmpty, BundleIndexes
  <2>4. QED
    BY <2>2, <2>3 DEF IInv
<1>5. CASE \E res \in Results, g \in GasChoices(GasLimitOf[t]) :
             /\ TryCommit(t, res, g)
             /\ \/ /\ res = "Success" \/ (res = "Reverted" /\ t \in AllowRevert)
                   /\ CommitState(t, res)
                   /\ ti' = ti + 1
                   /\ pc' = IF ti = Len(b) THEN "bundleFlush" ELSE "bundleTx"
                   /\ UNCHANGED <<bstop, err, faulted>>
                \/ /\ res = "Err"
                   /\ StateFault
                   /\ UNCHANGED <<nonce, ti, bstop>>
                \/ /\ res \notin {"Success", "Err"}
                   /\ ~(res = "Reverted" /\ t \in AllowRevert)
                   /\ RevertState(t, res)
                   /\ pc' = "bundleRevert"
                   /\ bstop' = (res = "Stop")
                   /\ UNCHANGED <<ti, err, faulted>>
  <2>1. PICK res \in Results, g \in GasChoices(GasLimitOf[t]) :
             /\ TryCommit(t, res, g)
             /\ \/ /\ res = "Success" \/ (res = "Reverted" /\ t \in AllowRevert)
                   /\ CommitState(t, res)
                   /\ ti' = ti + 1
                   /\ pc' = IF ti = Len(b) THEN "bundleFlush" ELSE "bundleTx"
                   /\ UNCHANGED <<bstop, err, faulted>>
                \/ /\ res = "Err"
                   /\ StateFault
                   /\ UNCHANGED <<nonce, ti, bstop>>
                \/ /\ res \notin {"Success", "Err"}
                   /\ ~(res = "Reverted" /\ t \in AllowRevert)
                   /\ RevertState(t, res)
                   /\ pc' = "bundleRevert"
                   /\ bstop' = (res = "Stop")
                   /\ UNCHANGED <<ti, err, faulted>>
    BY <1>5
  <2>2. /\ txs' \in Seq(TxIds) /\ receipts' \in Seq(Receipt) /\ Len(receipts') = Len(txs')
        /\ gasPool' \in Nat /\ gasUsed' \in Nat
        /\ checked' \in [Txs -> {"absent", "valid", "invalid"}]
        /\ ReceiptChain'
        /\ gasPool' + gasUsed' = gasPool + gasUsed
        /\ Range(txs') \subseteq Range(txs) \cup {t}
    BY <1>1, <2>1, TryCommitFacts
  <2>3. /\ nonce' \in [Accounts -> Nat]
        /\ pc' \in {"bundleFlush", "bundleTx", "failed", "bundleRevert"}
        /\ ti' \in Nat \ {0}
        /\ pc' = "bundleTx" => ti' \in 1..Len(b)
        /\ err' \in {"none", "StateError", "NoTx", "FeeTooLow", "SendTipsFail"}
    <3>1. nonce \in [Accounts -> Nat] /\ t \in TxIds
      BY <1>1 DEF IInv, TypeOK, TxIds
    <3>2. err \in {"none", "StateError", "NoTx", "FeeTooLow", "SendTipsFail"}
      BY DEF IInv, TypeOK
    <3>3. CASE /\ res = "Success" \/ (res = "Reverted" /\ t \in AllowRevert)
               /\ CommitState(t, res)
               /\ ti' = ti + 1
               /\ pc' = IF ti = Len(b) THEN "bundleFlush" ELSE "bundleTx"
               /\ UNCHANGED <<bstop, err, faulted>>
      <4>1. nonce' \in [Accounts -> Nat]
        BY <3>1, <3>3, CommitStateTyped
      <4>2. QED
        BY <1>1, <3>2, <3>3, <4>1
    <3>4. CASE /\ res = "Err"
               /\ StateFault
               /\ UNCHANGED <<nonce, ti, bstop>>
      BY <1>1, <3>1, <3>4 DEF StateFault
    <3>5. CASE /\ res \notin {"Success", "Err"}
               /\ ~(res = "Reverted" /\ t \in AllowRevert)
               /\ RevertState(t, res)
               /\ pc' = "bundleRevert"
               /\ bstop' = (res = "Stop")
               /\ UNCHANGED <<ti, err, faulted>>
      <4>1. nonce' \in [Accounts -> Nat]
        <5>1. snapshot \in [Accounts -> Nat]
          BY DEF IInv, TypeOK
        <5>2. QED
          BY <3>5, <5>1 DEF RevertState
      <4>2. QED
        BY <1>1, <3>2, <3>5, <4>1
    <3>6. QED
      BY <2>1, <3>3, <3>4, <3>5
  <2>4. (bstop \in BOOLEAN /\ faulted \in BOOLEAN)'
    BY <2>1, Zenon DEF StateFault, IInv, TypeOK
  <2>5. TipsTx \notin Range(txs') /\ Conservation'
    BY <1>1, <2>2, CommitKeepsGas
  <2>6. TypeOK'
    BY <1>2, <1>3, <2>2, <2>3, <2>4 DEF IInv, TypeOK, Phases, Receipt
  <2>7. TipsLast' /\ PrepareEmpty' /\ BundleIndexes'
    BY <1>1, <1>2, <2>3, <2>5 DEF TipsLast, PrepareEmpty, BundleIndexes
  <2>8. QED
    BY <2>2, <2>5, <2>6, <2>7 DEF IInv
<1>6. QED
  BY <1>4, <1>5 DEF BundleTx, b, t

(* TransactionsByPriceAndNonce's shift and pop keep heads and the       *)
(* per-sender queues sets of pool txs.                                    *)
LEMMA ShiftPopTyped ==
    ASSUME heads \subseteq Txs, rest \in [Accounts -> SUBSET Txs],
           NEW t \in Txs, Shift(t) \/ Pop(t)
    PROVE  heads' \subseteq Txs /\ rest' \in [Accounts -> SUBSET Txs]
<1>1. Caller[t] \in Accounts /\ Lowest(rest[Caller[t]]) \subseteq Txs
  BY TxAssumption DEF Lowest
<1>2. QED
  BY <1>1 DEF Shift, Pop

(* One iteration of commit_pool's inner loop keeps the invariant. *)
LEMMA PriceTxIInv == IInv /\ PriceTx => IInv'
<1> SUFFICES ASSUME IInv, PriceTx PROVE IInv'
  OBVIOUS
<1>1. pc = "priceTx"
  BY DEF PriceTx
<1>2. PICK t \in Best(heads) \cap page :
        \E res \in Results, g \in GasChoices(GasLimitOf[t]) :
        /\ TryCommit(t, res, g)
        /\ CommitState(t, res)
        /\ \/ /\ Executed(res) /\ Shift(t)
              /\ pc' = "priceTx" /\ UNCHANGED <<priceRemoved, faulted>>
           \/ /\ res \in {"Pop", "MarkFail"} /\ Pop(t)
              /\ pc' = "priceTx" /\ UNCHANGED <<priceRemoved, faulted>>
           \/ /\ res = "RemoveTx" /\ Shift(t)
              /\ priceRemoved' = priceRemoved \cup {t}
              /\ pc' = "priceTx" /\ UNCHANGED faulted
           \/ /\ res = "Stop" /\ Pop(t)
              /\ pc' = "priceFlush" /\ UNCHANGED <<priceRemoved, faulted>>
           \/ /\ res = "Err"
              /\ pc' = "priceFlush" /\ faulted' = TRUE
              /\ UNCHANGED <<heads, rest, priceRemoved>>
  BY DEF PriceTx
<1>20. PICK res \in Results, g \in GasChoices(GasLimitOf[t]) :
        /\ TryCommit(t, res, g)
        /\ CommitState(t, res)
        /\ \/ /\ Executed(res) /\ Shift(t)
              /\ pc' = "priceTx" /\ UNCHANGED <<priceRemoved, faulted>>
           \/ /\ res \in {"Pop", "MarkFail"} /\ Pop(t)
              /\ pc' = "priceTx" /\ UNCHANGED <<priceRemoved, faulted>>
           \/ /\ res = "RemoveTx" /\ Shift(t)
              /\ priceRemoved' = priceRemoved \cup {t}
              /\ pc' = "priceTx" /\ UNCHANGED faulted
           \/ /\ res = "Stop" /\ Pop(t)
              /\ pc' = "priceFlush" /\ UNCHANGED <<priceRemoved, faulted>>
           \/ /\ res = "Err"
              /\ pc' = "priceFlush" /\ faulted' = TRUE
              /\ UNCHANGED <<heads, rest, priceRemoved>>
  BY <1>2
<1>3. UNCHANGED <<alive, snapshot, bi, ti, bstart, bstop, bundleResult, si,
                  seqMarked, seqRemoved, page, err>>
  BY DEF PriceTx
<1>4. t \in Txs /\ t \in TxIds
  BY DEF Best, IInv, TypeOK, TxIds
<1>5. /\ txs' \in Seq(TxIds) /\ receipts' \in Seq(Receipt) /\ Len(receipts') = Len(txs')
      /\ gasPool' \in Nat /\ gasUsed' \in Nat
      /\ checked' \in [Txs -> {"absent", "valid", "invalid"}]
      /\ ReceiptChain'
      /\ gasPool' + gasUsed' = gasPool + gasUsed
      /\ Range(txs') \subseteq Range(txs) \cup {t}
  BY <1>20, <1>4, TryCommitFacts
<1>6. nonce' \in [Accounts -> Nat]
  BY <1>20, <1>4, CommitStateTyped DEF IInv, TypeOK
<1>7. /\ heads' \subseteq Txs /\ rest' \in [Accounts -> SUBSET Txs]
      /\ priceRemoved' \subseteq Txs
      /\ pc' \in {"priceTx", "priceFlush"}
  <2>1. heads \subseteq Txs /\ rest \in [Accounts -> SUBSET Txs] /\ priceRemoved \subseteq Txs
    BY DEF IInv, TypeOK
  <2>2. QED
    BY <1>20, <1>4, <2>1, ShiftPopTyped
<1>8. (alive \in BOOLEAN /\ bstop \in BOOLEAN /\ faulted \in BOOLEAN)'
  BY <1>20, <1>3, Zenon DEF IInv, TypeOK
<1>9. TipsTx \notin Range(txs') /\ Conservation'
  BY <1>1, <1>4, <1>5, CommitKeepsGas
<1>10. TypeOK'
  BY <1>3, <1>5, <1>6, <1>7, <1>8 DEF IInv, TypeOK, Phases, Receipt
<1>11. TipsLast' /\ PrepareEmpty' /\ BundleIndexes'
  BY <1>7, <1>9 DEF TipsLast, PrepareEmpty, BundleIndexes
<1>12. QED
  BY <1>5, <1>9, <1>10, <1>11 DEF IInv

(* commit_transaction returns one of its results on every EVM outcome. *)
LEMMA CommitResultsIn ==
    ASSUME NEW t, NEW pool, NEW isAlive, NEW outcomes \in SUBSET ExecOutcomes, NEW limit
    PROVE  CommitResults(t, pool, isAlive, outcomes, limit) \subseteq Results
BY DEF CommitResults, ExecResult, Results, ExecOutcomes

(* fill_tips keeps the invariant: the tips transfer gets TX_GAS back in  *)
(* the pool, and its gas moves to the header with it in the block.        *)
LEMMA TipsIInv == IInv /\ Tips => IInv'
<1> SUFFICES ASSUME IInv, Tips PROVE IInv'
  OBVIOUS
<1>1. /\ pc = "tips"
      /\ UNCHANGED <<alive, snapshot, checked, bi, ti, bstart, bstop,
                     bundleResult, si, seqMarked, seqRemoved, heads, rest,
                     page, priceRemoved>>
  BY DEF Tips
<1>2. TipsTx \notin Range(txs) /\ gasPool \in Nat /\ gasUsed \in Nat
  BY <1>1 DEF IInv, TipsLast, TypeOK
<1>3. (alive \in BOOLEAN /\ bstop \in BOOLEAN)'
  BY <1>1, Zenon DEF IInv, TypeOK
<1>4. CASE \/ /\ StateFault
              /\ UNCHANGED <<nonce, txs, receipts, gasPool, gasUsed>>
           \/ /\ pc' = "failed" /\ err' = "FeeTooLow"
              /\ UNCHANGED <<nonce, txs, receipts, gasPool, gasUsed, faulted>>
  <2>1. (faulted \in BOOLEAN)'
    BY <1>4, Zenon DEF StateFault, IInv, TypeOK
  <2>2. TypeOK'
    BY <1>1, <1>3, <1>4, <2>1 DEF StateFault, IInv, TypeOK, Phases
  <2>3. ReceiptChain' /\ Conservation' /\ TipsLast' /\ PrepareEmpty' /\ BundleIndexes'
    BY <1>4 DEF StateFault, IInv, ReceiptChain, CumBefore, Conservation, TipsLast,
                PrepareEmpty, BundleIndexes
  <2>4. QED
    BY <2>2, <2>3 DEF IInv
<1>5. CASE \E txGas \in {TX_GAS_INTRINSIC, TX_GAS_RESERVE} :
          LET pool == gasPool + TX_GAS_RESERVE IN
          \E res \in CommitResults(TipsTx, pool, TRUE, TipsOutcomes, txGas),
             g \in GasChoices(txGas) :
            /\ CommitLog(TipsTx, res, g, pool)
            /\ CommitState(TipsTx, res)
            /\ CASE res = "Success" -> pc' = "finalize" /\ UNCHANGED <<err, faulted>>
                 [] res = "Err"     -> StateFault
                 [] OTHER           -> /\ pc' = "failed" /\ err' = "SendTipsFail"
                                       /\ UNCHANGED faulted
  <2>1. PICK txGas \in {TX_GAS_INTRINSIC, TX_GAS_RESERVE} :
          \E res \in CommitResults(TipsTx, gasPool + TX_GAS_RESERVE, TRUE, TipsOutcomes, txGas),
             g \in GasChoices(txGas) :
            /\ CommitLog(TipsTx, res, g, gasPool + TX_GAS_RESERVE)
            /\ CommitState(TipsTx, res)
            /\ CASE res = "Success" -> pc' = "finalize" /\ UNCHANGED <<err, faulted>>
                 [] res = "Err"     -> StateFault
                 [] OTHER           -> /\ pc' = "failed" /\ err' = "SendTipsFail"
                                       /\ UNCHANGED faulted
    BY <1>5
  <2> DEFINE pool == gasPool + TX_GAS_RESERVE
  <2>2. PICK res \in CommitResults(TipsTx, pool, TRUE, TipsOutcomes, txGas),
             g \in GasChoices(txGas) :
            /\ CommitLog(TipsTx, res, g, pool)
            /\ CommitState(TipsTx, res)
            /\ CASE res = "Success" -> pc' = "finalize" /\ UNCHANGED <<err, faulted>>
                 [] res = "Err"     -> StateFault
                 [] OTHER           -> /\ pc' = "failed" /\ err' = "SendTipsFail"
                                       /\ UNCHANGED faulted
    BY <2>1 DEF pool
  <2>3. /\ res \in Results /\ TipsTx \in TxIds
        /\ pool \in Nat /\ g \in Nat
        /\ Executed(res) => g <= pool
    <3>1. res \in Results
      BY TxAssumption, CommitResultsIn
    <3>2. txGas \in Nat /\ g \in Nat /\ g <= txGas
      BY GasAssumption DEF GasChoices
    <3>3. Executed(res) => ~(pool < txGas)
      BY ExecutedFits
    <3>4. QED
      BY <1>2, <3>1, <3>2, <3>3, GasAssumption DEF TxIds, pool
  <2>4. /\ txs' \in Seq(TxIds) /\ receipts' \in Seq(Receipt) /\ Len(receipts') = Len(txs')
        /\ gasPool' \in Nat /\ gasUsed' \in Nat
        /\ checked' \in [Txs -> {"absent", "valid", "invalid"}]
        /\ ReceiptChain'
        /\ gasPool' + gasUsed' = pool + gasUsed
        /\ Range(txs') = IF Executed(res) THEN Range(txs) \cup {TipsTx} ELSE Range(txs)
    <3>1. /\ txs \in Seq(TxIds) /\ receipts \in Seq(Receipt) /\ Len(receipts) = Len(txs)
          /\ gasUsed \in Nat /\ checked \in [Txs -> {"absent", "valid", "invalid"}]
          /\ ReceiptChain
      BY DEF IInv, TypeOK, Receipt
    <3>2. QED
      BY <2>2, <2>3, <3>1, CommitLogFacts
  <2>5. nonce' \in [Accounts -> Nat]
    BY <2>2, <2>3, CommitStateTyped DEF IInv, TypeOK
  <2>6. /\ pc' \in {"finalize", "failed"}
        /\ res = "Success" => pc' = "finalize"
        /\ res # "Success" => pc' = "failed"
        /\ err' \in {"none", "StateError", "NoTx", "FeeTooLow", "SendTipsFail"}
    <3>1. err \in {"none", "StateError", "NoTx", "FeeTooLow", "SendTipsFail"}
      BY DEF IInv, TypeOK
    <3>2. QED
      BY <2>2, <3>1 DEF StateFault
  <2>7. (faulted \in BOOLEAN)'
    BY <2>2, Zenon DEF StateFault, IInv, TypeOK
  <2>8. TypeOK'
    BY <1>1, <1>3, <2>4, <2>5, <2>6, <2>7 DEF IInv, TypeOK, Phases, Receipt
  <2>9. Conservation'
    <3>1. CASE res = "Success"
      <4>1. TipsTx \in Range(txs')
        BY <2>4, <3>1 DEF Executed
      <4>2. gasPool + gasUsed = Budget
        BY <1>1, <1>2, GasAssumption DEF IInv, Conservation, Budget
      <4>3. gasPool' + gasUsed' = Budget + TX_GAS_RESERVE
        <5>1. gasPool' + gasUsed' = gasPool + TX_GAS_RESERVE + gasUsed
          BY ONLY <2>4 DEF pool
        <5>2. TX_GAS_RESERVE \in Nat /\ Budget \in Int
          BY GasAssumption DEF Budget
        <5>3. QED
          BY ONLY <1>2, <4>2, <5>1, <5>2
      <4>4. (IF TipsTx \in Range(txs') THEN TX_GAS_RESERVE ELSE 0) = TX_GAS_RESERVE
        BY ONLY <4>1
      <4>5. gasPool' + gasUsed' = Budget + (IF TipsTx \in Range(txs') THEN TX_GAS_RESERVE ELSE 0)
        BY ONLY <4>3, <4>4
      <4>6. QED
        BY <4>5 DEF Conservation
    <3>2. CASE res # "Success"
      BY <2>6, <3>2 DEF Conservation
    <3>3. QED
      BY <3>1, <3>2
  <2>10. TipsLast' /\ PrepareEmpty' /\ BundleIndexes'
    BY <2>6 DEF TipsLast, PrepareEmpty, BundleIndexes
  <2>11. QED
    BY <2>4, <2>8, <2>9, <2>10 DEF IInv
<1>6. QED
  BY <1>4, <1>5 DEF Tips

(* A step that leaves the receipts and header.gas_used alone keeps the  *)
(* receipt chain.                                                         *)
LEMMA ReceiptChainFrame ==
    ASSUME ReceiptChain, UNCHANGED <<receipts, gasUsed>>
    PROVE  ReceiptChain'
BY DEF ReceiptChain, CumBefore

(* The steps that commit no tx (phase changes, prefetches, the price    *)
(* pool's listing and paging, finalize, the deadline) keep the invariant. *)
LEMMA OtherStepsIInv ==
    ASSUME IInv,
           \/ Prepare \/ BundleNext \/ BundleReverted \/ BundleFlush
           \/ SeqPrefetch \/ SeqDone \/ FetchPriceList \/ PricePage
           \/ PriceRepage \/ PriceFlush \/ NoTipsRecipient \/ Finalize
           \/ Timeout
    PROVE  IInv'
<1>1. CASE Prepare
  <2>1. (alive \in BOOLEAN /\ bstop \in BOOLEAN /\ faulted \in BOOLEAN)'
    BY <1>1, Zenon DEF Prepare, StateFault, IInv, TypeOK
  <2>2. TypeOK'
    BY <1>1, <2>1, GasAssumption DEF Prepare, StateFault, IInv, TypeOK, BundleIndexes, Phases, Budget
  <2>3. ReceiptChain' /\ TipsLast' /\ PrepareEmpty' /\ BundleIndexes'
    BY <1>1 DEF Prepare, StateFault, IInv, ReceiptChain, CumBefore, TipsLast, PrepareEmpty, BundleIndexes, Range
  <2>5. txs = <<>> /\ gasUsed = 0
    BY <1>1 DEF Prepare, IInv, TypeOK, ReceiptChain, CumBefore, PrepareEmpty
  <2>6. Conservation'
    BY <1>1, <2>5, GasAssumption DEF Prepare, StateFault, Conservation, Range, Budget
  <2>4. QED
    BY <1>1, <2>2, <2>3, <2>6 DEF IInv, Prepare
<1>2. CASE BundleNext
  <2>1. (alive \in BOOLEAN /\ bstop \in BOOLEAN /\ faulted \in BOOLEAN)'
    BY <1>2, Zenon DEF BundleNext, StateFault, IInv, TypeOK
  <2>2. TypeOK'
    <3>1. (/\ snapshot \in [Accounts -> Nat]
          /\ bstart \in Nat /\ ti \in Nat \ {0})'
      BY <1>2 DEF BundleNext, StateFault, IInv, TypeOK
    <3>2. QED
      BY <1>2, <2>1, <3>1 DEF BundleNext, StateFault, IInv, TypeOK, Phases
  <2>3. ReceiptChain' /\ TipsLast' /\ PrepareEmpty' /\ BundleIndexes'
    <3>1. ReceiptChain'
      BY <1>2, ReceiptChainFrame DEF BundleNext, IInv
    <3>2. TipsLast' /\ PrepareEmpty' /\ BundleIndexes'
      BY <1>2, BundlesNonEmpty DEF BundleNext, StateFault, IInv, TypeOK, TipsLast, PrepareEmpty, BundleIndexes
    <3>3. QED
      BY <3>1, <3>2
  <2>4. Conservation'
    <3>1. UNCHANGED <<gasPool, gasUsed, txs>>
      BY <1>2 DEF BundleNext
    <3>2. gasPool + gasUsed = Budget + (IF TipsTx \in Range(txs) THEN TX_GAS_RESERVE ELSE 0)
      BY <1>2 DEF BundleNext, IInv, Conservation
    <3>3. QED
      BY ONLY <3>1, <3>2 DEF Conservation
  <2>5. QED
    BY <2>2, <2>3, <2>4 DEF IInv
<1>3. CASE BundleReverted
  <2>1. (alive \in BOOLEAN /\ bstop \in BOOLEAN /\ faulted \in BOOLEAN)'
    BY <1>3, Zenon DEF BundleReverted, StateFault, IInv, TypeOK
  <2>2. TypeOK'
    BY <1>3, PoolAssumption, <2>1 DEF BundleReverted, StateFault, IInv, TypeOK, BundleIndexes, Phases
  <2>3. ReceiptChain' /\ TipsLast' /\ PrepareEmpty' /\ BundleIndexes'
    <3>1. ReceiptChain'
      BY <1>3, ReceiptChainFrame DEF BundleReverted, IInv
    <3>2. TipsLast' /\ PrepareEmpty' /\ BundleIndexes'
      BY <1>3, PoolAssumption DEF BundleReverted, StateFault, IInv, TypeOK, TipsLast, PrepareEmpty, BundleIndexes
    <3>3. QED
      BY <3>1, <3>2
  <2>4. Conservation'
    BY <1>3 DEF BundleReverted, StateFault, IInv, Conservation
  <2>5. QED
    BY <2>2, <2>3, <2>4 DEF IInv
<1>4. CASE BundleFlush
  <2>1. (alive \in BOOLEAN /\ bstop \in BOOLEAN /\ faulted \in BOOLEAN)'
    BY <1>4, Zenon DEF BundleFlush, StateFault, IInv, TypeOK
  <2>2. TypeOK'
    <3>1. bi \in 1..Len(BundleList)
      BY <1>4 DEF BundleFlush, IInv, BundleIndexes
    <3>2. (/\ bundleResult \in [1..Len(BundleList) -> {"none", "submitted", "reverted"}]
          /\ bi \in 1..(Len(BundleList) + 1))'
      BY <1>4, <3>1 DEF BundleFlush, StateFault, IInv, TypeOK
    <3>3. QED
      BY <1>4, <2>1, <3>2 DEF BundleFlush, StateFault, IInv, TypeOK, Phases
  <2>3. ReceiptChain' /\ TipsLast' /\ PrepareEmpty' /\ BundleIndexes'
    <3>1. ReceiptChain'
      BY <1>4, ReceiptChainFrame DEF BundleFlush, IInv
    <3>2. TipsLast' /\ PrepareEmpty' /\ BundleIndexes'
      BY <1>4, PoolAssumption DEF BundleFlush, StateFault, IInv, TypeOK, TipsLast, PrepareEmpty, BundleIndexes
    <3>3. QED
      BY <3>1, <3>2
  <2>4. Conservation'
    BY <1>4 DEF BundleFlush, StateFault, IInv, Conservation
  <2>5. QED
    BY <2>2, <2>3, <2>4 DEF IInv
<1>5. CASE SeqPrefetch
  <2>1. (alive \in BOOLEAN /\ bstop \in BOOLEAN /\ faulted \in BOOLEAN)'
    BY <1>5, Zenon DEF SeqPrefetch, StateFault, IInv, TypeOK
  <2>2. TypeOK'
    BY <1>5, <2>1 DEF SeqPrefetch, StateFault, IInv, TypeOK, BundleIndexes, Phases
  <2>3. ReceiptChain' /\ TipsLast' /\ PrepareEmpty' /\ BundleIndexes'
    <3>1. ReceiptChain'
      BY <1>5, ReceiptChainFrame DEF SeqPrefetch, IInv
    <3>2. TipsLast' /\ PrepareEmpty' /\ BundleIndexes'
      BY <1>5 DEF SeqPrefetch, StateFault, IInv, TypeOK, TipsLast, PrepareEmpty, BundleIndexes
    <3>3. QED
      BY <3>1, <3>2
  <2>4. Conservation'
    BY <1>5 DEF SeqPrefetch, StateFault, IInv, Conservation
  <2>5. QED
    BY <2>2, <2>3, <2>4 DEF IInv
<1>6. CASE SeqDone
  <2>1. (alive \in BOOLEAN /\ bstop \in BOOLEAN /\ faulted \in BOOLEAN)'
    BY <1>6, Zenon DEF SeqDone, StateFault, IInv, TypeOK
  <2>2. TypeOK'
    BY <1>6, <2>1 DEF SeqDone, StateFault, IInv, TypeOK, BundleIndexes, Phases
  <2>3. ReceiptChain' /\ TipsLast' /\ PrepareEmpty' /\ BundleIndexes'
    <3>1. ReceiptChain'
      BY <1>6, ReceiptChainFrame DEF SeqDone, IInv
    <3>2. TipsLast' /\ PrepareEmpty' /\ BundleIndexes'
      BY <1>6 DEF SeqDone, StateFault, IInv, TypeOK, TipsLast, PrepareEmpty, BundleIndexes
    <3>3. QED
      BY <3>1, <3>2
  <2>4. Conservation'
    BY <1>6 DEF SeqDone, StateFault, IInv, Conservation
  <2>5. QED
    BY <2>2, <2>3, <2>4 DEF IInv
<1>7. CASE FetchPriceList
  <2>1. (alive \in BOOLEAN /\ bstop \in BOOLEAN /\ faulted \in BOOLEAN)'
    BY <1>7, Zenon DEF FetchPriceList, StateFault, IInv, TypeOK
  <2>2. TypeOK'
    BY <1>7, PoolAssumption, <2>1 DEF FetchPriceList, StateFault, IInv, TypeOK, BundleIndexes, Phases, Mark, Run, Lowest, Dropped
  <2>3. ReceiptChain' /\ TipsLast' /\ PrepareEmpty' /\ BundleIndexes'
    <3>1. ReceiptChain'
      BY <1>7, ReceiptChainFrame DEF FetchPriceList, IInv
    <3>2. TipsLast' /\ PrepareEmpty' /\ BundleIndexes'
      BY <1>7, PoolAssumption DEF FetchPriceList, StateFault, IInv, TypeOK, TipsLast, PrepareEmpty, BundleIndexes
    <3>3. QED
      BY <3>1, <3>2
  <2>4. Conservation'
    BY <1>7 DEF FetchPriceList, StateFault, IInv, Conservation
  <2>5. QED
    BY <2>2, <2>3, <2>4 DEF IInv
<1>8. CASE PricePage
  <2>1. (alive \in BOOLEAN /\ bstop \in BOOLEAN /\ faulted \in BOOLEAN)'
    BY <1>8, Zenon DEF PricePage, StateFault, IInv, TypeOK
  <2>2. TypeOK'
    BY <1>8, <2>1 DEF PricePage, StateFault, IInv, TypeOK, BundleIndexes, Phases, TopN
  <2>3. ReceiptChain' /\ TipsLast' /\ PrepareEmpty' /\ BundleIndexes'
    <3>1. ReceiptChain'
      BY <1>8, ReceiptChainFrame DEF PricePage, IInv
    <3>2. TipsLast' /\ PrepareEmpty' /\ BundleIndexes'
      BY <1>8 DEF PricePage, StateFault, IInv, TypeOK, TipsLast, PrepareEmpty, BundleIndexes
    <3>3. QED
      BY <3>1, <3>2
  <2>4. Conservation'
    BY <1>8 DEF PricePage, StateFault, IInv, Conservation
  <2>5. QED
    BY <2>2, <2>3, <2>4 DEF IInv
<1>9. CASE PriceRepage
  <2>1. (alive \in BOOLEAN /\ bstop \in BOOLEAN /\ faulted \in BOOLEAN)'
    BY <1>9, Zenon DEF PriceRepage, StateFault, IInv, TypeOK
  <2>2. TypeOK'
    BY <1>9, <2>1 DEF PriceRepage, StateFault, IInv, TypeOK, BundleIndexes, Phases
  <2>3. ReceiptChain' /\ TipsLast' /\ PrepareEmpty' /\ BundleIndexes'
    <3>1. ReceiptChain'
      BY <1>9, ReceiptChainFrame DEF PriceRepage, IInv
    <3>2. TipsLast' /\ PrepareEmpty' /\ BundleIndexes'
      BY <1>9 DEF PriceRepage, StateFault, IInv, TypeOK, TipsLast, PrepareEmpty, BundleIndexes
    <3>3. QED
      BY <3>1, <3>2
  <2>4. Conservation'
    BY <1>9 DEF PriceRepage, StateFault, IInv, Conservation
  <2>5. QED
    BY <2>2, <2>3, <2>4 DEF IInv
<1>10. CASE PriceFlush
  <2>1. (alive \in BOOLEAN /\ bstop \in BOOLEAN /\ faulted \in BOOLEAN)'
    BY <1>10, Zenon DEF PriceFlush, StateFault, IInv, TypeOK
  <2>2. TypeOK'
    BY <1>10, <2>1 DEF PriceFlush, StateFault, IInv, TypeOK, BundleIndexes, Phases
  <2>3. ReceiptChain' /\ TipsLast' /\ PrepareEmpty' /\ BundleIndexes'
    <3>1. ReceiptChain'
      BY <1>10, ReceiptChainFrame DEF PriceFlush, IInv
    <3>2. TipsLast' /\ PrepareEmpty' /\ BundleIndexes'
      BY <1>10 DEF PriceFlush, StateFault, IInv, TypeOK, TipsLast, PrepareEmpty, BundleIndexes
    <3>3. QED
      BY <3>1, <3>2
  <2>4. Conservation'
    BY <1>10 DEF PriceFlush, StateFault, IInv, Conservation
  <2>5. QED
    BY <2>2, <2>3, <2>4 DEF IInv
<1>11. CASE NoTipsRecipient
  <2>1. (alive \in BOOLEAN /\ bstop \in BOOLEAN /\ faulted \in BOOLEAN)'
    BY <1>11, Zenon DEF NoTipsRecipient, StateFault, IInv, TypeOK
  <2>2. TypeOK'
    BY <1>11, <2>1 DEF NoTipsRecipient, StateFault, IInv, TypeOK, BundleIndexes, Phases
  <2>3. ReceiptChain' /\ TipsLast' /\ PrepareEmpty' /\ BundleIndexes'
    <3>1. ReceiptChain'
      BY <1>11, ReceiptChainFrame DEF NoTipsRecipient, IInv
    <3>2. TipsLast' /\ PrepareEmpty' /\ BundleIndexes'
      BY <1>11 DEF NoTipsRecipient, StateFault, IInv, TypeOK, TipsLast, PrepareEmpty, BundleIndexes
    <3>3. QED
      BY <3>1, <3>2
  <2>4. Conservation'
    BY <1>11 DEF NoTipsRecipient, StateFault, IInv, Conservation
  <2>5. QED
    BY <2>2, <2>3, <2>4 DEF IInv
<1>12. CASE Finalize
  <2>1. (alive \in BOOLEAN /\ bstop \in BOOLEAN /\ faulted \in BOOLEAN)'
    BY <1>12, Zenon DEF Finalize, StateFault, IInv, TypeOK
  <2>2. TypeOK'
    BY <1>12, <2>1 DEF Finalize, StateFault, IInv, TypeOK, BundleIndexes, Phases
  <2>3. ReceiptChain' /\ TipsLast' /\ PrepareEmpty' /\ BundleIndexes'
    <3>1. ReceiptChain'
      BY <1>12, ReceiptChainFrame DEF Finalize, IInv
    <3>2. TipsLast' /\ PrepareEmpty' /\ BundleIndexes'
      BY <1>12 DEF Finalize, StateFault, IInv, TypeOK, TipsLast, PrepareEmpty, BundleIndexes
    <3>3. QED
      BY <3>1, <3>2
  <2>4. Conservation'
    BY <1>12 DEF Finalize, StateFault, IInv, Conservation
  <2>5. QED
    BY <2>2, <2>3, <2>4 DEF IInv
<1>13. CASE Timeout
  <2>1. (alive \in BOOLEAN /\ bstop \in BOOLEAN /\ faulted \in BOOLEAN)'
    BY <1>13, Zenon DEF Timeout, StateFault, IInv, TypeOK
  <2>2. TypeOK'
    BY <1>13, <2>1 DEF Timeout, StateFault, IInv, TypeOK, BundleIndexes, Phases
  <2>3. ReceiptChain' /\ TipsLast' /\ PrepareEmpty' /\ BundleIndexes'
    <3>1. ReceiptChain'
      BY <1>13, ReceiptChainFrame DEF Timeout, IInv
    <3>2. TipsLast' /\ PrepareEmpty' /\ BundleIndexes'
      BY <1>13 DEF Timeout, StateFault, IInv, TypeOK, TipsLast, PrepareEmpty, BundleIndexes
    <3>3. QED
      BY <3>1, <3>2
  <2>4. Conservation'
    BY <1>13 DEF Timeout, StateFault, IInv, Conservation
  <2>5. QED
    BY <2>2, <2>3, <2>4 DEF IInv
<1>99. QED
  BY <1>1, <1>2, <1>3, <1>4, <1>5, <1>6, <1>7, <1>8, <1>9, <1>10, <1>11, <1>12, <1>13

(* Every step of the round, and a stutter, keeps the inductive invariant. *)
LEMMA NextIInv == IInv /\ [Next]_vars => IInv'
<1> SUFFICES ASSUME IInv, [Next]_vars PROVE IInv'
  OBVIOUS
<1>1. CASE UNCHANGED vars
  BY <1>1 DEF vars, IInv, TypeOK, ReceiptChain, CumBefore, Conservation,
              TipsLast, PrepareEmpty, BundleIndexes
<1>2. QED
  BY <1>1, OtherStepsIInv, BundleTxIInv, RevertTxIInv, SeqTxIInv, PriceTxIInv,
     TipsIInv DEF Next, BuilderStep

(* The inductive invariant holds in every state of every round. *)
THEOREM IInvHolds == Spec => []IInv
BY InitIInv, NextIInv, PTL DEF Spec

(* Type correctness of a round: in particular the u64 gas pool of        *)
(* use_gas never wraps below zero and every receipt's gas is a natural.   *)
THEOREM TypeCorrect == Spec => []TypeOK
<1>1. IInv => TypeOK
  BY DEF IInv
<1>2. QED
  BY <1>1, IInvHolds, PTL

(* The gas accounting of use_gas, refund_gas (revert_txs_to) and         *)
(* fill_tips holds in every state: the receipts' cumulative gas chains,   *)
(* header.gas_used is the last one, and pool plus used gas is the budget. *)
THEOREM GasAccountingHolds == Spec => []GasAccounting
<1>1. IInv => GasAccounting
  BY DEF IInv, ReceiptChain, Conservation, GasAccounting
<1>2. QED
  BY <1>1, IInvHolds, PTL

====
