---------------------------- MODULE BlockBuilder ----------------------------
(***************************************************************************)
(* One build round of the block builder: BlockBuilder::build and the      *)
(* fill pipeline it runs (src/common/block_builder/src/block_builder.rs). *)
(*                                                                         *)
(*   prepare -> fill_bundles -> fill_seq -> fill_price (commit_pool)       *)
(*           -> NoTx check -> fill_tips -> finalize_and_assemble           *)
(*                                                                         *)
(* The world state the round works on (env.state, a fork of the trie      *)
(* store) is abstracted to what decides the outcome of a commit: the      *)
(* nonce of every account.  The EVM is external: when a transaction's     *)
(* nonce matches the state, its outcome is any of the outcomes allowed    *)
(* for it by the constant Outcomes, and the gas it uses is the intrinsic  *)
(* gas or its whole gas limit.  The deadline of the round (the Alive      *)
(* token) may expire at any time.                                         *)
(***************************************************************************)
EXTENDS Integers, Sequences, FiniteSets

CONSTANTS
    Accounts,         \* senders
    Txs,              \* pool transactions; integers, so < is the hash order
    TipsTx,           \* the tips transfer fill_tips signs (not in Txs)
    Payer,            \* cfg.payer: coinbase and sender of the tips transfer
    Caller,           \* Caller[t]: recovered sender of t
    Nonce,            \* Nonce[t]: the nonce t carries
    GasLimitOf,       \* GasLimitOf[t]: tx.gas_limit()
    Fee,              \* Fee[t]: effective_gas_tip at the header's base fee
    TipOK,            \* txs whose effective_gas_tip is defined at the base fee
    AllowRevert,      \* bundle txs listed in reverting_tx_hashes
    Outcomes,         \* Outcomes[t]: what the EVM may do with t at its nonce
    TipsOutcomes,     \* what the EVM may do with the tips transfer
    InitNonce,        \* account nonces in the parent state
    BundleList,       \* BundlePool::list(number, timestamp) for this header
    SeqList,          \* SeqPool::list_by_seq()
    PricePending,     \* PricePool pending: per account a nonce-keyed map
    GasLimit,         \* header.gas_limit
    TX_GAS_RESERVE,   \* fill_transactions' TX_GAS (32000)
    TX_GAS_INTRINSIC, \* commit_transaction's TX_GAS (21000)
    PageLimit         \* commit_pool's limit (20)

ExecOutcomes == {"succ", "revert", "fail", "unsupported", "stateErr"}

(* The transactions and what the EVM may do with them. *)
ASSUME TxAssumption ==
    /\ Txs \subseteq Nat /\ TipsTx \notin Txs
    /\ Payer \in Accounts
    /\ Caller \in [Txs -> Accounts \ {Payer}]
    /\ Nonce \in [Txs -> Nat]
    /\ Fee \in [Txs -> Nat]
    /\ TipOK \subseteq Txs /\ AllowRevert \subseteq Txs
    /\ Outcomes \in [Txs -> SUBSET ExecOutcomes]
    /\ TipsOutcomes \subseteq ExecOutcomes \ {"unsupported"}

(* The parent state and the pool lists the round reads. *)
ASSUME PoolAssumption ==
    /\ InitNonce \in [Accounts -> Nat]
    /\ BundleList \in Seq(Seq(Txs) \ {<<>>})
    /\ SeqList \in Seq(Txs)
    /\ PricePending \in [Accounts -> SUBSET Txs]

(* The gas constants: the header's limit leaves room for the tips         *)
(* transfer, and every tx needs at least the intrinsic gas.               *)
ASSUME GasAssumption ==
    /\ TX_GAS_INTRINSIC \in Nat \ {0}
    /\ TX_GAS_RESERVE \in Nat /\ TX_GAS_RESERVE > TX_GAS_INTRINSIC
    /\ GasLimit \in Nat /\ GasLimit >= TX_GAS_RESERVE
    /\ GasLimitOf \in [Txs -> TX_GAS_INTRINSIC..GasLimit]
    /\ PageLimit \in Nat \ {0}

VARIABLES
    pc,           \* where the builder thread is in the pipeline
    alive,        \* the round's Alive token (deadline not passed)
    nonce,        \* env.state, abstracted to account nonces
    snapshot,     \* fill_bundles' `state`: state root before the bundle
    txs,          \* env.txs
    receipts,     \* env.receipts: gas used, cumulative gas used, status
    gasPool,      \* env.gas_pool (u64)
    gasUsed,      \* env.header.gas_used
    checked,      \* env.checked_txs: "absent", "valid" (true), "invalid" (false)
    bi,           \* fill_bundles: index of the current bundle
    ti,           \* fill_bundles: index of the current tx in the bundle
    bstart,       \* fill_bundles: start_tcount
    bstop,        \* fill_bundles: `stop` of the failed tx
    bundleResult, \* fill_bundles' bundle_result, by bundle index
    si,           \* fill_seq: index in internal_list
    seqMarked,    \* SeqPool::mark_fail calls of this round
    seqRemoved,   \* SeqPool::remove calls of this round
    heads,        \* TransactionsByPriceAndNonce.heads
    rest,         \* TransactionsByPriceAndNonce.txs (per account, by nonce)
    page,         \* commit_pool's tx_list (the current page)
    priceRemoved, \* PricePool::remove calls of this round
    err,          \* the BuildError the round returned, or "none"
    faulted       \* history: a state-layer error has occurred in this round

vars == <<pc, alive, nonce, snapshot, txs, receipts, gasPool, gasUsed,
          checked, bi, ti, bstart, bstop, bundleResult, si, seqMarked,
          seqRemoved, heads, rest, page, priceRemoved, err, faulted>>

-----------------------------------------------------------------------------
(* Helpers *)

TxIds == Txs \cup {TipsTx}

TxCaller(t) == IF t = TipsTx THEN Payer ELSE Caller[t]

Range(s) == {s[i] : i \in DOMAIN s}

Budget == GasLimit - TX_GAS_RESERVE

(* The gas an executed transaction may use: intrinsic gas up to its limit. *)
GasChoices(limit) == {TX_GAS_INTRINSIC, limit}

(* Order of TxWithMinerFee in the heads map: fee, then hash.  The map     *)
(* holds Reverse(..) and pops the first entry, i.e. the best one.         *)
Better(t, u) == Fee[t] > Fee[u] \/ (Fee[t] = Fee[u] /\ t > u)

Best(S) == {t \in S : \A u \in S \ {t} : Better(t, u)}

(* TransactionsByPriceAndNonce::peekn: the first n entries of heads. *)
TopN(S, n) == {t \in S : Cardinality({u \in S : Better(u, t)}) < n}

(* The entries of a nonce-keyed set with the smallest nonce. *)
Lowest(S) == {t \in S : \A u \in S : Nonce[t] <= Nonce[u]}

(***************************************************************************)
(* SortedMap::flatten: walk the account's map in nonce order; skip the    *)
(* leading entries already judged valid in checked_txs, give up at one    *)
(* judged invalid; from the first unjudged entry take the longest run of  *)
(* consecutive nonces whose tip is defined.  The first entry after the    *)
(* run whose tip is undefined is recorded as invalid in checked_txs.      *)
(***************************************************************************)
FirstUnjudged(P, chk) ==
    {c \in P : /\ chk[c] # "valid"
               /\ \A u \in P : Nonce[u] < Nonce[c] => chk[u] = "valid"}

Run(P, chk) ==
    {t \in P : \E c \in FirstUnjudged(P, chk) :
                  /\ chk[c] = "absent"
                  /\ Nonce[c] <= Nonce[t]
                  /\ \A n \in Nonce[c]..Nonce[t] :
                        \E u \in P \cap TipOK : Nonce[u] = n}

Dropped(P, chk) ==
    {d \in P \ TipOK :
        \E c \in FirstUnjudged(P, chk) :
            /\ chk[c] = "absent"
            /\ Nonce[c] <= Nonce[d]
            /\ \A u \in P : Nonce[c] <= Nonce[u] /\ Nonce[u] < Nonce[d]
                               => u \in Run(P, chk)}

(* checked_txs is consulted through the pool lists; Mark records a verdict. *)
Mark(chk, S, v) == [t \in Txs |-> IF t \in S THEN v ELSE chk[t]]


-----------------------------------------------------------------------------
(* commit_transaction *)

(***************************************************************************)
(* The results commit_transaction may return for t when the gas pool     *)
(* holds `pool`, in the order of its early returns: Stop when the pool    *)
(* cannot hold another transaction, Pop when it cannot hold t's gas       *)
(* limit, Stop when the round is no longer alive, MarkFail when the tip   *)
(* is undefined at the base fee; then Executor::apply: NonceTooLow and   *)
(* NotSupported give RemoveTx, NonceTooHigh and the other execution       *)
(* errors MarkFail, a state error Err.  Success carries the receipt's     *)
(* status, written here as "Success" or "Reverted".                      *)
(***************************************************************************)
ExecResult(o) ==
    CASE o = "succ"        -> "Success"
      [] o = "revert"      -> "Reverted"
      [] o = "fail"        -> "MarkFail"
      [] o = "unsupported" -> "RemoveTx"
      [] o = "stateErr"    -> "Err"

(* Mutant: the gas-limit guard (`gas_pool < tx.gas_limit()`) dropped. *)
CommitResultsNoPop(t, pool, isAlive, outcomes, limit) ==
    CASE pool <= TX_GAS_INTRINSIC                     -> {"Stop"}
      [] ~isAlive                                     -> {"Stop"}
      [] t \in Txs /\ t \notin TipOK                  -> {"MarkFail"}
      [] t \in Txs /\ Nonce[t] < nonce[TxCaller(t)]   -> {"RemoveTx"}
      [] t \in Txs /\ Nonce[t] > nonce[TxCaller(t)]   -> {"MarkFail"}
      [] OTHER                                        -> {ExecResult(o) : o \in outcomes}

CommitResults(t, pool, isAlive, outcomes, limit) ==
    CASE pool <= TX_GAS_INTRINSIC                     -> {"Stop"}
      [] pool < limit                                 -> {"Pop"}
      [] ~isAlive                                     -> {"Stop"}
      [] t \in Txs /\ t \notin TipOK                  -> {"MarkFail"}
      [] t \in Txs /\ Nonce[t] < nonce[TxCaller(t)]   -> {"RemoveTx"}
      [] t \in Txs /\ Nonce[t] > nonce[TxCaller(t)]   -> {"MarkFail"}
      [] OTHER                                        -> {ExecResult(o) : o \in outcomes}

Results == {"Success", "Reverted", "Pop", "MarkFail", "RemoveTx", "Stop", "Err"}

Executed(res) == res \in {"Success", "Reverted"}

(***************************************************************************)
(* What commit_transaction writes besides the state: checked_txs gets    *)
(* false on entry and true on success or RemoveTx; an executed tx and its *)
(* receipt are appended, and use_gas takes its gas from the pool and adds *)
(* it to header.gas_used.  Executor::apply sets the receipt's            *)
(* cumulative_gas_used from header.gas_used before use_gas adds to it.    *)
(***************************************************************************)
CommitLog(t, res, g, pool) ==
    /\ checked' = IF t = TipsTx THEN checked
                  ELSE [checked EXCEPT ![t] =
                          IF Executed(res) \/ res = "RemoveTx"
                          THEN "valid" ELSE "invalid"]
    /\ IF Executed(res)
          THEN /\ txs' = Append(txs, t)
               /\ receipts' = Append(receipts, [gas |-> g, cum |-> gasUsed + g,
                                                succ |-> res = "Success"])
               /\ gasPool' = pool - g
               /\ gasUsed' = gasUsed + g
          ELSE /\ gasPool' = pool
               /\ UNCHANGED <<txs, receipts, gasUsed>>

(* Executor::apply advances the sender's nonce, a reverted receipt too. *)
CommitState(t, res) ==
    nonce' = IF Executed(res) THEN [nonce EXCEPT ![TxCaller(t)] = @ + 1] ELSE nonce

(* Mutant: the state is not reverted, the failed bundle's commits stay. *)
RevertStateMissed(t, res) == CommitState(t, res)

(* fill_bundles' env.state.revert(state) back to the bundle's state root. *)
RevertState(t, res) == nonce' = snapshot

(* A commit of pool tx t under the round's Alive token that used g gas. *)
TryCommit(t, res, g) ==
    /\ res \in CommitResults(t, gasPool, alive, Outcomes[t], GasLimitOf[t])
    /\ CommitLog(t, res, g, gasPool)

(* A state-layer error (prefetch, flush, a balance read) ends the round. *)
StateFault ==
    /\ pc' = "failed" /\ err' = "StateError" /\ faulted' = TRUE

-----------------------------------------------------------------------------
Init ==
    /\ pc = "prepare"
    /\ alive = TRUE
    /\ nonce = InitNonce
    /\ snapshot = InitNonce
    /\ txs = <<>>
    /\ receipts = <<>>
    /\ gasPool = 0
    /\ gasUsed = 0
    /\ checked = [t \in Txs |-> "absent"]
    /\ bi = 1 /\ ti = 1 /\ bstart = 0 /\ bstop = FALSE
    /\ bundleResult = [j \in 1..Len(BundleList) |-> "none"]
    /\ si = 1 /\ seqMarked = {} /\ seqRemoved = {}
    /\ heads = {} /\ rest = [a \in Accounts |-> {}] /\ page = {}
    /\ priceRemoved = {}
    /\ err = "none"
    /\ faulted = FALSE

(* fill_transactions: the gas pool keeps TX_GAS for the tips transfer;   *)
(* prefetch_basic_info and the miner balance read may fail.               *)
Prepare ==
    /\ pc = "prepare"
    /\ gasPool' = Budget
    /\ \/ /\ pc' = "bundle"
          /\ UNCHANGED <<err, faulted>>
       \/ StateFault
    /\ UNCHANGED <<alive, nonce, snapshot, txs, receipts, gasUsed, checked,
                   bi, ti, bstart, bstop, bundleResult, si, seqMarked,
                   seqRemoved, heads, rest, page, priceRemoved>>

-----------------------------------------------------------------------------
(* fill_bundles *)

(* Head of the 'next_bundle loop: leave when out of bundles or not alive; *)
(* else prefetch the bundle and take the state root and start_tcount.     *)
BundleNext ==
    /\ pc = "bundle"
    /\ \/ /\ bi > Len(BundleList) \/ ~alive
          /\ pc' = "seq"
          /\ UNCHANGED <<snapshot, bstart, ti, err, faulted>>
       \/ /\ bi <= Len(BundleList) /\ alive
          /\ \/ /\ pc' = "bundleTx"
                /\ snapshot' = nonce
                /\ bstart' = Len(txs)
                /\ ti' = 1
                /\ UNCHANGED <<err, faulted>>
             \/ /\ StateFault
                /\ UNCHANGED <<snapshot, bstart, ti>>
    /\ UNCHANGED <<alive, nonce, txs, receipts, gasPool, gasUsed, checked,
                   bi, bstop, bundleResult, si, seqMarked, seqRemoved,
                   heads, rest, page, priceRemoved>>

(***************************************************************************)
(* One iteration of the bundle's tx loop (the coinbase balance read may   *)
(* fail first).  A success, or a reverted receipt the bundle allows,      *)
(* moves on; a state error returns from build; any other result reverts  *)
(* the state to the bundle's state root and starts revert_txs_to.         *)
(***************************************************************************)
BundleTx ==
    /\ pc = "bundleTx"
    /\ LET b == BundleList[bi]
           t == b[ti]
       IN \/ /\ StateFault
             /\ UNCHANGED <<nonce, txs, receipts, gasPool, gasUsed, checked, ti, bstop>>
          \/ \E res \in Results, g \in GasChoices(GasLimitOf[t]) :
               /\ TryCommit(t, res, g)
               /\ \/ /\ res = "Success" \/ (res = "Reverted" /\ t \in AllowRevert)
                     /\ CommitState(t, res)
                     /\ ti' = ti + 1
                     /\ pc' = IF ti = Len(b) THEN "bundleFlush" ELSE "bundleTx"
                     /\ UNCHANGED <<bstop, err, faulted>>
                  \/ /\ res = "Err"
                     /\ StateFault
                     /\ UNCHANGED <<nonce, ti, bstop>>
                  \/ /\ res \notin {"Success", "Err"}
                     /\ ~(res = "Reverted" /\ t \in AllowRevert)
                     /\ RevertState(t, res)
                     /\ pc' = "bundleRevert"
                     /\ bstop' = (res = "Stop")
                     /\ UNCHANGED <<ti, err, faulted>>
    /\ UNCHANGED <<alive, snapshot, bi, bstart, bundleResult, si, seqMarked,
                   seqRemoved, heads, rest, page, priceRemoved>>

(* Mutant: refund_gas gives the gas back to the pool only. *)
RevertTxPoolOnly ==
    /\ pc = "bundleRevert"
    /\ Len(txs) > bstart
    /\ LET t == txs[Len(txs)]
           g == receipts[Len(receipts)].gas
       IN /\ txs' = SubSeq(txs, 1, Len(txs) - 1)
          /\ receipts' = SubSeq(receipts, 1, Len(receipts) - 1)
          /\ checked' = IF t = TipsTx THEN checked ELSE [checked EXCEPT ![t] = "absent"]
          /\ gasPool' = gasPool + g
          /\ UNCHANGED gasUsed
    /\ UNCHANGED <<pc, alive, nonce, snapshot, bi, ti, bstart, bstop,
                   bundleResult, si, seqMarked, seqRemoved, heads, rest,
                   page, priceRemoved, err, faulted>>

(* One iteration of revert_txs_to: pop the last tx and its receipt,     *)
(* remove the tx from checked_txs and refund_gas its gas.                 *)
RevertTx ==
    /\ pc = "bundleRevert"
    /\ Len(txs) > bstart
    /\ LET t == txs[Len(txs)]
           g == receipts[Len(receipts)].gas
       IN /\ txs' = SubSeq(txs, 1, Len(txs) - 1)
          /\ receipts' = SubSeq(receipts, 1, Len(receipts) - 1)
          /\ checked' = IF t = TipsTx THEN checked ELSE [checked EXCEPT ![t] = "absent"]
          /\ gasPool' = gasPool + g
          /\ gasUsed' = gasUsed - g
    /\ UNCHANGED <<pc, alive, nonce, snapshot, bi, ti, bstart, bstop,
                   bundleResult, si, seqMarked, seqRemoved, heads, rest,
                   page, priceRemoved, err, faulted>>

(* Mutant: revert_txs_to(env, start_tcount + 1), one tx left behind. *)
BundleRevertedEarly ==
    /\ pc = "bundleRevert"
    /\ Len(txs) <= bstart + 1
    /\ bundleResult' = [bundleResult EXCEPT ![bi] = "reverted"]
    /\ bi' = bi + 1
    /\ pc' = IF bstop THEN "seq" ELSE "bundle"
    /\ UNCHANGED <<alive, nonce, snapshot, txs, receipts, gasPool, gasUsed,
                   checked, ti, bstart, bstop, si, seqMarked, seqRemoved,
                   heads, rest, page, priceRemoved, err, faulted>>

(* After revert_txs_to: record "reverted in tx", then leave the loop on  *)
(* Stop or go on with the next bundle.                                    *)
BundleReverted ==
    /\ pc = "bundleRevert"
    /\ Len(txs) <= bstart
    /\ bundleResult' = [bundleResult EXCEPT ![bi] = "reverted"]
    /\ bi' = bi + 1
    /\ pc' = IF bstop THEN "seq" ELSE "bundle"
    /\ UNCHANGED <<alive, nonce, snapshot, txs, receipts, gasPool, gasUsed,
                   checked, ti, bstart, bstop, si, seqMarked, seqRemoved,
                   heads, rest, page, priceRemoved, err, faulted>>

(* Every tx of the bundle went in: flush the state, record "submitted". *)
BundleFlush ==
    /\ pc = "bundleFlush"
    /\ \/ /\ bundleResult' = [bundleResult EXCEPT ![bi] = "submitted"]
          /\ bi' = bi + 1
          /\ pc' = "bundle"
          /\ UNCHANGED <<err, faulted>>
       \/ /\ StateFault
          /\ UNCHANGED <<bundleResult, bi>>
    /\ UNCHANGED <<alive, nonce, snapshot, txs, receipts, gasPool, gasUsed,
                   checked, ti, bstart, bstop, si, seqMarked, seqRemoved,
                   heads, rest, page, priceRemoved>>

-----------------------------------------------------------------------------
(* fill_seq *)

(* fill_seq prefetches the access lists of list_by_seq(). *)
SeqPrefetch ==
    /\ pc = "seq"
    /\ \/ /\ pc' = "seqTx"
          /\ UNCHANGED <<err, faulted>>
       \/ StateFault
    /\ UNCHANGED <<alive, nonce, snapshot, txs, receipts, gasPool, gasUsed,
                   checked, bi, ti, bstart, bstop, bundleResult, si,
                   seqMarked, seqRemoved, heads, rest, page, priceRemoved>>

(***************************************************************************)
(* One iteration of fill_seq: MarkFail calls SeqPool::mark_fail, RemoveTx *)
(* SeqPool::remove, Stop leaves the loop, Pop is ignored, and a state     *)
(* error returns from build.                                              *)
(***************************************************************************)
SeqTx ==
    /\ pc = "seqTx"
    /\ si <= Len(SeqList)
    /\ LET t == SeqList[si] IN
       \E res \in Results, g \in GasChoices(GasLimitOf[t]) :
            /\ TryCommit(t, res, g)
            /\ CommitState(t, res)
            /\ seqMarked' = IF res = "MarkFail" THEN seqMarked \cup {t} ELSE seqMarked
            /\ seqRemoved' = IF res = "RemoveTx" THEN seqRemoved \cup {t} ELSE seqRemoved
            /\ si' = si + 1
            /\ \/ /\ res \notin {"Stop", "Err"}
                  /\ pc' = "seqTx"
                  /\ UNCHANGED <<err, faulted>>
               \/ /\ res = "Stop"
                  /\ pc' = "price"
                  /\ UNCHANGED <<err, faulted>>
               \/ /\ res = "Err"
                  /\ StateFault
    /\ UNCHANGED <<alive, snapshot, bi, ti, bstart, bstop, bundleResult,
                   heads, rest, page, priceRemoved>>

(* The end of internal_list. *)
SeqDone ==
    /\ pc = "seqTx"
    /\ si > Len(SeqList)
    /\ pc' = "price"
    /\ UNCHANGED <<alive, nonce, snapshot, txs, receipts, gasPool, gasUsed,
                   checked, bi, ti, bstart, bstop, bundleResult, si,
                   seqMarked, seqRemoved, heads, rest, page, priceRemoved,
                   err, faulted>>

-----------------------------------------------------------------------------
(* fill_price: commit_pool with PricePoolCommitFlow *)

(***************************************************************************)
(* on_fetch_pool_list: PricePool::list flattens every account against     *)
(* checked_txs, recording each dropped tx as false there, and             *)
(* TransactionsByPriceAndNonce::new makes each account's lowest-nonce tx  *)
(* a head and keeps the others behind it.                                 *)
(***************************************************************************)
FetchPriceList ==
    /\ pc = "price"
    /\ LET run(a) == Run(PricePending[a], checked)
       IN /\ heads' = UNION {Lowest(run(a)) : a \in Accounts}
          /\ rest' = [a \in Accounts |-> run(a) \ Lowest(run(a))]
          /\ checked' = Mark(checked,
                             UNION {Dropped(PricePending[a], checked) : a \in Accounts},
                             "invalid")
    /\ pc' = "pricePage"
    /\ UNCHANGED <<alive, nonce, snapshot, txs, receipts, gasPool, gasUsed,
                   bi, ti, bstart, bstop, bundleResult, si, seqMarked,
                   seqRemoved, page, priceRemoved, err, faulted>>

(* Head of 'nextPage: leave when not alive or peekn is empty; else take  *)
(* the page and prefetch senders, nonces and access lists (may fail).    *)
PricePage ==
    /\ pc = "pricePage"
    /\ \/ /\ ~alive \/ heads = {}
          /\ pc' = "priceFlush"
          /\ UNCHANGED <<page, err, faulted>>
       \/ /\ alive /\ heads # {}
          /\ \/ /\ pc' = "priceTx" /\ page' = TopN(heads, PageLimit)
                /\ UNCHANGED <<err, faulted>>
             \/ /\ StateFault
                /\ UNCHANGED page
    /\ UNCHANGED <<alive, nonce, snapshot, txs, receipts, gasPool, gasUsed,
                   checked, bi, ti, bstart, bstop, bundleResult, si,
                   seqMarked, seqRemoved, heads, rest, priceRemoved>>

(* Mutant: shift pushes the next tx without popping the head. *)
ShiftKeepsHead(t) ==
    LET next == Lowest(rest[Caller[t]])
    IN /\ heads' = heads \cup next
       /\ rest' = [rest EXCEPT ![Caller[t]] = @ \ next]

(* TransactionsByPriceAndNonce::shift: the sender's next tx, if any,     *)
(* replaces the head.  pop drops the head only: the sender's later txs   *)
(* stay in `rest` and never become heads.                                 *)
Shift(t) ==
    LET next == Lowest(rest[Caller[t]])
    IN /\ heads' = (heads \ {t}) \cup next
       /\ rest' = [rest EXCEPT ![Caller[t]] = @ \ next]

Pop(t) == heads' = heads \ {t} /\ UNCHANGED rest

(* peek gives nothing, or a head outside the page: back to 'nextPage. *)
PriceRepage ==
    /\ pc = "priceTx"
    /\ Best(heads) \cap page = {}
    /\ pc' = "pricePage"
    /\ UNCHANGED <<alive, nonce, snapshot, txs, receipts, gasPool, gasUsed,
                   checked, bi, ti, bstart, bstop, bundleResult, si,
                   seqMarked, seqRemoved, heads, rest, page, priceRemoved,
                   err, faulted>>

(***************************************************************************)
(* One iteration of commit_pool's inner loop on the peeked head: Success  *)
(* shifts, Pop and MarkFail pop, RemoveTx removes the tx from the         *)
(* PricePool and shifts, Stop pops and leaves; a state error is logged    *)
(* and leaves the loop, and the round goes on.                            *)
(***************************************************************************)
PriceTx ==
    /\ pc = "priceTx"
    /\ \E t \in Best(heads) \cap page :
       \E res \in Results, g \in GasChoices(GasLimitOf[t]) :
            /\ TryCommit(t, res, g)
            /\ CommitState(t, res)
            /\ \/ /\ Executed(res) /\ Shift(t)
                  /\ pc' = "priceTx" /\ UNCHANGED <<priceRemoved, faulted>>
               \/ /\ res \in {"Pop", "MarkFail"} /\ Pop(t)
                  /\ pc' = "priceTx" /\ UNCHANGED <<priceRemoved, faulted>>
               \/ /\ res = "RemoveTx" /\ Shift(t)
                  /\ priceRemoved' = priceRemoved \cup {t}
                  /\ pc' = "priceTx" /\ UNCHANGED faulted
               \/ /\ res = "Stop" /\ Pop(t)
                  /\ pc' = "priceFlush" /\ UNCHANGED <<priceRemoved, faulted>>
               \/ /\ res = "Err"
                  /\ pc' = "priceFlush" /\ faulted' = TRUE
                  /\ UNCHANGED <<heads, rest, priceRemoved>>
    /\ UNCHANGED <<alive, snapshot, bi, ti, bstart, bstop, bundleResult, si,
                   seqMarked, seqRemoved, page, err>>

(* commit_pool flushes the state; fill_transactions then returns NoTx    *)
(* when env.txs is empty.                                                 *)
PriceFlush ==
    /\ pc = "priceFlush"
    /\ \/ /\ pc' = IF Len(txs) = 0 THEN "failed" ELSE "tips"
          /\ err' = IF Len(txs) = 0 THEN "NoTx" ELSE err
          /\ UNCHANGED faulted
       \/ StateFault
    /\ UNCHANGED <<alive, nonce, snapshot, txs, receipts, gasPool, gasUsed,
                   checked, bi, ti, bstart, bstop, bundleResult, si,
                   seqMarked, seqRemoved, heads, rest, page, priceRemoved>>

-----------------------------------------------------------------------------
(* fill_tips and finalize_and_assemble *)

(* fill_tips without a tips recipient returns a profit of 0. *)
NoTipsRecipient ==
    /\ pc = "tips"
    /\ pc' = "finalize"
    /\ UNCHANGED <<alive, nonce, snapshot, txs, receipts, gasPool, gasUsed,
                   checked, bi, ti, bstart, bstop, bundleResult, si,
                   seqMarked, seqRemoved, heads, rest, page, priceRemoved,
                   err, faulted>>

(***************************************************************************)
(* fill_tips with a recipient: calculate_profit and get_code may fail on  *)
(* the state; the amount TipsStrategy gives may not cover the transfer's  *)
(* fee (FeeTooLow).  Otherwise TX_GAS goes back to the gas pool and the   *)
(* transfer (21000 gas to an account without code, 32000 to a contract)  *)
(* is committed under a fresh Alive; a result other than a successful     *)
(* receipt fails the round with SendTipsFail.                             *)
(***************************************************************************)
Tips ==
    /\ pc = "tips"
    /\ \/ /\ StateFault
          /\ UNCHANGED <<nonce, txs, receipts, gasPool, gasUsed>>
       \/ /\ pc' = "failed" /\ err' = "FeeTooLow"
          /\ UNCHANGED <<nonce, txs, receipts, gasPool, gasUsed, faulted>>
       \/ \E txGas \in {TX_GAS_INTRINSIC, TX_GAS_RESERVE} :
          LET pool == gasPool + TX_GAS_RESERVE IN
          \E res \in CommitResults(TipsTx, pool, TRUE, TipsOutcomes, txGas),
             g \in GasChoices(txGas) :
            /\ CommitLog(TipsTx, res, g, pool)
            /\ CommitState(TipsTx, res)
            /\ CASE res = "Success" -> pc' = "finalize" /\ UNCHANGED <<err, faulted>>
                 [] res = "Err"     -> StateFault
                 [] OTHER           -> /\ pc' = "failed" /\ err' = "SendTipsFail"
                                       /\ UNCHANGED faulted
    /\ UNCHANGED <<alive, snapshot, checked, bi, ti, bstart, bstop,
                   bundleResult, si, seqMarked, seqRemoved, heads, rest,
                   page, priceRemoved>>

(* finalize_and_assemble credits the withdrawals and flushes the state  *)
(* root; both, and build's last balance read, may fail on the state.     *)
Finalize ==
    /\ pc = "finalize"
    /\ \/ /\ pc' = "done"
          /\ UNCHANGED <<err, faulted>>
       \/ StateFault
    /\ UNCHANGED <<alive, nonce, snapshot, txs, receipts, gasPool, gasUsed,
                   checked, bi, ti, bstart, bstop, bundleResult, si,
                   seqMarked, seqRemoved, heads, rest, page, priceRemoved>>

(* The deadline of the round's Alive passes (BuildService forks it with  *)
(* the slot's submit deadline); nothing forces it to.                    *)
Timeout ==
    /\ alive
    /\ pc \notin {"done", "failed"}
    /\ alive' = FALSE
    /\ UNCHANGED <<pc, nonce, snapshot, txs, receipts, gasPool, gasUsed,
                   checked, bi, ti, bstart, bstop, bundleResult, si,
                   seqMarked, seqRemoved, heads, rest, page, priceRemoved,
                   err, faulted>>

-----------------------------------------------------------------------------
(* The builder thread's steps, one per loop iteration of the pipeline. *)
BuilderStep ==
    \/ Prepare
    \/ BundleNext \/ BundleTx \/ RevertTx \/ BundleReverted \/ BundleFlush
    \/ SeqPrefetch \/ SeqTx \/ SeqDone
    \/ FetchPriceList \/ PricePage \/ PriceRepage \/ PriceTx \/ PriceFlush
    \/ NoTipsRecipient \/ Tips \/ Finalize

Next == BuilderStep \/ Timeout

(* The builder thread runs the round to its end: weak fairness on its     *)
(* steps.  The deadline is an environment event and gets none.            *)
Spec == Init /\ [][Next]_vars /\ WF_vars(BuilderStep)

-----------------------------------------------------------------------------
(* Properties *)

Phases == {"prepare", "bundle", "bundleTx", "bundleRevert", "bundleFlush",
           "seq", "seqTx", "price", "pricePage", "priceTx", "priceFlush",
           "tips", "finalize", "done", "failed"}

(* Type invariant; gasPool \in Nat says the u64 gas pool never wraps. *)
TypeOK ==
    /\ pc \in Phases
    /\ alive \in BOOLEAN
    /\ nonce \in [Accounts -> Nat] /\ snapshot \in [Accounts -> Nat]
    /\ txs \in Seq(TxIds)
    /\ receipts \in Seq([gas : Nat, cum : Nat, succ : BOOLEAN])
    /\ Len(receipts) = Len(txs)
    /\ gasPool \in Nat /\ gasUsed \in Nat
    /\ checked \in [Txs -> {"absent", "valid", "invalid"}]
    /\ bi \in 1..(Len(BundleList) + 1) /\ ti \in Nat \ {0}
    /\ bstart \in Nat /\ bstop \in BOOLEAN
    /\ bundleResult \in [1..Len(BundleList) -> {"none", "submitted", "reverted"}]
    /\ si \in Nat \ {0}
    /\ seqMarked \subseteq Txs /\ seqRemoved \subseteq Txs
    /\ heads \subseteq Txs /\ rest \in [Accounts -> SUBSET Txs]
    /\ page \subseteq Txs /\ priceRemoved \subseteq Txs
    /\ err \in {"none", "StateError", "NoTx", "FeeTooLow", "SendTipsFail"}
    /\ faulted \in BOOLEAN

(* cumulative_gas_used of the receipt before the i-th (0 for the first). *)
CumBefore(i) == IF i = 1 THEN 0 ELSE receipts[i - 1].cum

(***************************************************************************)
(* Gas accounting across use_gas, refund_gas and fill_tips: the receipts' *)
(* cumulative_gas_used add up their gas_used, header.gas_used is the last *)
(* one, even after revert_txs_to has popped a bundle, and with the gas    *)
(* pool it makes up the round's budget, gas_limit - TX_GAS, plus the      *)
(* TX_GAS fill_tips hands back once the tips transfer is in the block.    *)
(* With gasPool \in Nat this bounds the block's gas by the header's limit.*)
(***************************************************************************)
GasAccounting ==
    /\ \A i \in 1..Len(receipts) : receipts[i].cum = CumBefore(i) + receipts[i].gas
    /\ gasUsed = CumBefore(Len(receipts) + 1)
    /\ pc \notin {"prepare", "failed"} =>
          gasPool + gasUsed =
             Budget + (IF TipsTx \in Range(txs) THEN TX_GAS_RESERVE ELSE 0)

(* How many of the first k txs of the block account a sent. *)
SentBy(a, k) == Cardinality({j \in 1..k : TxCaller(txs[j]) = a})

(***************************************************************************)
(* The block is valid nonce by nonce and the state agrees with it: every  *)
(* pool tx in env.txs carries its sender's parent nonce plus the number   *)
(* of the sender's txs before it, and env.state's nonces count the txs   *)
(* in the block, once fill_bundles' state.revert has dropped a failed     *)
(* bundle (while revert_txs_to pops it, only its prefix counts).          *)
(***************************************************************************)
NonceAccounting ==
    /\ \A i \in 1..Len(txs) :
          txs[i] \in Txs => Nonce[txs[i]] = InitNonce[Caller[txs[i]]] + SentBy(Caller[txs[i]], i - 1)
    /\ LET k == IF pc = "bundleRevert" THEN bstart ELSE Len(txs)
       IN  \A a \in Accounts : nonce[a] = InitNonce[a] + SentBy(a, k)

(* Txs that reach the price pool too, where a reverted bundle may leave them. *)
PriceTxs == UNION {PricePending[a] : a \in Accounts}

(***************************************************************************)
(* Bundles are atomic (fill_bundles with revert_txs_to): a bundle         *)
(* recorded "submitted" sits in the block whole, contiguous and in order; *)
(* a bundle recorded "reverted" has left none of its txs in the block,    *)
(* except txs the price pool also offers, which it may commit later.      *)
(***************************************************************************)
BundleAtomic ==
    \A j \in DOMAIN bundleResult :
        LET b == BundleList[j] IN
        /\ bundleResult[j] = "submitted" =>
              \E k \in 0..(Len(txs) - Len(b)) :
                  \A m \in 1..Len(b) : txs[k + m] = b[m]
        /\ bundleResult[j] = "reverted" =>
              \A t \in Range(b) \ PriceTxs : t \notin Range(txs)

(***************************************************************************)
(* Spec section 4.4: a state-store error during a commit is fatal for the *)
(* round.  Once one has happened, the round ends failed with StateError.  *)
(***************************************************************************)
StateErrorsAreFatal ==
    faulted => (pc = "failed" /\ err = "StateError")

(* Every round ends, with a block or with a BuildError, whether or not   *)
(* the deadline passes: each loop of the pipeline makes progress.         *)
RoundTerminates == <>(pc \in {"done", "failed"})

====
