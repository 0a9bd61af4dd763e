------------------------------ MODULE PricePool ------------------------------
(***************************************************************************)
(* The price pool (src/common/txpool/src/price_pool.rs): per sender a     *)
(* nonce-keyed UserTxList (SortedMap, at most TXPOOL_USER_MAX_SIZE txs),  *)
(* and the map `caches` from hash to tx that contains() and push's        *)
(* AlreadyKnowned check read.  The collect-tx thread pushes, build rounds  *)
(* list and remove; every operation holds both locks (caches, then        *)
(* pending) for its whole length, so each is one atomic step.             *)
(*                                                                         *)
(* A tx is a model value with its sender, nonce, max_fee_per_gas and      *)
(* max_priority_fee_per_gas; effective_gas_tip(base_fee) is defined iff   *)
(* max_fee_per_gas >= base_fee.  The `filter` list() reads is the build   *)
(* round's checked_txs, taken from a small set of inputs.                 *)
(***************************************************************************)
EXTENDS Integers, Sequences, FiniteSets

CONSTANTS
    AccountOrder,   \* the senders in BTreeMap (address) order
    Txs,            \* tx hashes
    Caller,         \* Caller[t]: signer.sender(t)
    Nonce,          \* Nonce[t]
    MaxFee,         \* MaxFee[t]: max_fee_per_gas
    TipCap,         \* TipCap[t]: max_priority_fee_per_gas
    BaseFees,       \* base fees list() is called with
    Filters,        \* checked_txs maps list() is called with
    UserMax,        \* TXPOOL_USER_MAX_SIZE (20)
    LimitedSize,    \* limited_size, the soft limit of the pool
    ListLimit       \* list()'s limit on the number of accounts returned

Accounts == {AccountOrder[i] : i \in 1..Len(AccountOrder)}
Marks == {"absent", "valid", "invalid"}

ASSUME PricePoolAssumption ==
    /\ AccountOrder \in Seq(Accounts)
    /\ \A i, j \in 1..Len(AccountOrder) : AccountOrder[i] = AccountOrder[j] => i = j
    /\ Caller \in [Txs -> Accounts] /\ Nonce \in [Txs -> Nat]
    /\ MaxFee \in [Txs -> Nat] /\ TipCap \in [Txs -> Nat]
    /\ BaseFees \subseteq Nat /\ Filters \subseteq [Txs -> Marks]
    /\ UserMax \in Nat \ {0} /\ LimitedSize \in Nat /\ ListLimit \in Nat \ {0}

VARIABLES
    pending,    \* pending: sender -> the txs of its UserTxList
    caches,     \* caches: the hashes it holds
    listed      \* list()'s base fee, filter and result, while no other call followed

vars == <<pending, caches, listed>>

-----------------------------------------------------------------------------
(* effective_gas_tip(base_fee).is_some() *)
TipDefined(t, b) == MaxFee[t] >= b

(* The tx a sender's SortedMap holds at nonce n, if any. *)
AtNonce(S, n) == {t \in S : Nonce[t] = n}

(* S in ascending nonce order (the BTreeMap's iteration order). *)
Sorted(S) ==
    [i \in 1..Cardinality(S) |->
        CHOOSE t \in S : Cardinality({u \in S : Nonce[u] < Nonce[t]}) = i - 1]

(* SortedMap::put: insert at the tx's nonce (replacing), then pop_last    *)
(* while over TXPOOL_USER_MAX_SIZE.                                        *)
PopLast(S) == S \ {CHOOSE t \in S : \A u \in S : Nonce[u] <= Nonce[t]}

(* Mutant: the pop_last at the cap dropped. *)
PutNoEvict(S, t) == (S \ AtNonce(S, Nonce[t])) \cup {t}

Put(S, t) ==
    LET S1 == (S \ AtNonce(S, Nonce[t])) \cup {t}
    IN  IF Cardinality(S1) > UserMax THEN PopLast(S1) ELSE S1

(* UserTxList::add with price_bump 0: a tx at a held nonce is refused     *)
(* unless both its fee cap and its tip cap are higher.                    *)
(* Mutant: refused only when both fees are no higher (`&&` for `||`). *)
UnderbidsBoth(old, t) == MaxFee[old] >= MaxFee[t] /\ TipCap[old] >= TipCap[t]

Underbids(old, t) == MaxFee[old] >= MaxFee[t] \/ TipCap[old] >= TipCap[t]

Add(S, t) ==
    IF \E old \in AtNonce(S, Nonce[t]) : Underbids(old, t) THEN S ELSE Put(S, t)

(* UserTxList::remove: drop the tx at the nonce, then every lower nonce.  *)
RemoveNonce(S, n) == IF AtNonce(S, n) = {} THEN S ELSE {t \in S : Nonce[t] > n}

(* SortedMap::flatten over the nonce-sorted txs s: skip the prefix the    *)
(* filter marks valid, stop at one marked invalid, then take consecutive  *)
(* nonces until a gap or a tx without a tip (marked dropped).             *)
(* Mutant: the nonce-gap check dropped. *)
FlattenStepNoGap(p, t, f, b) ==
    CASE p.done                                      -> p
      [] ~p.nc /\ f[t] = "valid"                     -> p
      [] ~p.nc /\ f[t] = "invalid"                   -> [p EXCEPT !.done = TRUE]
      [] ~TipDefined(t, b)                           -> [p EXCEPT !.drop = TRUE,
                                                                  !.done = TRUE]
      [] OTHER -> [p EXCEPT !.out = Append(p.out, t), !.nc = TRUE]

FlattenStep(p, t, f, b) ==
    CASE p.done                                      -> p
      [] ~p.nc /\ f[t] = "valid"                     -> p
      [] ~p.nc /\ f[t] = "invalid"                   -> [p EXCEPT !.done = TRUE]
      [] ~TipDefined(t, b)                           -> [p EXCEPT !.drop = TRUE,
                                                                  !.done = TRUE]
      [] p.out # <<>> /\ Nonce[t] # Nonce[p.out[Len(p.out)]] + 1
                                                     -> [p EXCEPT !.done = TRUE]
      [] OTHER -> [p EXCEPT !.out = Append(p.out, t), !.nc = TRUE]

Flatten(s, f, b) ==
    LET st[i \in 0..Len(s)] ==
          IF i = 0 THEN [out |-> <<>>, nc |-> FALSE, drop |-> FALSE, done |-> FALSE]
          ELSE FlattenStep(st[i - 1], s[i], f, b)
    IN  st[Len(s)]

(* SortedMap::clean_underprice: from the highest nonce down, the first k  *)
(* txs without a tip.                                                      *)
CleanUnderprice(S, b, k) ==
    LET U == {t \in S : ~TipDefined(t, b)}
    IN  {t \in U : Cardinality({u \in U : Nonce[u] > Nonce[t]}) < k}

(* PricePool::list over the accounts in order: flatten each, stop once    *)
(* `limit` accounts have txs, and while the running count of scanned txs  *)
(* exceeds limited_size evict the underpriced tail of an account whose    *)
(* flatten dropped a tx.                                                   *)
Returned(res) == {a \in Accounts : res[a] # <<>>}

ListStep(p, a, f, b) ==
    IF p.stop \/ pending[a] = {} THEN p
    ELSE LET total == p.total + Cardinality(pending[a])
             fl    == Flatten(Sorted(pending[a]), f, b)
             res   == [p.result EXCEPT ![a] = fl.out]
             gone  == CleanUnderprice(pending[a], b, total - LimitedSize)
         IN  IF fl.out # <<>> /\ Cardinality(Returned(res)) >= ListLimit
             THEN [p EXCEPT !.result = res, !.total = total, !.stop = TRUE]
             ELSE IF fl.drop /\ total > LimitedSize
             THEN [p EXCEPT !.result = res, !.total = total - Cardinality(gone),
                            !.removed = @ \cup gone]
             ELSE [p EXCEPT !.result = res, !.total = total]

ListScan(f, b) ==
    LET st[i \in 0..Len(AccountOrder)] ==
          IF i = 0 THEN [result |-> [a \in Accounts |-> <<>>], total |-> 0, removed |-> {}, stop |-> FALSE]
          ELSE ListStep(st[i - 1], AccountOrder[i], f, b)
    IN  st[Len(AccountOrder)]

-----------------------------------------------------------------------------
NoList == [base |-> 0, filter |-> [t \in Txs |-> "absent"],
           result |-> [a \in Accounts |-> <<>>]]

Init ==
    /\ pending = [a \in Accounts |-> {}]
    /\ caches = {}
    /\ listed = NoList

(* PricePool::push: AlreadyKnowned if the hash is cached; otherwise cache *)
(* it, then add it to its sender's list.                                   *)
Push(t) ==
    /\ t \notin caches
    /\ caches' = caches \cup {t}
    /\ pending' = [pending EXCEPT ![Caller[t]] = Add(@, t)]
    /\ listed' = NoList

(* PricePool::remove: drop the hash from caches; if it was cached, remove *)
(* its nonce (and the lower ones) from its sender's list.                  *)
Remove(h) ==
    /\ h \in caches
    /\ caches' = caches \ {h}
    /\ pending' = [pending EXCEPT ![Caller[h]] = RemoveNonce(@, Nonce[h])]
    /\ listed' = NoList

(* PricePool::list(filter, base_fee, limit), with its evictions.          *)
List(f, b) ==
    LET r == ListScan(f, b) IN
    /\ pending' = [a \in Accounts |-> pending[a] \ r.removed]
    /\ caches' = caches \ r.removed
    /\ listed' = [base |-> b, filter |-> f, result |-> r.result]

Next ==
    \/ \E t \in Txs : Push(t)
    \/ \E h \in Txs : Remove(h)
    \/ \E f \in Filters, b \in BaseFees : List(f, b)

Spec == Init /\ [][Next]_vars

-----------------------------------------------------------------------------
(* Every variable has its type; every sender's list is keyed by nonce     *)
(* (one tx per nonce) and holds at most TXPOOL_USER_MAX_SIZE txs.          *)
TypeOK ==
    /\ pending \in [Accounts -> SUBSET Txs]
    /\ \A a \in Accounts :
          /\ \A t \in pending[a] : Caller[t] = a
          /\ \A t, u \in pending[a] : Nonce[t] = Nonce[u] => t = u
          /\ Cardinality(pending[a]) <= UserMax
    /\ caches \subseteq Txs

(* UserTxList::add: a tx at a nonce the sender already holds replaces it  *)
(* only if both max_fee_per_gas and max_priority_fee_per_gas are higher   *)
(* (spec 4.2, price bump 0).                                               *)
ReplaceOnlyIfBothHigher ==
    [][\A a \in Accounts : \A old \in pending[a], new \in pending'[a] :
         (Nonce[old] = Nonce[new] /\ old # new)
            => MaxFee[new] > MaxFee[old] /\ TipCap[new] > TipCap[old]]_vars

(* list() returns, per account, a run of consecutive nonces of txs the    *)
(* pool holds, every one with a tip at the base fee, starting at the      *)
(* account's first tx the filter does not mark valid (spec 8: a gap       *)
(* always truncates the list).  Checked in the state list() leaves.       *)
ListConsecutive ==
    \A a \in Returned(listed.result) :
        LET s  == listed.result[a]
            ok == {t \in pending[a] : listed.filter[t] # "valid"}
        IN  /\ \A i \in 1..Len(s) : s[i] \in pending[a]
                                    /\ TipDefined(s[i], listed.base)
            /\ \A i \in 1..Len(s) - 1 : Nonce[s[i + 1]] = Nonce[s[i]] + 1
            /\ \A t \in ok : Nonce[s[1]] <= Nonce[t]

(* contains(hash), and push's AlreadyKnowned, report a tx as known only   *)
(* while the pool holds it: a tx evicted at the cap, refused as a        *)
(* replacement or dropped below a removed nonce can be pushed again.      *)
KnownOnlyIfPending ==
    caches \subseteq UNION {pending[a] : a \in Accounts}

=============================================================================
