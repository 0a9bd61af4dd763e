------------------------------- MODULE SeqPool -------------------------------
(***************************************************************************)
(* The sequence pool (src/common/txpool/src/seq_pool.rs): SeqPoolList     *)
(* under one mutex, with                                                   *)
(*   order    : seq -> hash, the FIFO list_by_seq() walks,                 *)
(*   txs      : hash -> TxInfo, of which the model keeps the seq,          *)
(*   accounts : sender -> Vec<(nonce, hash)>, kept sorted by nonce,        *)
(*   seq      : the next sequence number.                                  *)
(* push comes from the collect-tx thread and the RPC API; remove from     *)
(* fill_seq (RemoveTx) and remove_list from the new-block thread.  Each  *)
(* holds the mutex for its whole length, so each is one step.  The       *)
(* bookkeeping fields failure_reason, submit_time and submit_to are not   *)
(* modelled: no operation's control depends on them.                      *)
(***************************************************************************)
EXTENDS Integers, Sequences, FiniteSets

CONSTANTS
    Txs,        \* tx hashes
    Caller,     \* Caller[t]: tx.caller
    Nonce,      \* Nonce[t]: tx.nonce()
    Max,        \* SeqPool.max
    MaxSeq      \* bound on the sequence counter (a U256 in the code)

Accounts == {Caller[t] : t \in Txs}

ASSUME SeqPoolAssumption ==
    /\ Caller \in [Txs -> Accounts] /\ Nonce \in [Txs -> Nat]
    /\ Max \in Nat \ {0} /\ MaxSeq \in Nat

VARIABLES order, txs, accounts, seq

vars == <<order, txs, accounts, seq>>

-----------------------------------------------------------------------------
(* Functions with a finite domain, as BTreeMaps. *)
Drop(f, K) == [x \in DOMAIN f \ K |-> f[x]]
EmptyMap == [x \in {} |-> 0]

(* The index push's scan stops at: the first entry with nonce >= n.       *)
ReorderIdx(acct, n) == {i \in 1..Len(acct) : n <= acct[i].n /\ \A j \in 1..i - 1 : n > acct[j].n}

(* list_by_seq(): the hashes of order in ascending seq. *)
ListBySeq ==
    LET ks == DOMAIN order
        rank(k) == Cardinality({j \in ks : j < k})
    IN  [i \in 1..Cardinality(ks) |-> order[CHOOSE k \in ks : rank(k) = i - 1]]

(* Mutant: the replaced tx's order entry is left behind. *)
ListPushKeepsOrder(p, t) ==
    LET c    == Caller[t]
        acct == p.accounts[c]
        n    == Nonce[t]
        idx  == ReorderIdx(acct, n)
        i    == CHOOSE k \in idx : TRUE
        old  == IF idx # {} /\ acct[i].n = n THEN {acct[i].h} ELSE {}
        txs1 == Drop(p.txs, old)
        ord1 == p.order
        tail == IF idx = {} THEN <<>>
                ELSE SelectSeq(SubSeq(acct, i, Len(acct)), LAMBDA e : e.h \in DOMAIN txs1)
        head == IF idx = {} THEN acct ELSE SubSeq(acct, 1, i - 1)
        re   == [k \in 1..Len(tail) |-> p.seq + k]    \* new seqs of the tail
        moved == {tail[k].h : k \in 1..Len(tail)}
        pos(h) == CHOOSE k \in 1..Len(tail) : tail[k].h = h
    IN  IF old = {t} THEN p
        ELSE [txs |-> [h \in DOMAIN txs1 \cup {t} |->
                         IF h = t THEN p.seq
                         ELSE IF h \in moved THEN re[pos(h)] ELSE txs1[h]],
              order |-> [s \in (DOMAIN ord1 \ {p.txs[h] : h \in moved})
                               \cup {p.seq} \cup {re[k] : k \in 1..Len(tail)} |->
                           IF s = p.seq THEN t
                           ELSE IF s \in {re[k] : k \in 1..Len(tail)}
                                THEN tail[s - p.seq].h
                                ELSE ord1[s]],
              accounts |-> [p.accounts EXCEPT ![c] = head \o <<[n |-> n, h |-> t]>> \o tail],
              seq |-> p.seq + 1 + Len(tail)]

(* Mutant: the drained tail keeps its old seqs. *)
ListPushNoReseq(p, t) ==
    LET c    == Caller[t]
        acct == p.accounts[c]
        n    == Nonce[t]
        idx  == ReorderIdx(acct, n)
        i    == CHOOSE k \in idx : TRUE
        old  == IF idx # {} /\ acct[i].n = n THEN {acct[i].h} ELSE {}
        txs1 == Drop(p.txs, old)
        ord1 == Drop(p.order, {p.txs[h] : h \in old \cap DOMAIN p.txs})
        tail == IF idx = {} THEN <<>>
                ELSE SelectSeq(SubSeq(acct, i, Len(acct)), LAMBDA e : e.h \in DOMAIN txs1)
        head == IF idx = {} THEN acct ELSE SubSeq(acct, 1, i - 1)
    IN  IF old = {t} THEN p
        ELSE [txs |-> [h \in DOMAIN txs1 \cup {t} |-> IF h = t THEN p.seq ELSE txs1[h]],
              order |-> [s \in DOMAIN ord1 \cup {p.seq} |-> IF s = p.seq THEN t ELSE ord1[s]],
              accounts |-> [p.accounts EXCEPT ![c] = head \o <<[n |-> n, h |-> t]>> \o tail],
              seq |-> p.seq + 1]

(* SeqPoolList::push(t) on the list p = [order, txs, accounts, seq]: the  *)
(* entry at the scan's stop, if it has t's nonce, is the old tx to drop   *)
(* from txs and order (if it is t itself, push returns at once); t takes  *)
(* the next seq; the drained tail keeps its live entries, re-sequenced    *)
(* after t in nonce order.                                                 *)
ListPush(p, t) ==
    LET c    == Caller[t]
        acct == p.accounts[c]
        n    == Nonce[t]
        idx  == ReorderIdx(acct, n)
        i    == CHOOSE k \in idx : TRUE
        old  == IF idx # {} /\ acct[i].n = n THEN {acct[i].h} ELSE {}
        txs1 == Drop(p.txs, old)
        ord1 == Drop(p.order, {p.txs[h] : h \in old \cap DOMAIN p.txs})
        tail == IF idx = {} THEN <<>>
                ELSE SelectSeq(SubSeq(acct, i, Len(acct)), LAMBDA e : e.h \in DOMAIN txs1)
        head == IF idx = {} THEN acct ELSE SubSeq(acct, 1, i - 1)
        re   == [k \in 1..Len(tail) |-> p.seq + k]    \* new seqs of the tail
        moved == {tail[k].h : k \in 1..Len(tail)}
        pos(h) == CHOOSE k \in 1..Len(tail) : tail[k].h = h
    IN  IF old = {t} THEN p
        ELSE [txs |-> [h \in DOMAIN txs1 \cup {t} |->
                         IF h = t THEN p.seq
                         ELSE IF h \in moved THEN re[pos(h)] ELSE txs1[h]],
              order |-> [s \in (DOMAIN ord1 \ {p.txs[h] : h \in moved})
                               \cup {p.seq} \cup {re[k] : k \in 1..Len(tail)} |->
                           IF s = p.seq THEN t
                           ELSE IF s \in {re[k] : k \in 1..Len(tail)}
                                THEN tail[s - p.seq].h
                                ELSE ord1[s]],
              accounts |-> [p.accounts EXCEPT ![c] = head \o <<[n |-> n, h |-> t]>> \o tail],
              seq |-> p.seq + 1 + Len(tail)]

(* SeqPoolList::pop: the oldest entry of order leaves order, txs and its  *)
(* account's list.                                                         *)
Pop(p) ==
    LET s == CHOOSE k \in DOMAIN p.order : \A j \in DOMAIN p.order : k <= j
        h == p.order[s]
    IN  [p EXCEPT !.order = Drop(@, {s}), !.txs = Drop(@, {h}),
                  !.accounts = [@ EXCEPT ![Caller[h]] =
                                   SelectSeq(@, LAMBDA e : ~(e.n = Nonce[h] /\ e.h = h))]]

(* SeqPoolList::remove(hash). *)
ListRemove(p, h) ==
    IF h \notin DOMAIN p.txs THEN p
    ELSE [p EXCEPT !.order = Drop(@, {p.txs[h]}), !.txs = Drop(@, {h}),
                   !.accounts = [@ EXCEPT ![Caller[h]] = SelectSeq(@, LAMBDA e : e.h # h)]]

-----------------------------------------------------------------------------
Init ==
    /\ order = EmptyMap /\ txs = EmptyMap
    /\ accounts = [c \in Accounts |-> <<>>]
    /\ seq = 0

State == [order |-> order, txs |-> txs, accounts |-> accounts, seq |-> seq]

Becomes(p) ==
    /\ order' = p.order /\ txs' = p.txs /\ accounts' = p.accounts /\ seq' = p.seq

(* SeqPool::push: AlreadyKnowned if the hash is in txs; else push, then   *)
(* pop while the pool holds more than max (one push adds at most one tx,  *)
(* so one pop restores the bound).                                         *)
(* Mutant: an off-by-one in the eviction bound. *)
EvictOffByOne(p) == IF Cardinality(DOMAIN p.order) > Max + 1 THEN Pop(p) ELSE p

Evict(p) == IF Cardinality(DOMAIN p.order) > Max THEN Pop(p) ELSE p

Push(t) ==
    /\ t \notin DOMAIN txs
    /\ seq + 1 + Len(accounts[Caller[t]]) <= MaxSeq
    /\ Becomes(Evict(ListPush(State, t)))

(* SeqPool::remove(hash): fill_seq's RemoveTx. *)
Remove(h) ==
    /\ h \in DOMAIN txs
    /\ Becomes(ListRemove(State, h))

(* SeqPool::remove_list(number, hashes): the new-block thread removes the *)
(* block's txs (the submit_to tags it also strips are not modelled).      *)
RemoveList(hs) ==
    LET st[k \in 0..Cardinality(hs)] ==
          IF k = 0 THEN State
          ELSE ListRemove(st[k - 1], CHOOSE h \in hs : Cardinality({g \in hs : g < h}) = k - 1)
    IN  /\ hs # {}
        /\ Becomes(st[Cardinality(hs)])

Next ==
    \/ \E t \in Txs : Push(t)
    \/ \E h \in Txs : Remove(h)
    \/ \E hs \in SUBSET Txs : RemoveList(hs)

Spec == Init /\ [][Next]_vars

-----------------------------------------------------------------------------
(* Every variable has its type and the pool holds at most max txs.        *)
TypeOK ==
    /\ DOMAIN txs \subseteq Txs /\ \A h \in DOMAIN txs : txs[h] \in 0..MaxSeq
    /\ DOMAIN order \subseteq 0..MaxSeq /\ \A s \in DOMAIN order : order[s] \in Txs
    /\ accounts \in [Accounts -> Seq([n : Nat, h : Txs])]
    /\ seq \in 0..MaxSeq
    /\ Cardinality(DOMAIN txs) <= Max

(* The three maps describe the same txs: order and txs are inverse, every *)
(* tx sits once in its sender's list under its nonce, every listed entry  *)
(* is a live tx, and each list is strictly sorted by nonce.  A stale      *)
(* entry would make len() (order's size) miscount, pop() return None and  *)
(* push's eviction loop stop above max.                                    *)
Consistent ==
    /\ \A h \in DOMAIN txs : txs[h] \in DOMAIN order /\ order[txs[h]] = h
    /\ \A s \in DOMAIN order : order[s] \in DOMAIN txs /\ txs[order[s]] = s
    /\ \A c \in Accounts :
          /\ \A k \in 1..Len(accounts[c]) :
                LET e == accounts[c][k] IN
                e.h \in DOMAIN txs /\ Caller[e.h] = c /\ e.n = Nonce[e.h]
          /\ \A k \in 1..Len(accounts[c]) - 1 : accounts[c][k].n < accounts[c][k + 1].n
    /\ \A h \in DOMAIN txs : \E k \in 1..Len(accounts[Caller[h]]) : accounts[Caller[h]][k].h = h

(* Spec 4.1: list_by_seq() hands a sender's txs out in nonce order, also  *)
(* after a tx with a lower or a replaced nonce arrives late: push         *)
(* re-sequences the sender's later-nonce txs behind it.                   *)
SeqNonceOrder ==
    LET l == ListBySeq IN
    \A i, j \in 1..Len(l) :
        i < j /\ Caller[l[i]] = Caller[l[j]] => Nonce[l[i]] < Nonce[l[j]]

=============================================================================
