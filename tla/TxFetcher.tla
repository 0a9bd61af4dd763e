------------------------------ MODULE TxFetcher ------------------------------
(***************************************************************************)
(* The pending-tx fetcher (src/common/eth_client/src/tx_fetcher.rs) and   *)
(* the HashPool it dedups with (hash_pool.rs): one subscription per       *)
(* endpoint, each on its own threads, all sharing one LruMap of hashes    *)
(* under a mutex and one mpsc sender to the consumer.  A "body" source    *)
(* (WithBody, SelfHosted) receives whole txs and forwards those whose     *)
(* first_seen is true.  A "hash" source (WithHash) receives hashes, skips *)
(* the ones the pool holds, and asks eth_getTransactionByHash; a second    *)
(* thread takes the answers, in any order or not at all, and forwards     *)
(* those whose first_seen is true.                                         *)
(***************************************************************************)
EXTENDS Integers, Sequences, FiniteSets

CONSTANTS
    Hashes,     \* tx hashes the endpoints announce
    Sources,    \* the configured endpoints
    Kind,       \* Kind[s] \in {"hash", "body"}: the extension of endpoint s
    Cap,        \* LruMap::new(tx_hashcache_size)
    MaxNotes    \* bound on subscription notifications

ASSUME TxFetcherAssumption ==
    /\ Kind \in [Sources -> {"hash", "body"}]
    /\ Cap \in Nat \ {0} /\ MaxNotes \in Nat

VARIABLES
    lru,        \* the LruMap's keys, least recently used first
    inflight,   \* inflight[s][h]: requests for h source s has outstanding
    fwd,        \* fwd[h]: times h was sent to the consumer
    evicted,    \* evicted[h]: times the LruMap dropped h (history)
    notes       \* notifications delivered so far

vars == <<lru, inflight, fwd, evicted, notes>>

-----------------------------------------------------------------------------
(* Mutant: the capacity is never enforced. *)
InsertNoEvict(h) == [seq |-> Append(lru, h), out |-> {}]

(* LruMap::insert of a new key: it becomes the most recent and, past the   *)
(* capacity, the least recent key is dropped.                              *)
Insert(h) ==
    IF Len(lru) < Cap THEN [seq |-> Append(lru, h), out |-> {}]
    ELSE [seq |-> Append(Tail(lru), h), out |-> {Head(lru)}]

InLru(h) == \E i \in 1..Len(lru) : lru[i] = h

(* HashPool::first_seen(h) followed by the send of the tx: a hash the     *)
(* pool holds is skipped; otherwise it is inserted and forwarded.          *)
FirstSeenForward(h) ==
    IF InLru(h)
    THEN UNCHANGED <<lru, fwd, evicted>>
    ELSE LET r == Insert(h) IN
         /\ lru' = r.seq
         /\ fwd' = [fwd EXCEPT ![h] = @ + 1]
         /\ evicted' = [x \in Hashes |-> IF x \in r.out THEN evicted[x] + 1 ELSE evicted[x]]

-----------------------------------------------------------------------------
Init ==
    /\ lru = <<>>
    /\ inflight = [s \in Sources |-> [h \in Hashes |-> 0]]
    /\ fwd = [h \in Hashes |-> 0]
    /\ evicted = [h \in Hashes |-> 0]
    /\ notes = 0

(* WithBody / SelfHosted: a pending tx arrives on the subscription. *)
BodyRecv(s, h) ==
    /\ Kind[s] = "body" /\ notes < MaxNotes
    /\ notes' = notes + 1
    /\ FirstSeenForward(h)
    /\ UNCHANGED inflight

(* WithHash, subscription thread: a hash the pool holds is skipped;       *)
(* otherwise eth_getTransactionByHash is sent asynchronously.             *)
HashRecv(s, h) ==
    /\ Kind[s] = "hash" /\ notes < MaxNotes
    /\ notes' = notes + 1
    /\ inflight' = IF InLru(h) THEN inflight
                   ELSE [inflight EXCEPT ![s][h] = @ + 1]
    /\ UNCHANGED <<lru, fwd, evicted>>

(* Mutant: the body thread trusts the exists() check made before the     *)
(* request and forwards every answer.                                      *)
HashBodyNoRecheck(s, h) ==
    /\ inflight[s][h] > 0
    /\ inflight' = [inflight EXCEPT ![s][h] = @ - 1]
    /\ IF InLru(h) THEN UNCHANGED <<lru, evicted>>
       ELSE LET r == Insert(h) IN
            /\ lru' = r.seq
            /\ evicted' = [x \in Hashes |-> IF x \in r.out THEN evicted[x] + 1 ELSE evicted[x]]
    /\ fwd' = [fwd EXCEPT ![h] = @ + 1]
    /\ UNCHANGED notes

(* WithHash, body thread: the node's answer for h, checked with           *)
(* first_seen again before it is forwarded.                                *)
HashBody(s, h) ==
    /\ inflight[s][h] > 0
    /\ inflight' = [inflight EXCEPT ![s][h] = @ - 1]
    /\ FirstSeenForward(h)
    /\ UNCHANGED notes

(* WithHash, body thread: an error or undecodable answer is skipped. *)
HashLost(s, h) ==
    /\ inflight[s][h] > 0
    /\ inflight' = [inflight EXCEPT ![s][h] = @ - 1]
    /\ UNCHANGED <<lru, fwd, evicted, notes>>

Next ==
    \E s \in Sources, h \in Hashes :
        BodyRecv(s, h) \/ HashRecv(s, h) \/ HashBody(s, h) \/ HashLost(s, h)

Spec == Init /\ [][Next]_vars

-----------------------------------------------------------------------------
(* The hashes the LruMap holds, without their order. *)
Held == {lru[i] : i \in 1..Len(lru)}

Dedup == INSTANCE TxDedup WITH held <- Held

(* The fetcher's HashPool is the set cache TxDedup describes: an insert   *)
(* happens only for a hash first_seen did not find, the pool forgets      *)
(* nothing below tx_hashcache_size and exactly one held hash at it, and   *)
(* every other step of the subscriptions leaves the pool and the          *)
(* forwards alone.                                                         *)
DedupRefined == Dedup!Spec

(* Every variable has its type and the LruMap stays within its capacity. *)
TypeOK ==
    /\ lru \in Seq(Hashes) /\ Len(lru) <= Cap
    /\ inflight \in [Sources -> [Hashes -> Nat]]
    /\ fwd \in [Hashes -> Nat] /\ evicted \in [Hashes -> Nat]
    /\ notes \in 0..MaxNotes

(* The consumer gets a tx once per stay of its hash in the LruMap: the    *)
(* sources race, and a WithHash answer can arrive after another source    *)
(* forwarded the tx, but first_seen's check and insert happen under one   *)
(* lock, so a second forward needs an eviction in between.                *)
ForwardOncePerStay ==
    \A h \in Hashes : fwd[h] <= evicted[h] + 1

=============================================================================
