------------------------------- MODULE TxDedup -------------------------------
(***************************************************************************)
(* What the HashPool (src/common/eth_client/src/hash_pool.rs) promises    *)
(* the fetcher, without the LruMap's order: a set of at most pool_size    *)
(* hashes.  first_seen(h) answers true exactly when h is not held, and h  *)
(* is held afterwards; a pool that is full forgets some one hash it held  *)
(* to make room, and one that is not forgets none.  Every true answer     *)
(* sends the tx to the consumer (fwd); evicted counts what was forgotten. *)
(* Which hash goes is left open: TxFetcher refines this with the least    *)
(* recently inserted one.                                                 *)
(***************************************************************************)
EXTENDS Integers, FiniteSets

CONSTANTS
    Hashes,     \* tx hashes
    Cap         \* HashPool::new(pool_size)

VARIABLES
    held,       \* the hashes the pool holds
    fwd,        \* fwd[h]: true answers of first_seen(h), each a forward
    evicted     \* evicted[h]: times the pool forgot h

dvars == <<held, fwd, evicted>>

(* What an insert may forget: nothing below the capacity, one held hash   *)
(* at it.                                                                 *)
Room ==
    IF Cardinality(held) < Cap THEN {{}} ELSE {{x} : x \in held}

Init ==
    /\ held = {}
    /\ fwd = [h \in Hashes |-> 0]
    /\ evicted = [h \in Hashes |-> 0]

(* first_seen(h) answering true: h was not held and now is. *)
FirstSeen(h) ==
    /\ h \notin held
    /\ \E out \in Room :
         /\ held' = (held \ out) \cup {h}
         /\ evicted' = [x \in Hashes |-> IF x \in out THEN evicted[x] + 1 ELSE evicted[x]]
    /\ fwd' = [fwd EXCEPT ![h] = @ + 1]

Next == \E h \in Hashes : FirstSeen(h)

Spec == Init /\ [][Next]_dvars

=============================================================================
