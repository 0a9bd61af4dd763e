--------------------------- MODULE TxFetcher_proofs ---------------------------
(***************************************************************************)
(* Proofs about the tx fetcher's deduplication (TxFetcher): for every     *)
(* number of endpoints, hashes and LRU capacity, the LruMap stays within   *)
(* its capacity and a tx is forwarded once per stay of its hash in it.     *)
(*                                                                         *)
(* ForwardOncePerStay is not inductive: a forward is allowed only for a   *)
(* hash that is not in the LRU, and whether it is depends on the evictions *)
(* so far.  The inductive invariant counts exactly: the forwards of h are  *)
(* its evictions plus one while h is in the LRU.  That needs the LRU to    *)
(* hold h at most once, so that evicting its head really removes it.      *)
(***************************************************************************)
EXTENDS TxFetcher, SequenceTheorems, FiniteSetTheorems, TLAPS

(* x occurs in the sequence s. *)
Mem(s, x) == \E i \in 1..Len(s) : s[i] = x

(* No hash occurs twice in the sequence s. *)
NoDup(s) == \A i, j \in 1..Len(s) : s[i] = s[j] => i = j

(* 1 while h is in the LruMap, else 0. *)
Stay(h) == IF InLru(h) THEN 1 ELSE 0

(* Every forward of h is matched by an eviction, but the one of its stay. *)
Count == \A h \in Hashes : fwd[h] = evicted[h] + Stay(h)

(* The part of the state first_seen changes. *)
LruOK ==
    /\ lru \in Seq(Hashes) /\ Len(lru) <= Cap /\ NoDup(lru)
    /\ fwd \in [Hashes -> Nat] /\ evicted \in [Hashes -> Nat]
    /\ Count

IInv ==
    /\ LruOK
    /\ inflight \in [Sources -> [Hashes -> Nat]]
    /\ notes \in 0..MaxNotes

(* Insert(h) on the sequence s of a map with capacity cap. *)
InsertOn(s, h, cap) ==
    IF Len(s) < cap THEN [seq |-> Append(s, h), out |-> {}]
    ELSE [seq |-> Append(Tail(s), h), out |-> {Head(s)}]

-----------------------------------------------------------------------------
(* Appending a hash adds exactly that hash to the members. *)
LEMMA MemAppend ==
    ASSUME NEW t \in Seq(Hashes), NEW h \in Hashes, NEW x
    PROVE  Mem(Append(t, h), x) <=> (x = h \/ Mem(t, x))
<1>1. /\ Len(Append(t, h)) = Len(t) + 1
      /\ \A i \in 1..Len(t) : Append(t, h)[i] = t[i]
      /\ Append(t, h)[Len(t) + 1] = h
  BY AppendProperties
<1>. QED  BY <1>1 DEF Mem

(* Appending a hash that is not a member keeps a sequence duplicate-free. *)
LEMMA NoDupAppend ==
    ASSUME NEW t \in Seq(Hashes), NEW h \in Hashes, NoDup(t), ~Mem(t, h)
    PROVE  NoDup(Append(t, h))
<1>1. /\ Len(Append(t, h)) = Len(t) + 1
      /\ \A i \in 1..Len(t) : Append(t, h)[i] = t[i]
      /\ Append(t, h)[Len(t) + 1] = h
  BY AppendProperties
<1>. QED  BY <1>1 DEF NoDup, Mem

(* Dropping the head keeps a sequence duplicate-free. *)
LEMMA NoDupTail ==
    ASSUME NEW s \in Seq(Hashes), s # <<>>, NoDup(s)
    PROVE  NoDup(Tail(s))
<1>1. /\ Len(Tail(s)) = Len(s) - 1
      /\ \A i \in 1..Len(Tail(s)) : Tail(s)[i] = s[i + 1]
  BY HeadTailProperties
<1>. SUFFICES ASSUME NEW i \in 1..Len(Tail(s)), NEW j \in 1..Len(Tail(s)),
                    Tail(s)[i] = Tail(s)[j]
             PROVE  i = j
  BY DEF NoDup
<1>2. i + 1 \in 1..Len(s) /\ j + 1 \in 1..Len(s) /\ s[i + 1] = s[j + 1]
  BY <1>1, LenProperties
<1>. QED  BY <1>2 DEF NoDup

-----------------------------------------------------------------------------
(* LruMap::insert of a hash the map does not hold: the result is within   *)
(* the capacity and duplicate-free, holds the new hash and the old ones   *)
(* but the evicted head, and evicts only a hash it held.                  *)
LEMMA InsertFacts ==
    ASSUME NEW s \in Seq(Hashes), NEW h \in Hashes, NEW cap \in Nat \ {0},
           Len(s) <= cap, NoDup(s), ~Mem(s, h)
    PROVE  /\ InsertOn(s, h, cap).seq \in Seq(Hashes)
           /\ Len(InsertOn(s, h, cap).seq) <= cap
           /\ NoDup(InsertOn(s, h, cap).seq)
           /\ h \notin InsertOn(s, h, cap).out
           /\ \A x \in InsertOn(s, h, cap).out : Mem(s, x)
           /\ \A x \in Hashes : Mem(InsertOn(s, h, cap).seq, x) <=>
                 (x = h \/ (Mem(s, x) /\ x \notin InsertOn(s, h, cap).out))
<1>1. CASE Len(s) < cap
  <2>1. /\ Append(s, h) \in Seq(Hashes)
        /\ Len(Append(s, h)) = Len(s) + 1
        /\ \A i \in 1..Len(s) : Append(s, h)[i] = s[i]
        /\ Append(s, h)[Len(s) + 1] = h
    BY AppendProperties
  <2>2. NoDup(Append(s, h))
    BY <2>1 DEF NoDup, Mem
  <2>3. \A x \in Hashes : Mem(Append(s, h), x) <=> (x = h \/ Mem(s, x))
    BY <2>1 DEF Mem
  <2>. QED  BY <1>1, <2>1, <2>2, <2>3 DEF InsertOn
<1>2. CASE ~(Len(s) < cap)
  <2>1. s # <<>> /\ Len(s) \in Nat
    BY <1>2, LenProperties
  <2>2. /\ Tail(s) \in Seq(Hashes)
        /\ Len(Tail(s)) = Len(s) - 1
        /\ \A i \in 1..Len(Tail(s)) : Tail(s)[i] = s[i + 1]
        /\ Head(s) = s[1]
    BY <2>1, HeadTailProperties
  <2>3. /\ Append(Tail(s), h) \in Seq(Hashes)
        /\ Len(Append(Tail(s), h)) = Len(s)
        /\ \A i \in 1..Len(s) - 1 : Append(Tail(s), h)[i] = s[i + 1]
        /\ Append(Tail(s), h)[Len(s)] = h
    BY <2>1, <2>2, AppendProperties
  <2>4. ASSUME NEW x \in Hashes
        PROVE  Mem(Tail(s), x) <=> (Mem(s, x) /\ x # s[1])
    <3>1. ASSUME Mem(Tail(s), x) PROVE Mem(s, x) /\ x # s[1]
      <4>1. PICK i \in 1..Len(Tail(s)) : Tail(s)[i] = x
        BY <3>1 DEF Mem
      <4>2. i + 1 \in 1..Len(s) /\ s[i + 1] = x /\ 1 \in 1..Len(s) /\ i + 1 # 1
        BY <2>1, <2>2, <4>1
      <4>. QED  BY <4>2 DEF Mem, NoDup
    <3>2. ASSUME Mem(s, x), x # s[1] PROVE Mem(Tail(s), x)
      <4>1. PICK k \in 1..Len(s) : s[k] = x
        BY <3>2 DEF Mem
      <4>2. k - 1 \in 1..Len(Tail(s)) /\ Tail(s)[k - 1] = x
        BY <2>1, <2>2, <3>2, <4>1
      <4>. QED  BY <4>2 DEF Mem
    <3>. QED  BY <3>1, <3>2
  <2>5. ~Mem(Tail(s), h)
    BY <2>4
  <2>6. NoDup(Append(Tail(s), h))
    BY <2>1, <2>2, <2>5, NoDupTail, NoDupAppend
  <2>8. \A x \in Hashes : Mem(Append(Tail(s), h), x) <=> (x = h \/ Mem(Tail(s), x))
    BY <2>2, MemAppend
  <2>7. Mem(s, s[1]) /\ s[1] # h
    BY <2>1 DEF Mem
  <2>. QED  BY <1>2, <2>2, <2>3, <2>4, <2>6, <2>7, <2>8 DEF InsertOn
<1>. QED  BY <1>1, <1>2

(* first_seen followed by the forward keeps the counting invariant. *)
LEMMA FirstSeenKeeps ==
    ASSUME LruOK, NEW h \in Hashes, FirstSeenForward(h)
    PROVE  LruOK'
<1>. USE TxFetcherAssumption
<1>1. CASE InLru(h)
  <2>1. lru' = lru /\ fwd' = fwd /\ evicted' = evicted
    BY <1>1 DEF FirstSeenForward
  <2>. QED  BY <2>1 DEF LruOK, Count, Stay, InLru, NoDup
<1>2. CASE ~InLru(h)
  <2>. DEFINE r == InsertOn(lru, h, Cap)
  <2>1. /\ lru' = r.seq
        /\ fwd' = [fwd EXCEPT ![h] = @ + 1]
        /\ evicted' = [x \in Hashes |-> IF x \in r.out THEN evicted[x] + 1 ELSE evicted[x]]
    BY <1>2 DEF FirstSeenForward, Insert, InsertOn
  <2>2. /\ r.seq \in Seq(Hashes) /\ Len(r.seq) <= Cap /\ NoDup(r.seq)
        /\ h \notin r.out
        /\ \A x \in r.out : InLru(x)
        /\ \A x \in Hashes : Mem(r.seq, x) <=> (x = h \/ (InLru(x) /\ x \notin r.out))
    <3>1. /\ lru \in Seq(Hashes) /\ Len(lru) <= Cap /\ NoDup(lru)
          /\ ~Mem(lru, h) /\ Cap \in Nat \ {0}
      BY <1>2 DEF LruOK, InLru, Mem
    <3>3. \A x : InLru(x) <=> Mem(lru, x)
      BY DEF InLru, Mem
    <3>4. /\ InsertOn(lru, h, Cap).seq \in Seq(Hashes)
          /\ Len(InsertOn(lru, h, Cap).seq) <= Cap
          /\ NoDup(InsertOn(lru, h, Cap).seq)
          /\ h \notin InsertOn(lru, h, Cap).out
          /\ \A x \in InsertOn(lru, h, Cap).out : Mem(lru, x)
          /\ \A x \in Hashes : Mem(InsertOn(lru, h, Cap).seq, x) <=>
                (x = h \/ (Mem(lru, x) /\ x \notin InsertOn(lru, h, Cap).out))
      BY <3>1, InsertFacts
    <3>. QED  BY <3>3, <3>4, Zenon
  <2>3. fwd' \in [Hashes -> Nat] /\ evicted' \in [Hashes -> Nat]
    BY <2>1 DEF LruOK
  <2>4. ASSUME NEW x \in Hashes
        PROVE  fwd'[x] = evicted'[x] + Stay(x)'
    <3>1. InLru(x)' <=> (x = h \/ (InLru(x) /\ x \notin r.out))
      BY <2>1, <2>2 DEF InLru, Mem
    <3>2. fwd[x] = evicted[x] + Stay(x) /\ fwd[x] \in Nat /\ evicted[x] \in Nat
      BY DEF LruOK, Count
    <3>3. CASE x = h
      <4>1. Stay(x) = 0 /\ Stay(x)' = 1
        BY <1>2, <3>1, <3>3 DEF Stay
      <4>2. fwd'[x] = fwd[x] + 1 /\ evicted'[x] = evicted[x]
        BY <2>1, <2>2, <3>3 DEF LruOK
      <4>. QED  BY <3>2, <4>1, <4>2
    <3>4. CASE x # h /\ x \in r.out
      <4>1. Stay(x) = 1 /\ Stay(x)' = 0
        BY <2>2, <3>1, <3>4 DEF Stay
      <4>2. fwd'[x] = fwd[x] /\ evicted'[x] = evicted[x] + 1
        BY <2>1, <3>4 DEF LruOK
      <4>. QED  BY <3>2, <4>1, <4>2
    <3>5. CASE x # h /\ x \notin r.out
      <4>1. Stay(x)' = Stay(x)
        BY <3>1, <3>5 DEF Stay
      <4>2. fwd'[x] = fwd[x] /\ evicted'[x] = evicted[x]
        BY <2>1, <3>5 DEF LruOK
      <4>. QED  BY <3>2, <4>1, <4>2
    <3>. QED  BY <3>3, <3>4, <3>5
  <2>. QED  BY <2>1, <2>2, <2>3, <2>4 DEF LruOK, Count
<1>. QED  BY <1>1, <1>2

-----------------------------------------------------------------------------
(* The initial state satisfies the inductive invariant. *)
LEMMA InitIInv == Init => IInv
BY TxFetcherAssumption DEF Init, IInv, LruOK, NoDup, Count, Stay, InLru

(* Every step of the fetcher's threads keeps the inductive invariant. *)
LEMMA NextIInv == IInv /\ [Next]_vars => IInv'
<1> SUFFICES ASSUME IInv, [Next]_vars PROVE IInv'
  OBVIOUS
<1>. USE TxFetcherAssumption
<1>1. ASSUME NEW s \in Sources, NEW h \in Hashes, BodyRecv(s, h)
      PROVE  IInv'
  <2>1. LruOK'
    BY <1>1, FirstSeenKeeps DEF IInv, BodyRecv
  <2>. QED  BY <1>1, <2>1 DEF IInv, BodyRecv
<1>2. ASSUME NEW s \in Sources, NEW h \in Hashes, HashRecv(s, h)
      PROVE  IInv'
  <2>1. LruOK'
    BY <1>2 DEF IInv, HashRecv, LruOK, Count, Stay, InLru, NoDup
  <2>2. inflight' \in [Sources -> [Hashes -> Nat]]
    BY <1>2 DEF IInv, HashRecv
  <2>. QED  BY <1>2, <2>1, <2>2 DEF IInv, HashRecv
<1>3. ASSUME NEW s \in Sources, NEW h \in Hashes, HashBody(s, h)
      PROVE  IInv'
  <2>1. LruOK'
    BY <1>3, FirstSeenKeeps DEF IInv, HashBody
  <2>2. inflight' \in [Sources -> [Hashes -> Nat]]
    BY <1>3 DEF IInv, HashBody
  <2>. QED  BY <1>3, <2>1, <2>2 DEF IInv, HashBody
<1>4. ASSUME NEW s \in Sources, NEW h \in Hashes, HashLost(s, h)
      PROVE  IInv'
  <2>1. LruOK'
    BY <1>4 DEF IInv, HashLost, LruOK, Count, Stay, InLru, NoDup
  <2>2. inflight' \in [Sources -> [Hashes -> Nat]]
    BY <1>4 DEF IInv, HashLost
  <2>. QED  BY <1>4, <2>1, <2>2 DEF IInv, HashLost
<1>5. CASE UNCHANGED vars
  BY <1>5 DEF vars, IInv, LruOK, Count, Stay, InLru, NoDup
<1>. QED  BY <1>1, <1>2, <1>3, <1>4, <1>5 DEF Next

(* The inductive invariant holds in every reachable state. *)
THEOREM IInvHolds == Spec => []IInv
BY InitIInv, NextIInv, PTL DEF Spec

(* The LruMap (HashPool) never holds more than tx_hashcache_size hashes,   *)
(* and every counter of the fetcher stays a natural number.                *)
THEOREM TypeCorrect == Spec => []TypeOK
<1>1. IInv => TypeOK
  BY DEF IInv, LruOK, TypeOK
<1>. QED  BY <1>1, IInvHolds, PTL

(* HashPool::first_seen dedups the racing subscriptions: however the      *)
(* WithHash threads' late answers and the WithBody notifications          *)
(* interleave, a tx is forwarded once per stay of its hash in the LruMap. *)
THEOREM ForwardOnce == Spec => []ForwardOncePerStay
<1>1. IInv => ForwardOncePerStay
  <2>. SUFFICES ASSUME IInv, NEW h \in Hashes PROVE fwd[h] <= evicted[h] + 1
    BY DEF ForwardOncePerStay
  <2>1. Stay(h) \in {0, 1}
    BY DEF Stay
  <2>2. fwd[h] = evicted[h] + Stay(h) /\ evicted[h] \in Nat
    BY DEF IInv, LruOK, Count
  <2>. QED  BY <2>1, <2>2
<1>. QED  BY <1>1, IInvHolds, PTL

-----------------------------------------------------------------------------
(* Refinement of TxDedup.  Held maps the LruMap to the set it holds; the  *)
(* order of the LruMap only decides which hash a full pool forgets, which *)
(* TxDedup leaves open.  The step argument needs NoDup from IInv: it makes *)
(* the set as large as the sequence is long, so the pool is full in the   *)
(* abstract sense exactly when the LruMap is at tx_hashcache_size.        *)

(* A duplicate-free sequence has as many members as it is long. *)
LEMMA CardNoDup ==
    ASSUME NEW s \in Seq(Hashes), NoDup(s)
    PROVE  /\ IsFiniteSet({s[i] : i \in 1..Len(s)})
           /\ Cardinality({s[i] : i \in 1..Len(s)}) = Len(s)
<1>. DEFINE R == {s[i] : i \in 1..Len(s)}
<1>0. Len(s) \in Nat /\ s \in [1..Len(s) -> Hashes]
  BY LenProperties
<1>1. s \in Bijection(1..Len(s), R)
  BY <1>0 DEF Bijection, Injection, Surjection, IsInjective, NoDup
<1>2. IsFiniteSet(1..Len(s)) /\ Cardinality(1..Len(s)) = Len(s)
  BY <1>0, FS_Interval
<1>. QED  BY <1>1, <1>2, FS_Bijection DEF ExistsBijection

(* first_seen's insert is a FirstSeen step of TxDedup, and its refusal a *)
(* stutter.                                                               *)
LEMMA FirstSeenRefines ==
    ASSUME LruOK, NEW h \in Hashes, FirstSeenForward(h)
    PROVE  [Dedup!Next]_Dedup!dvars
<1>1. CASE InLru(h)
  BY <1>1 DEF FirstSeenForward, Dedup!dvars, Held
<1>2. CASE ~InLru(h)
  <2>. DEFINE r == InsertOn(lru, h, Cap)
  <2>1. Insert(h) = r
    BY DEF Insert, InsertOn
  <2>2. /\ lru' = r.seq
        /\ fwd' = [fwd EXCEPT ![h] = @ + 1]
        /\ evicted' = [x \in Hashes |-> IF x \in r.out THEN evicted[x] + 1 ELSE evicted[x]]
    BY <1>2, <2>1 DEF FirstSeenForward
  <2>3. ~Mem(lru, h)
    BY <1>2 DEF InLru, Mem
  <2>4. /\ r.seq \in Seq(Hashes)
        /\ \A x \in r.out : Mem(lru, x)
        /\ \A x \in Hashes : Mem(r.seq, x) <=> (x = h \/ (Mem(lru, x) /\ x \notin r.out))
    BY <2>3, InsertFacts, TxFetcherAssumption DEF LruOK
  <2>5. h \notin Held
    BY <2>3 DEF Held, Mem
  <2>6. Held' = (Held \ r.out) \cup {h}
    <3>1. Held' \subseteq Hashes /\ \A x \in Hashes : x \in Held' <=> Mem(r.seq, x)
      BY <2>2, <2>4, ElementOfSeq DEF Held, Mem
    <3>2. Held \subseteq Hashes /\ \A x \in Hashes : x \in Held <=> Mem(lru, x)
      BY ElementOfSeq DEF LruOK, Held, Mem
    <3>. QED  BY <2>4, <3>1, <3>2 DEF Mem
  <2>7. r.out \in Dedup!Room
    <3>0. Cardinality(Held) = Len(lru)
      BY CardNoDup DEF LruOK, Held
    <3>1. Dedup!Cardinality(Held) = Len(lru)
      BY <3>0 DEF Dedup!Cardinality, Cardinality
    <3>2. CASE Len(lru) < Cap
      BY <3>1, <3>2 DEF InsertOn, Dedup!Room
    <3>3. CASE ~(Len(lru) < Cap)
      <4>1. Len(lru) = Cap /\ Len(lru) \in Nat \ {0}
        BY <3>3, TxFetcherAssumption DEF LruOK
      <4>2. r.out = {Head(lru)} /\ Head(lru) \in Held
        BY <3>3, <4>1 DEF InsertOn, Held
      <4>. QED  BY <3>1, <4>1, <4>2 DEF Dedup!Room
    <3>. QED  BY <3>2, <3>3
  <2>. QED  BY <2>2, <2>5, <2>6, <2>7 DEF Dedup!Next, Dedup!FirstSeen
<1>. QED  BY <1>1, <1>2

(* The LruMap-based HashPool of the fetcher implements the set cache of  *)
(* TxDedup, for every set of endpoints and hashes and every capacity:    *)
(* however the subscriptions interleave, the pool holds at most          *)
(* tx_hashcache_size hashes, forgets one only when full, and a tx is     *)
(* forwarded exactly when first_seen did not find its hash.              *)
THEOREM Refinement == Spec => DedupRefined
<1>1. Init => Dedup!Init
  BY DEF Init, Dedup!Init, Held
<1>2. IInv /\ [Next]_vars => [Dedup!Next]_Dedup!dvars
  <2>. SUFFICES ASSUME IInv, [Next]_vars PROVE [Dedup!Next]_Dedup!dvars
    OBVIOUS
  <2>1. ASSUME NEW s \in Sources, NEW h \in Hashes, BodyRecv(s, h) \/ HashBody(s, h)
        PROVE  [Dedup!Next]_Dedup!dvars
    BY <2>1, FirstSeenRefines DEF IInv, BodyRecv, HashBody
  <2>2. ASSUME NEW s \in Sources, NEW h \in Hashes, HashRecv(s, h) \/ HashLost(s, h)
        PROVE  [Dedup!Next]_Dedup!dvars
    BY <2>2 DEF HashRecv, HashLost, Dedup!dvars, Held
  <2>3. CASE UNCHANGED vars
    BY <2>3 DEF vars, Dedup!dvars, Held
  <2>. QED  BY <2>1, <2>2, <2>3 DEF Next
<1>. QED  BY <1>1, <1>2, IInvHolds, PTL DEF Spec, DedupRefined, Dedup!Spec

=============================================================================
