--------------------------- MODULE PricePool_proofs ---------------------------
(***************************************************************************)
(* Proofs about the price pool (PricePool), for every set of senders and  *)
(* txs, every nonce and fee assignment and every TXPOOL_USER_MAX_SIZE.    *)
(*                                                                         *)
(* TypeOK bounds each sender's list by Cardinality, which says nothing of *)
(* an infinite set: the inductive invariant adds that every list is       *)
(* finite.  The cap then rests on SortedMap::put's pop_last removing one  *)
(* tx, which needs a tx of greatest nonce in a finite non-empty list      *)
(* (NonceMax): the least, under strict inclusion, of the sets of txs at   *)
(* or above a nonce is the set above the greatest nonce.                  *)
(***************************************************************************)
EXTENDS PricePool, FiniteSetTheorems, WellFoundedInduction, TLAPS

(* Every sender's list is a finite set. *)
Finite == \A a \in Accounts : IsFiniteSet(pending[a])

IInv == TypeOK /\ Finite

(* A sender's list as TypeOK wants it: its own txs, one per nonce, at    *)
(* most TXPOOL_USER_MAX_SIZE of them, and finite.                        *)
GoodList(S, a) ==
    /\ S \subseteq Txs /\ IsFiniteSet(S)
    /\ \A t \in S : Caller[t] = a
    /\ \A t, u \in S : Nonce[t] = Nonce[u] => t = u
    /\ Cardinality(S) <= UserMax

-----------------------------------------------------------------------------
(* A finite non-empty set of txs has a tx of greatest nonce, so the       *)
(* CHOOSE of PopLast picks one of its txs.                                *)
LEMMA NonceMax ==
    ASSUME NEW S \in SUBSET Txs, IsFiniteSet(S), S # {}
    PROVE  \E t \in S : \A u \in S : Nonce[u] <= Nonce[t]
<1>. DEFINE Up(x) == {u \in S : Nonce[u] >= Nonce[x]}
            F == {Up(x) : x \in S}
<1>0. \A x \in S : Up(x) \in SUBSET S /\ IsFiniteSet(Up(x))
  <2>. TAKE x \in S
  <2>1. Up(x) \in SUBSET S
    OBVIOUS
  <2>. QED  BY <2>1, FS_Subset
<1>1. F \subseteq FiniteSubsetsOf(S) /\ F # {}
  BY <1>0 DEF FiniteSubsetsOf
<1>2. \E M \in F : \A N \in F : ~(<<N, M>> \in StrictSubsetOrdering(S))
  BY <1>1, FS_StrictSubsetOrderingWellFounded, WFMin
<1>3. PICK x \in S : \A N \in F : ~(<<N, Up(x)>> \in StrictSubsetOrdering(S))
  BY <1>2
<1>4. SUFFICES ASSUME NEW u \in S, Nonce[u] > Nonce[x] PROVE FALSE
  BY PricePoolAssumption
<1>5. Up(u) \subseteq Up(x) /\ x \in Up(x) /\ x \notin Up(u)
  BY <1>4, PricePoolAssumption
<1>6. <<Up(u), Up(x)>> \in StrictSubsetOrdering(S)
  BY <1>5 DEF StrictSubsetOrdering
<1>. QED  BY <1>3, <1>6

(* Taking one element out of a finite set. *)
LEMMA RemoveOne ==
    ASSUME NEW X, IsFiniteSet(X), NEW x \in X
    PROVE  IsFiniteSet(X \ {x}) /\ Cardinality(X \ {x}) = Cardinality(X) - 1
BY FS_RemoveElement

(* SortedMap::put keeps a good list good: the tx replaces the one at its *)
(* nonce, and at the cap pop_last drops one tx, the one of highest nonce. *)
LEMMA PutGood ==
    ASSUME NEW a, NEW S, GoodList(S, a), NEW t \in Txs, Caller[t] = a
    PROVE  /\ GoodList(Put(S, t), a)
           /\ Put(S, t) \subseteq S \cup {t}
<1>. DEFINE Rest == S \ AtNonce(S, Nonce[t])
            S1 == Rest \cup {t}
<1>0. /\ Rest \in SUBSET S /\ IsFiniteSet(S)
      /\ \A x \in Rest : Nonce[x] # Nonce[t]
  BY DEF GoodList, AtNonce
<1>5. /\ IsFiniteSet(Rest)
      /\ Cardinality(Rest) <= Cardinality(S)
      /\ Cardinality(Rest) \in Nat
  BY <1>0, FS_Subset, FS_CardinalityType
<1>6. IsFiniteSet(S1) /\ Cardinality(S1) <= Cardinality(Rest) + 1
  <2>1. IsFiniteSet(S1)
        /\ Cardinality(S1) = IF t \in Rest THEN Cardinality(Rest) ELSE Cardinality(Rest) + 1
    BY <1>5, FS_AddElement, Zenon
  <2>. QED  BY <1>5, <2>1
<1>1. /\ S1 \subseteq Txs /\ IsFiniteSet(S1)
      /\ \A x \in S1 : Caller[x] = a
      /\ \A x, y \in S1 : Nonce[x] = Nonce[y] => x = y
  BY <1>0, <1>6 DEF GoodList
<1>2. Cardinality(S1) <= UserMax + 1 /\ Cardinality(S1) \in Nat
  <2>1. Cardinality(S1) \in Nat /\ Cardinality(S) \in Nat /\ Cardinality(S) <= UserMax
    BY <1>0, <1>6, FS_CardinalityType DEF GoodList
  <2>. QED  BY <1>5, <1>6, <2>1, PricePoolAssumption
<1>3. CASE Cardinality(S1) > UserMax
  <2>1. S1 # {}
    BY <1>2, <1>3, FS_EmptySet, PricePoolAssumption
  <2>2. PICK m \in S1 : \A u \in S1 : Nonce[u] <= Nonce[m]
    BY <1>1, <2>1, NonceMax
  <2>. DEFINE c == CHOOSE x \in S1 : \A u \in S1 : Nonce[u] <= Nonce[x]
  <2>3. Put(S, t) = S1 \ {c}
    BY <1>3 DEF Put, PopLast
  <2>4. c \in S1
    BY <2>2
  <2>6. IsFiniteSet(S1 \ {c}) /\ Cardinality(S1 \ {c}) = Cardinality(S1) - 1
    <3>. HIDE DEF c
    <3>. QED  BY <1>1, <2>4, RemoveOne
  <2>5. IsFiniteSet(Put(S, t)) /\ Cardinality(Put(S, t)) = Cardinality(S1) - 1
    <3>. HIDE DEF c
    <3>. QED  BY <2>3, <2>6, Zenon
  <2>. HIDE DEF c
  <2>7. Put(S, t) \subseteq S1
    BY <2>3
  <2>8. Cardinality(Put(S, t)) <= UserMax
    BY <1>2, <2>5, PricePoolAssumption
  <2>9. S1 \subseteq S \cup {t}
    OBVIOUS
  <2>. QED  BY <1>1, <2>5, <2>7, <2>8, <2>9 DEF GoodList
<1>4. CASE ~(Cardinality(S1) > UserMax)
  BY <1>1, <1>2, <1>4, PricePoolAssumption DEF Put, GoodList
<1>. QED  BY <1>3, <1>4

(* A sub-list of a good list is good: remove and list's evictions only   *)
(* ever take txs away.                                                    *)
LEMMA SubGood ==
    ASSUME NEW a, NEW S, GoodList(S, a), NEW T \in SUBSET S
    PROVE  GoodList(T, a)
BY FS_Subset, PricePoolAssumption, FS_CardinalityType DEF GoodList

LEMMA IInvGood ==
    ASSUME IInv
    PROVE  /\ pending \in [Accounts -> SUBSET Txs] /\ caches \subseteq Txs
           /\ \A a \in Accounts : GoodList(pending[a], a)
BY DEF IInv, TypeOK, Finite, GoodList

LEMMA GoodIInv ==
    ASSUME pending \in [Accounts -> SUBSET Txs], caches \subseteq Txs,
           \A a \in Accounts : GoodList(pending[a], a)
    PROVE  IInv
BY DEF IInv, TypeOK, Finite, GoodList

(* UserTxList::add keeps a good list good, and only ever adds the tx. *)
LEMMA AddGood ==
    ASSUME NEW a, NEW S, GoodList(S, a), NEW t \in Txs, Caller[t] = a
    PROVE  /\ GoodList(Add(S, t), a)
           /\ Add(S, t) \subseteq S \cup {t}
BY PutGood DEF Add

(* A tx that ends up in a list next to a different one at its nonce was  *)
(* added by add, and add took it only over a tx it outbids on both fees. *)
LEMMA AddOutbids ==
    ASSUME NEW a, NEW S, GoodList(S, a), NEW t \in Txs, Caller[t] = a,
           NEW old \in S, NEW new \in Add(S, t), Nonce[old] = Nonce[new], old # new
    PROVE  MaxFee[new] > MaxFee[old] /\ TipCap[new] > TipCap[old]
<1>1. new \in S \cup {t}
  BY AddGood
<1>2. new \notin S
  BY DEF GoodList
<1>3. new = t /\ t \notin S
  BY <1>1, <1>2
<1>4. ~\E o \in AtNonce(S, Nonce[t]) : Underbids(o, t)
  BY <1>3 DEF Add
<1>5. old \in AtNonce(S, Nonce[t])
  BY <1>3 DEF AtNonce
<1>6. ~(MaxFee[old] >= MaxFee[t]) /\ ~(TipCap[old] >= TipCap[t])
  BY <1>4, <1>5 DEF Underbids
<1>7. old \in Txs
  BY DEF GoodList
<1>. QED  BY <1>3, <1>6, <1>7, PricePoolAssumption

-----------------------------------------------------------------------------
LEMMA InitIInv == Init => IInv
<1>. SUFFICES ASSUME Init PROVE IInv
  OBVIOUS
<1>1. \A a \in Accounts : GoodList({}, a)
  BY FS_EmptySet, PricePoolAssumption DEF GoodList
<1>. QED  BY <1>1, GoodIInv DEF Init

(* push: the hash enters caches and add runs on its sender's list. *)
LEMMA PushIInv ==
    ASSUME IInv, NEW t \in Txs, Push(t)
    PROVE  IInv'
<1>1. Caller[t] \in Accounts
  BY PricePoolAssumption
<1>2. GoodList(Add(pending[Caller[t]], t), Caller[t])
  <2>1. GoodList(pending[Caller[t]], Caller[t])
    BY <1>1, IInvGood
  <2>. QED  BY <2>1, AddGood
<1>3. pending' \in [Accounts -> SUBSET Txs] /\ caches' \subseteq Txs
      /\ \A a \in Accounts : GoodList(pending'[a], a)
  BY <1>1, <1>2, IInvGood DEF Push, GoodList
<1>. QED  BY <1>3 DEF IInv, TypeOK, Finite, GoodList

(* remove: the hash leaves caches, and its nonce and every lower one     *)
(* leave its sender's list.                                               *)
LEMMA RemoveIInv ==
    ASSUME IInv, NEW h \in Txs, Remove(h)
    PROVE  IInv'
<1>1. Caller[h] \in Accounts
  BY PricePoolAssumption
<1>2. RemoveNonce(pending[Caller[h]], Nonce[h]) \subseteq pending[Caller[h]]
  BY DEF RemoveNonce
<1>3. GoodList(RemoveNonce(pending[Caller[h]], Nonce[h]), Caller[h])
  BY <1>1, <1>2, IInvGood, SubGood
<1>4. pending' \in [Accounts -> SUBSET Txs] /\ caches' \subseteq Txs
      /\ \A a \in Accounts : GoodList(pending'[a], a)
  BY <1>1, <1>3, IInvGood DEF Remove, GoodList
<1>. QED  BY <1>4 DEF IInv, TypeOK, Finite, GoodList

(* list: whatever the scan evicts, every list and caches only shrink. *)
LEMMA ListIInv ==
    ASSUME IInv, NEW f \in Filters, NEW b \in BaseFees, List(f, b)
    PROVE  IInv'
<1>. DEFINE r == ListScan(f, b)
<1>1. \A a \in Accounts : pending'[a] = pending[a] \ r.removed
  BY DEF List
<1>2. \A a \in Accounts : GoodList(pending'[a], a)
  BY <1>1, IInvGood, SubGood
<1>3. pending' \in [Accounts -> SUBSET Txs] /\ caches' \subseteq Txs
  BY IInvGood DEF List
<1>. QED  BY <1>2, <1>3 DEF IInv, TypeOK, Finite, GoodList

LEMMA NextIInv == IInv /\ [Next]_vars => IInv'
<1>. SUFFICES ASSUME IInv, [Next]_vars PROVE IInv'
  OBVIOUS
<1>1. CASE \E t \in Txs : Push(t)
  BY <1>1, PushIInv
<1>2. CASE \E h \in Txs : Remove(h)
  BY <1>2, RemoveIInv
<1>3. CASE \E f \in Filters, b \in BaseFees : List(f, b)
  BY <1>3, ListIInv
<1>4. CASE UNCHANGED vars
  BY <1>4 DEF vars, IInv, TypeOK, Finite
<1>. QED  BY <1>1, <1>2, <1>3, <1>4 DEF Next

-----------------------------------------------------------------------------
THEOREM IInvHolds == Spec => []IInv
<1>1. Init => IInv
  BY InitIInv
<1>2. IInv /\ [Next]_vars => IInv'
  BY NextIInv
<1>. QED  BY <1>1, <1>2, PTL DEF Spec

(* However push, remove and list interleave, every sender's nonce map    *)
(* holds its own txs, one per nonce, and SortedMap::put's pop_last keeps *)
(* it within TXPOOL_USER_MAX_SIZE, for every cap and every set of txs.   *)
THEOREM TypeCorrect == Spec => []TypeOK
BY IInvHolds, PTL DEF IInv

-----------------------------------------------------------------------------
(* The step ReplaceOnlyIfBothHigher constrains. *)
ReplStep ==
    \A a \in Accounts : \A old \in pending[a], new \in pending'[a] :
        (Nonce[old] = Nonce[new] /\ old # new)
            => MaxFee[new] > MaxFee[old] /\ TipCap[new] > TipCap[old]

(* A list that only lost txs holds no tx beside a different one at its   *)
(* nonce.                                                                 *)
LEMMA SubNoRival ==
    ASSUME NEW a, NEW S, GoodList(S, a), NEW T \in SUBSET S,
           NEW old \in S, NEW new \in T, Nonce[old] = Nonce[new]
    PROVE  old = new
BY DEF GoodList

LEMMA PushRepl ==
    ASSUME IInv, NEW t \in Txs, Push(t)
    PROVE  ReplStep
<1>. SUFFICES ASSUME NEW a \in Accounts, NEW old \in pending[a], NEW new \in pending'[a],
                     Nonce[old] = Nonce[new], old # new
              PROVE  MaxFee[new] > MaxFee[old] /\ TipCap[new] > TipCap[old]
  BY DEF ReplStep
<1>1. GoodList(pending[a], a)
  BY IInvGood
<1>2. CASE a = Caller[t]
  <2>1. new \in Add(pending[a], t)
    BY <1>2, IInvGood DEF Push
  <2>. QED  BY <1>1, <1>2, <2>1, AddOutbids
<1>3. CASE a # Caller[t]
  <2>1. new \in pending[a]
    BY <1>3, IInvGood DEF Push
  <2>. QED  BY <1>1, <2>1, SubNoRival
<1>. QED  BY <1>2, <1>3

LEMMA NextRepl == IInv /\ [Next]_vars => [ReplStep]_vars
<1>. SUFFICES ASSUME IInv, [Next]_vars PROVE [ReplStep]_vars
  OBVIOUS
<1>1. CASE \E t \in Txs : Push(t)
  BY <1>1, PushRepl
<1>2. CASE \E h \in Txs : Remove(h)
  <2>1. PICK h \in Txs : Remove(h)
    BY <1>2
  <2>2. \A a \in Accounts : pending'[a] \subseteq pending[a]
    BY <2>1, IInvGood, PricePoolAssumption DEF Remove, RemoveNonce
  <2>. QED  BY <2>2, IInvGood, SubNoRival DEF ReplStep
<1>3. CASE \E f \in Filters, b \in BaseFees : List(f, b)
  <2>1. \A a \in Accounts : pending'[a] \subseteq pending[a]
    BY <1>3 DEF List
  <2>. QED  BY <2>1, IInvGood, SubNoRival DEF ReplStep
<1>4. CASE UNCHANGED vars
  BY <1>4 DEF vars
<1>. QED  BY <1>1, <1>2, <1>3, <1>4 DEF Next

(* UserTxList::add (price bump 0): in no step of push, remove or list    *)
(* does a sender's list come to hold, at a nonce, a tx other than the    *)
(* one it held there unless both its fee cap and its tip cap are higher, *)
(* for every fee assignment and cap.                                     *)
THEOREM ReplaceHolds == Spec => ReplaceOnlyIfBothHigher
<1>1. Spec => [][ReplStep]_vars
  BY IInvHolds, NextRepl, PTL DEF Spec
<1>. QED  BY <1>1 DEF ReplaceOnlyIfBothHigher, ReplStep

=============================================================================
