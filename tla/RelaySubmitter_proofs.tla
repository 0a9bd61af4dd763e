------------------------ MODULE RelaySubmitter_proofs ------------------------
(***************************************************************************)
(* Proofs about one relay's submission side (RelaySubmitter), for every   *)
(* set of slots, payload attributes and values, every cap of             *)
(* checked_state and every number of sends.                               *)
(*                                                                         *)
(* CheckedUnique and OptimisticAfterPass are not inductive as they stand. *)
(* The optimistic flag of a new submit thread is the lpassed listen read  *)
(* from checked() one step earlier, so the invariant must say what that   *)
(* read saw: an entry answered Ok is one some thread recorded an Ok for   *)
(* (OkRecorded), and listen holds lpassed only for such a key             *)
(* (ListenPassed).  checked() returns the entry CHOOSE picks among the    *)
(* matches; uniqueness of keys makes it the only match, which is why the  *)
(* two properties are proved together.                                    *)
(***************************************************************************)
EXTENDS RelaySubmitter, SequenceTheorems, TLAPS

(* No two entries of the checked_state list cs share a key. *)
KeysUnique(cs) == \A i, j \in 1..Len(cs) : cs[i].key = cs[j].key => i = j

(* Every entry answered Ok is for a key some submit thread recorded Ok.   *)
OkRecorded ==
    \A i \in 1..Len(checked) : checked[i].passed = "Ok" => checked[i].key \in passedEver

(* Between checked() and the spawn, listen holds a received request and   *)
(* believes it passed only if its key did.                                *)
ListenPassed ==
    lpc = "spawn" => /\ lcur \in 1..Len(sent)
                     /\ lpassed => Key(sent[lcur]) \in passedEver

IInv ==
    /\ TypeOK
    /\ CheckedUnique
    /\ OkRecorded
    /\ ListenPassed
    /\ OptimisticAfterPass

-----------------------------------------------------------------------------
(* The checked_state update of a submit thread: overwriting the first     *)
(* match or pushing and trimming the front keeps the list within its cap  *)
(* and its keys unique, and every entry afterwards is an old one or the   *)
(* thread's own answer.                                                    *)
LEMMA UpdateCheckedFacts ==
    ASSUME NEW cs \in Seq(Entries), Len(cs) <= CheckedCap, KeysUnique(cs),
           NEW k \in Slots \X Attrs, NEW res \in Results
    PROVE  /\ UpdateChecked(cs, k, res) \in Seq(Entries)
           /\ Len(UpdateChecked(cs, k, res)) <= CheckedCap
           /\ KeysUnique(UpdateChecked(cs, k, res))
           /\ \A i \in 1..Len(UpdateChecked(cs, k, res)) :
                 \/ UpdateChecked(cs, k, res)[i] = [key |-> k, passed |-> res]
                 \/ \E j \in 1..Len(cs) : UpdateChecked(cs, k, res)[i] = cs[j]
<1>. USE SubmitterAssumption
<1>. DEFINE ms == {i \in 1..Len(cs) : cs[i].key = k}
            e  == [key |-> k, passed |-> res]
            a  == Append(cs, e)
<1>0. e \in Entries /\ Len(cs) \in Nat
  BY DEF Entries
<1>1. CASE ms # {}
  <2>1. PICK m \in ms : TRUE
    BY <1>1
  <2>. DEFINE w == [cs EXCEPT ![m].passed = res]
  <2>2. ms = {m}
    BY <2>1 DEF KeysUnique
  <2>3. (CHOOSE i \in ms : \A j \in ms : i <= j) = m
    BY <2>2
  <2>4. UpdateChecked(cs, k, res) = w
    BY <1>1, <2>3 DEF UpdateChecked
  <2>5. m \in 1..Len(cs) /\ cs[m].key = k /\ cs[m] \in Entries
    BY <2>1
  <2>6. w[m] = e
    BY <2>5 DEF Entries
  <2>7. /\ Len(w) = Len(cs)
        /\ \A i \in 1..Len(cs) : i # m => w[i] = cs[i]
        /\ w \in Seq(Entries)
    BY <2>5, <2>6, <1>0
  <2>8. \A i \in 1..Len(cs) : w[i].key = cs[i].key
    <3>1. e.key = k
      OBVIOUS
    <3>. QED  BY <2>5, <2>6, <2>7, <3>1
  <2>9. KeysUnique(w)
    BY <2>7, <2>8 DEF KeysUnique
  <2>10. \A i \in 1..Len(w) : w[i] = e \/ \E j \in 1..Len(cs) : w[i] = cs[j]
    BY <2>6, <2>7
  <2>. QED  BY <2>4, <2>7, <2>9, <2>10, Zenon
<1>2. CASE ms = {}
  <2>1. /\ a \in Seq(Entries)
        /\ Len(a) = Len(cs) + 1
        /\ \A i \in 1..Len(cs) : a[i] = cs[i]
        /\ a[Len(cs) + 1] = e
    BY <1>0, AppendProperties
  <2>2. KeysUnique(a)
    BY <1>2, <2>1 DEF KeysUnique
  <2>3. \A i \in 1..Len(a) : a[i] = e \/ \E j \in 1..Len(cs) : a[i] = cs[j]
    BY <2>1, <1>0
  <2>4. UpdateChecked(cs, k, res) = DropFront(a)
    BY <1>2 DEF UpdateChecked
  <2>5. CASE Len(a) > CheckedCap
    <3>1. DropFront(a) = Tail(a)
      BY <2>5 DEF DropFront
    <3>2. a # <<>>
      BY <2>1
    <3>3. /\ Tail(a) \in Seq(Entries)
          /\ Len(Tail(a)) = Len(cs)
          /\ \A i \in 1..Len(Tail(a)) : Tail(a)[i] = a[i + 1]
      BY <2>1, <3>2, HeadTailProperties
    <3>4. KeysUnique(Tail(a))
      <4>. SUFFICES ASSUME NEW i \in 1..Len(Tail(a)), NEW j \in 1..Len(Tail(a)),
                          Tail(a)[i].key = Tail(a)[j].key
                   PROVE  i = j
        BY DEF KeysUnique
      <4>1. i + 1 \in 1..Len(a) /\ j + 1 \in 1..Len(a)
        BY <2>1, <3>3, <1>0
      <4>2. a[i + 1].key = a[j + 1].key
        BY <3>3
      <4>3. i + 1 = j + 1
        BY <4>1, <4>2, <2>2, Zenon DEF KeysUnique
      <4>. QED  BY <4>3
    <3>5. \A i \in 1..Len(Tail(a)) : Tail(a)[i] = e \/ \E j \in 1..Len(cs) : Tail(a)[i] = cs[j]
      BY <2>1, <2>3, <3>3, <1>0
    <3>6. Len(Tail(a)) <= CheckedCap
      BY <3>3
    <3>7. UpdateChecked(cs, k, res) = Tail(a)
      BY <2>4, <3>1
    <3>. QED  BY <3>3, <3>4, <3>5, <3>6, <3>7, Zenon
  <2>6. CASE ~(Len(a) > CheckedCap)
    <3>1. DropFront(a) = a
      BY <2>6 DEF DropFront
    <3>2. Len(a) <= CheckedCap
      BY <2>6, <2>1
    <3>3. UpdateChecked(cs, k, res) = a
      BY <2>4, <3>1
    <3>. QED  BY <2>1, <2>2, <2>3, <3>2, <3>3, Zenon
  <2>. QED  BY <2>5, <2>6
<1>. QED  BY <1>1, <1>2

(* checked() answers Ok only for a key whose Ok some thread recorded.     *)
LEMMA CheckedOfOk ==
    ASSUME checked \in Seq(Entries), CheckedUnique, OkRecorded,
           NEW r, CheckedOf(r) = "Ok"
    PROVE  Key(r) \in passedEver
<1>1. Matching(r) # {}
  BY DEF CheckedOf
<1>2. PICK m \in Matching(r) : TRUE
  BY <1>1
<1>3. Matching(r) = {m}
  BY <1>2 DEF Matching, CheckedUnique
<1>4. checked[m].passed = "Ok" /\ checked[m].key = Key(r)
  BY <1>1, <1>2, <1>3 DEF CheckedOf, Matching
<1>. QED  BY <1>2, <1>4 DEF OkRecorded, Matching

-----------------------------------------------------------------------------
(* The initial state satisfies the inductive invariant. *)
LEMMA InitIInv == Init => IInv
<1>. SUFFICES ASSUME Init PROVE IInv
  OBVIOUS
<1>. USE SubmitterAssumption
<1>1. TypeOK
  <2>1. /\ <<>> \in Seq(Requests) /\ <<>> \in Seq(1..0) /\ <<>> \in Seq(Entries)
        /\ Len(<<>>) = 0 /\ DOMAIN <<>> = {}
    BY EmptySeq
  <2>2. /\ sent \in Seq(Requests) /\ Len(sent) <= MaxSends
        /\ chan \in Seq(1..Len(sent)) /\ Len(chan) <= 1
        /\ lcur \in 0..Len(sent)
        /\ checked \in Seq(Entries) /\ Len(checked) <= CheckedCap
    BY <2>1 DEF Init
  <2>3. lpc \in {"recv", "spawn"} /\ lpassed \in BOOLEAN
    BY Zenon DEF Init
  <2>4. /\ DOMAIN history \subseteq Slots /\ \A s \in DOMAIN history : history[s] \in Values
        /\ DOMAIN th \subseteq 1..Len(sent) /\ \A i \in DOMAIN th : th[i] \in ThreadState
        /\ dropped \subseteq 1..Len(sent) /\ passedEver \subseteq Slots \X Attrs
        /\ recorded \subseteq Slots \X Values
    BY <2>1 DEF Init
  <2>. QED  BY <2>2, <2>3, <2>4 DEF TypeOK
<1>. QED  BY <1>1 DEF Init, IInv, CheckedUnique, OkRecorded, ListenPassed, OptimisticAfterPass

(* Relay::submit_block appends a request; everything indexed into sent    *)
(* before keeps its request.                                               *)
LEMMA SendIInv ==
    ASSUME IInv, NEW r \in Requests, Send(r)
    PROVE  IInv'
<1>. USE SubmitterAssumption
<1>1. /\ sent' \in Seq(Requests) /\ Len(sent') = Len(sent) + 1
      /\ \A i \in 1..Len(sent) : sent'[i] = sent[i]
  BY AppendProperties DEF Send, IInv, TypeOK
<1>2. TypeOK'
  BY <1>1 DEF Send, IInv, TypeOK
<1>3. OptimisticAfterPass'
  BY <1>1 DEF Send, IInv, TypeOK, OptimisticAfterPass
<1>4. ListenPassed'
  BY <1>1 DEF Send, IInv, TypeOK, ListenPassed
<1>. QED  BY <1>2, <1>3, <1>4 DEF Send, IInv, CheckedUnique, OkRecorded

(* listen receives a request: lpassed is what checked() answered, which   *)
(* is Ok only for a key that passed.                                       *)
LEMMA ListenRecvIInv ==
    ASSUME IInv, ListenRecv
    PROVE  IInv'
<1>. USE SubmitterAssumption
<1>. DEFINE i == Head(chan)
            c == CheckedOf(sent[i])
<1>1. chan # <<>> /\ chan \in Seq(1..Len(sent)) /\ Len(chan) <= 1
  BY DEF ListenRecv, IInv, TypeOK
<1>2. /\ i \in 1..Len(sent)
      /\ Tail(chan) \in Seq(1..Len(sent)) /\ Len(Tail(chan)) <= 1
  BY <1>1, HeadTailProperties
<1>3. chan' = Tail(chan)
  BY DEF ListenRecv
<1>4. c = "Ok" => Key(sent[i]) \in passedEver
  BY CheckedOfOk DEF IInv, TypeOK
<1>5. CASE c \in {"Timeout", "Rejected"}
  <2>1. dropped' = dropped \cup {i} /\ UNCHANGED <<lpc, lcur, lpassed>>
    BY <1>5 DEF ListenRecv
  <2>3. TypeOK'
    BY <1>2, <1>3, <2>1 DEF ListenRecv, IInv, TypeOK
  <2>. QED  BY <2>1, <2>3
           DEF ListenRecv, IInv, CheckedUnique, OkRecorded, ListenPassed, OptimisticAfterPass
<1>6. CASE c \notin {"Timeout", "Rejected"}
  <2>1. lpc' = "spawn" /\ lcur' = i /\ lpassed' = (c = "Ok") /\ UNCHANGED dropped
    BY <1>6 DEF ListenRecv
  <2>2. ListenPassed'
    BY <1>2, <1>4, <2>1 DEF ListenRecv, ListenPassed
  <2>3. TypeOK'
    BY <1>2, <1>3, <2>1 DEF ListenRecv, IInv, TypeOK
  <2>. QED  BY <2>2, <2>3 DEF ListenRecv, IInv, CheckedUnique, OkRecorded, OptimisticAfterPass
<1>. QED  BY <1>5, <1>6

(* listen spawns a submit thread: its optimistic flag is lpassed, which   *)
(* ListenPassed ties to a passed key.                                     *)
LEMMA ListenSpawnIInv ==
    ASSUME IInv, ListenSpawn
    PROVE  IInv'
<1>. USE SubmitterAssumption
<1>1. lcur \in 1..Len(sent) /\ (lpassed => Key(sent[lcur]) \in passedEver)
  BY DEF ListenSpawn, IInv, ListenPassed
<1>2. ListenPassed'
  BY DEF ListenSpawn, ListenPassed
<1>3. CASE ProfitSmallerThanHistory(sent[lcur])
  <2>1. dropped' = dropped \cup {lcur} /\ th' = th
    BY <1>3 DEF ListenSpawn
  <2>. QED  BY <1>1, <1>2, <2>1
           DEF ListenSpawn, IInv, TypeOK, CheckedUnique, OkRecorded, OptimisticAfterPass
<1>4. CASE ~ProfitSmallerThanHistory(sent[lcur])
  <2>. DEFINE rec == [test |-> IsOptimistic /\ ~lpassed,
                      optim |-> IsOptimistic /\ lpassed,
                      pc |-> "history", result |-> "Ok"]
  <2>1. /\ th' = [x \in DOMAIN th \cup {lcur} |-> IF x = lcur THEN rec ELSE th[x]]
        /\ dropped' = dropped
    BY <1>4 DEF ListenSpawn
  <2>2. rec \in ThreadState
    <3>1. lpassed \in BOOLEAN /\ IsOptimistic \in BOOLEAN
      BY DEF IInv, TypeOK
    <3>2. (IsOptimistic /\ ~lpassed) \in BOOLEAN /\ (IsOptimistic /\ lpassed) \in BOOLEAN
      BY <3>1, Zenon
    <3>. QED  BY <3>2 DEF ThreadState, Results
  <2>3. TypeOK'
    BY <1>1, <2>1, <2>2 DEF ListenSpawn, IInv, TypeOK
  <2>4. OptimisticAfterPass'
    BY <1>1, <2>1 DEF ListenSpawn, IInv, OptimisticAfterPass
  <2>. QED  BY <1>2, <2>3, <2>4 DEF ListenSpawn, IInv, CheckedUnique, OkRecorded
<1>. QED  BY <1>3, <1>4

(* A submit thread records its value in history. *)
LEMMA RecordHistoryIInv ==
    ASSUME IInv, NEW i \in DOMAIN th, NEW res \in Results, RecordHistory(i, res)
    PROVE  IInv'
<1>. USE SubmitterAssumption
<1>. DEFINE r == sent[i]
            h1 == Raised(history, r.slot, r.value)
<1>1. r \in Requests
  BY DEF IInv, TypeOK
<1>2. DOMAIN h1 \subseteq Slots /\ \A s \in DOMAIN h1 : h1[s] \in Values
  BY <1>1 DEF Raised, IInv, TypeOK, Requests
<1>3. DOMAIN PopFirst(h1) \subseteq Slots /\ \A s \in DOMAIN PopFirst(h1) : PopFirst(h1)[s] \in Values
  BY <1>2 DEF PopFirst
<1>4. th[i] \in ThreadState
  BY DEF IInv, TypeOK
<1>5. [th EXCEPT ![i].pc = "checked", ![i].result = res][i] \in ThreadState
  BY <1>4 DEF ThreadState
<1>6. TypeOK'
  BY <1>1, <1>3, <1>5 DEF RecordHistory, IInv, TypeOK, Requests
<1>7. OptimisticAfterPass'
  BY DEF RecordHistory, IInv, OptimisticAfterPass
<1>. QED  BY <1>6, <1>7 DEF RecordHistory, IInv, CheckedUnique, OkRecorded, ListenPassed

(* A submit thread records its answer in checked_state. *)
LEMMA RecordCheckedIInv ==
    ASSUME IInv, NEW i \in DOMAIN th, RecordChecked(i)
    PROVE  IInv'
<1>. USE SubmitterAssumption
<1>. DEFINE k == Key(sent[i])
            res == th[i].result
<1>1. k \in Slots \X Attrs /\ res \in Results
  <2>1. i \in 1..Len(sent) /\ sent \in Seq(Requests) /\ th[i] \in ThreadState
    BY DEF IInv, TypeOK
  <2>2. sent[i] \in Requests
    BY <2>1
  <2>3. k \in Slots \X Attrs
    BY <2>2 DEF Key, Requests
  <2>. QED  BY <2>1, <2>3 DEF ThreadState
<1>2. /\ checked' \in Seq(Entries) /\ Len(checked') <= CheckedCap
      /\ KeysUnique(checked')
      /\ \A j \in 1..Len(checked') :
            checked'[j] = [key |-> k, passed |-> res] \/ \E m \in 1..Len(checked) : checked'[j] = checked[m]
  <2>1. checked' = UpdateChecked(checked, k, res)
    BY DEF RecordChecked
  <2>2. checked \in Seq(Entries) /\ Len(checked) <= CheckedCap /\ KeysUnique(checked)
    BY DEF IInv, TypeOK, CheckedUnique, KeysUnique
  <2>. QED  BY <1>1, <2>1, <2>2, UpdateCheckedFacts
<1>3. passedEver \subseteq passedEver' /\ (res = "Ok" => k \in passedEver')
  BY DEF RecordChecked
<1>4. OkRecorded'
  <2>. SUFFICES ASSUME NEW j \in 1..Len(checked'), checked'[j].passed = "Ok"
               PROVE  checked'[j].key \in passedEver'
    BY DEF OkRecorded
  <2>1. CASE checked'[j] = [key |-> k, passed |-> res]
    BY <1>3, <2>1
  <2>2. CASE \E m \in 1..Len(checked) : checked'[j] = checked[m]
    BY <1>3, <2>2 DEF IInv, OkRecorded
  <2>. QED  BY <1>2, <2>1, <2>2
<1>5. th[i] \in ThreadState
  BY DEF IInv, TypeOK
<1>6. TypeOK'
  <2>1. [th EXCEPT ![i].pc = "done"][i] \in ThreadState
    BY <1>5 DEF ThreadState
  <2>2. passedEver' \subseteq Slots \X Attrs
    BY <1>1 DEF RecordChecked, IInv, TypeOK
  <2>. QED  BY <1>2, <2>1, <2>2 DEF RecordChecked, IInv, TypeOK
<1>7. OptimisticAfterPass'
  BY <1>3 DEF RecordChecked, IInv, OptimisticAfterPass
<1>8. ListenPassed'
  BY <1>3 DEF RecordChecked, IInv, ListenPassed
<1>9. CheckedUnique'
  BY <1>2 DEF CheckedUnique, KeysUnique
<1>. QED  BY <1>4, <1>6, <1>7, <1>8, <1>9 DEF IInv

(* Every step of listen and the submit threads keeps the invariant. *)
LEMMA NextIInv == IInv /\ [Next]_vars => IInv'
<1>. SUFFICES ASSUME IInv, [Next]_vars PROVE IInv'
  OBVIOUS
<1>1. CASE \E r \in Requests : Send(r)
  BY <1>1, SendIInv
<1>2. CASE ListenRecv
  BY <1>2, ListenRecvIInv
<1>3. CASE ListenSpawn
  BY <1>3, ListenSpawnIInv
<1>4. CASE \E i \in DOMAIN th, res \in Results : RecordHistory(i, res)
  BY <1>4, RecordHistoryIInv
<1>5. CASE \E i \in DOMAIN th : RecordChecked(i)
  BY <1>5, RecordCheckedIInv
<1>6. CASE UNCHANGED vars
  BY <1>6 DEF vars, IInv, TypeOK, CheckedUnique, OkRecorded, ListenPassed,
             OptimisticAfterPass, Key, Matching
<1>. QED  BY <1>1, <1>2, <1>3, <1>4, <1>5, <1>6 DEF Next, Listen, Thread

-----------------------------------------------------------------------------
(* The inductive invariant holds in every reachable state. *)
THEOREM IInvHolds == Spec => []IInv
BY InitIInv, NextIInv, PTL DEF Spec

(* checked_state never outgrows its cap and every variable has its type,  *)
(* however the submit threads' pushes and trims interleave.               *)
THEOREM TypeCorrect == Spec => []TypeOK
BY IInvHolds, PTL DEF IInv

(* checked_state holds one entry per payload key, so checked() cannot     *)
(* return a stale answer for a key that was answered again.               *)
THEOREM CheckedUniqueHolds == Spec => []CheckedUnique
BY IInvHolds, PTL DEF IInv

(* On an optimistic relay, a block is submitted in optimistic mode only   *)
(* for a payload key whose earlier test-key submission the relay          *)
(* answered Ok, however listen's checked() read and the submit threads'   *)
(* updates interleave.                                                     *)
THEOREM OptimisticAfterPassHolds == Spec => []OptimisticAfterPass
BY IInvHolds, PTL DEF IInv

=============================================================================
