----------------------- MODULE RelayValidators_proofs -----------------------
(***************************************************************************)
(* Proofs about the relay's validator registry (RelayValidators), for     *)
(* every set of relays, every map size Cap, every reach Ahead <= Cap of a *)
(* duty list and every number of slots.                                   *)
(*                                                                         *)
(* FutureKept is not inductive as it stands: the trim of update keeps an  *)
(* announced slot ahead of the current one only because no key of the    *)
(* map lies further than Ahead slots ahead (Window), so that fewer than   *)
(* Cap keys can be above it.  Window holds because every duty list       *)
(* starts after the slot current when it is fetched and the slot only    *)
(* grows.                                                                 *)
(***************************************************************************)
EXTENDS RelayValidators, FiniteSetTheorems, SequenceTheorems, WellFoundedInduction, TLAPS

(* No key of the map is more than Ahead slots ahead of the current slot. *)
Window == \A s \in DOMAIN data : s <= slot + Ahead

IInv == TypeOK /\ Window /\ FutureKept

Item == [slot : Nat, good : BOOLEAN]

-----------------------------------------------------------------------------
(* update stops at the least bad item, or handles all of them: the CHOOSE *)
(* of Stop is a real minimum because < is well founded on Nat.           *)
LEMMA StopRange ==
    ASSUME NEW m, NEW resp \in Seq(Item)
    PROVE  Stop(m, resp) \in 1..Len(resp) + 1
<1>. DEFINE bad == {i \in 1..Len(resp) : ~resp[i].good /\ resp[i].slot \notin DOMAIN m}
<1>1. CASE bad = {}
  BY <1>1 DEF Stop
<1>2. CASE bad # {}
  <2>1. bad \subseteq Nat
    OBVIOUS
  <2>2. \E x \in bad : \A y \in bad : ~(<<y, x>> \in OpToRel(<, Nat))
    BY <1>2, <2>1, NatLessThanWellFounded, WFMin
  <2>3. PICK x \in bad : \A y \in bad : ~(<<y, x>> \in OpToRel(<, Nat))
    BY <2>2
  <2>4. \A y \in bad : y < x => <<y, x>> \in OpToRel(<, Nat)
    BY <2>1, Zenon DEF OpToRel
  <2>5. \A y \in bad : ~(y < x)
    BY <2>3, <2>4, Zenon
  <2>7. \E x1 \in bad : \A y \in bad : x1 <= y
    BY <2>1, <2>5
  <2>6. (CHOOSE i \in bad : \A j \in bad : i <= j) \in bad
    BY <2>7
  <2>. QED  BY <1>2, <2>6 DEF Stop
<1>. QED  BY <1>1, <1>2

(* The items handled are a prefix of the duty list, so their slots are   *)
(* slots of the list.                                                     *)
LEMMA ItemSlots ==
    ASSUME NEW resp \in Seq(Item), NEW k \in 1..Len(resp) + 1, NEW lo \in Int,
           NEW hi \in Int, \A i \in 1..Len(resp) : resp[i].slot \in lo..hi
    PROVE  Slots(SubSeq(resp, 1, k - 1)) \subseteq lo..hi
BY DEF Slots

(* pop_first until 64 entries are left keeps a key when fewer than Cap   *)
(* keys lie above it, and changes no entry it keeps.                      *)
LEMMA TrimKeeps ==
    ASSUME NEW m, NEW b \in Int, DOMAIN m \subseteq Int,
           \A x \in DOMAIN m : x <= b,
           NEW s \in DOMAIN m, b - s < Cap
    PROVE  s \in DOMAIN Trim(m)
<1>. DEFINE above == {x \in DOMAIN m : x > s}
<1>1. above \subseteq s + 1..b
  OBVIOUS
<1>2. IsFiniteSet(s + 1..b) /\ Cardinality(s + 1..b) = IF s + 1 > b THEN 0 ELSE b - s
  BY FS_Interval
<1>3. Cardinality(above) <= Cardinality(s + 1..b)
  BY <1>1, <1>2, FS_Subset
<1>4. Cardinality(s + 1..b) < Cap
  BY <1>2, RelayValidatorsAssumption
<1>6. Cardinality(above) \in Nat
  BY <1>1, <1>2, FS_Subset, FS_CardinalityType
<1>5. Cardinality(above) < Cap
  BY <1>2, <1>3, <1>4, <1>6, RelayValidatorsAssumption
<1>. QED  BY <1>5 DEF Trim

LEMMA TrimSub ==
    ASSUME NEW m
    PROVE  /\ DOMAIN Trim(m) \subseteq DOMAIN m
           /\ \A s \in DOMAIN Trim(m) : Trim(m)[s] = m[s]
BY DEF Trim

-----------------------------------------------------------------------------
LEMMA InitIInv == Init => IInv
BY RelayValidatorsAssumption DEF Init, IInv, TypeOK, Window, FutureKept

(* The slot advancing keeps every key and every announcement within the  *)
(* window, which only moves up.                                          *)
LEMMA NextSlotIInv ==
    ASSUME IInv, NextSlot
    PROVE  IInv'
<1>1. TypeOK'
  BY RelayValidatorsAssumption DEF IInv, TypeOK, NextSlot
<1>2. Window'
  BY RelayValidatorsAssumption DEF IInv, TypeOK, Window, NextSlot
<1>3. FutureKept'
  BY RelayValidatorsAssumption DEF IInv, TypeOK, FutureKept, NextSlot
<1>. QED  BY <1>1, <1>2, <1>3 DEF IInv

(* A duty list is a sequence of items for the slots of the window.       *)
LEMMA ResponseFacts ==
    ASSUME NEW resp \in Responses, slot \in Nat
    PROVE  /\ resp \in Seq(Item)
           /\ \A i \in 1..Len(resp) : resp[i].slot \in slot + 1..slot + Ahead
<1>1. PICK n \in 1..Ahead : resp \in [1..n -> [slot : slot + 1..slot + Ahead, good : BOOLEAN]]
  BY DEF Responses
<1>2. resp \in [1..n -> Item]
  BY <1>1, RelayValidatorsAssumption DEF Item
<1>3. resp \in Seq(Item)
  BY <1>2, SeqDef, RelayValidatorsAssumption
<1>4. DOMAIN resp = 1..Len(resp)
  BY <1>3, LenProperties
<1>. QED  BY <1>1, <1>3, <1>4

(* fetch_and_update_validator: whatever prefix of the duty list update   *)
(* handles before a bad pubkey, and whether or not it then trims, every  *)
(* announced slot still ahead keeps its entry with all its names.        *)
LEMMA UpdateIInv ==
    ASSUME IInv, NEW r \in Relays, NEW resp \in Responses, Update(r, resp)
    PROVE  IInv'
<1>. DEFINE k == Stop(data, resp)
            items == SubSeq(resp, 1, k - 1)
            mg == Merge(data, r, items)
<1>0. /\ slot \in 0..MaxSlot /\ DOMAIN data \subseteq 1..MaxSlot + Ahead
      /\ \A s \in DOMAIN data : data[s] \subseteq Relays /\ data[s] # {}
      /\ announced \subseteq Relays \X (1..MaxSlot + Ahead)
  BY DEF IInv, TypeOK
<1>1. /\ resp \in Seq(Item)
      /\ \A i \in 1..Len(resp) : resp[i].slot \in slot + 1..slot + Ahead
  BY <1>0, ResponseFacts
<1>2. k \in 1..Len(resp) + 1
  BY <1>1, StopRange
<1>3. Slots(items) \subseteq slot + 1..slot + Ahead
  <2>1. slot + 1 \in Int /\ slot + Ahead \in Int
    BY <1>0, RelayValidatorsAssumption
  <2>. QED  BY <1>1, <1>2, <2>1, ItemSlots, Zenon
<1>4. /\ DOMAIN mg = DOMAIN data \cup Slots(items)
      /\ \A s \in DOMAIN data : data[s] \subseteq mg[s] /\ mg[s] \subseteq data[s] \cup {r}
      /\ \A s \in DOMAIN mg \ DOMAIN data : mg[s] = {r}
      /\ \A s \in Slots(items) : r \in mg[s]
  BY DEF Merge
<1>5. /\ data' = IF k > Len(resp) THEN Trim(mg) ELSE mg
      /\ announced' = announced \cup {<<r, s>> : s \in Slots(items)}
      /\ slot' = slot
  BY DEF Update
<1>6. \A x \in DOMAIN mg : x \in 1..slot + Ahead
  BY <1>0, <1>3, <1>4 DEF IInv, Window
<1>7. /\ DOMAIN data' \subseteq DOMAIN mg
      /\ \A s \in DOMAIN data' : data'[s] = mg[s]
  BY <1>5, TrimSub
<1>8. \A s \in DOMAIN mg : s > slot => s \in DOMAIN data'
  <2>1. CASE k > Len(resp)
    <3>1. SUFFICES ASSUME NEW s \in DOMAIN mg, s > slot PROVE s \in DOMAIN Trim(mg)
      BY <1>5, <2>1
    <3>2. (slot + Ahead) - s < Cap
      BY <1>0, <1>6, <3>1, RelayValidatorsAssumption, WindowAssumption
    <3>. QED  BY <1>0, <1>6, <3>2, TrimKeeps, RelayValidatorsAssumption
  <2>2. CASE ~(k > Len(resp))
    BY <1>5, <2>2
  <2>. QED  BY <2>1, <2>2
<1>9. TypeOK'
  <2>1. DOMAIN data' \subseteq 1..MaxSlot + Ahead
    BY <1>0, <1>6, <1>7, RelayValidatorsAssumption
  <2>2. \A s \in DOMAIN data' : data'[s] \subseteq Relays /\ data'[s] # {}
    BY <1>0, <1>4, <1>7
  <2>3. announced' \subseteq Relays \X (1..MaxSlot + Ahead)
    BY <1>0, <1>3, <1>5, RelayValidatorsAssumption
  <2>. QED  BY <1>0, <1>5, <2>1, <2>2, <2>3 DEF TypeOK
<1>10. Window'
  BY <1>5, <1>6, <1>7 DEF Window
<1>11. FutureKept'
  <2>1. SUFFICES ASSUME NEW a \in announced', a[2] > slot
                 PROVE  a[2] \in DOMAIN data' /\ a[1] \in data'[a[2]]
    BY <1>5 DEF FutureKept
  <2>2. a[2] \in DOMAIN mg /\ a[1] \in mg[a[2]]
    <3>1. CASE a \in announced
      BY <1>4, <2>1, <3>1 DEF IInv, FutureKept
    <3>2. CASE a \notin announced
      BY <1>4, <1>5, <2>1, <3>2
    <3>. QED  BY <3>1, <3>2
  <2>. QED  BY <1>7, <1>8, <2>1, <2>2
<1>. QED  BY <1>9, <1>10, <1>11 DEF IInv

LEMMA NextIInv == IInv /\ [Next]_vars => IInv'
<1>. SUFFICES ASSUME IInv, [Next]_vars PROVE IInv'
  OBVIOUS
<1>1. CASE NextSlot
  BY <1>1, NextSlotIInv
<1>2. CASE \E r \in Relays, resp \in Responses : Update(r, resp)
  BY <1>2, UpdateIInv
<1>3. CASE UNCHANGED vars
  BY <1>3 DEF vars, IInv, TypeOK, Window, FutureKept
<1>. QED  BY <1>1, <1>2, <1>3 DEF Next

-----------------------------------------------------------------------------
THEOREM IInvHolds == Spec => []IInv
BY InitIInv, NextIInv, PTL DEF Spec

(* The registry stays well typed: every entry names at least one relay   *)
(* and lies in the window of slots the duty lists reach.                 *)
THEOREM TypeCorrect == Spec => []TypeOK
BY IInvHolds, PTL DEF IInv

(* For every number of relays and every map size at least the reach of a *)
(* duty list, try_get finds every duty a relay announced for a slot      *)
(* still ahead, with that relay among its names: update's trim and the   *)
(* early return on a bad pubkey never lose one.                          *)
THEOREM FutureKeptHolds == Spec => []FutureKept
BY IInvHolds, PTL DEF IInv

=============================================================================
