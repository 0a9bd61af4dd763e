--------------------------- MODULE RelayValidators ---------------------------
(***************************************************************************)
(* The relay's validator registry (src/common/mev_boost/src/relay.rs):     *)
(* one fetch thread per relay endpoint polls /relay/v1/builder/validators  *)
(* every second and merges the answer into one RelayValidatorMap under a   *)
(* mutex: a new slot gets the validator with the relay's name, a known     *)
(* slot gains the name, and the map is trimmed from its lowest slot to 64  *)
(* entries.  An item whose pubkey does not parse ends update early with    *)
(* InvalidValidatorPubkey.  BuildService reads the map with try_get and   *)
(* submit_block sends the block to the relays of the entry's names.       *)
(* A response is the duty list of the slots ahead of the current one,      *)
(* each item good or with a bad pubkey.                                    *)
(***************************************************************************)
EXTENDS Integers, Sequences, FiniteSets

CONSTANTS
    Relays,      \* the configured relay names
    Cap,         \* the 64 entries update keeps
    Ahead,       \* how many slots ahead a relay's duty list reaches
    MaxSlot      \* bound on the current slot

ASSUME RelayValidatorsAssumption ==
    /\ Cap \in Nat \ {0} /\ Ahead \in Nat \ {0} /\ MaxSlot \in Nat

(* A relay's duty list covers the current and the next epoch, 2 * 32     *)
(* slots, and update keeps 64 entries: no list reaches past what the map  *)
(* holds.                                                                  *)
ASSUME WindowAssumption == Ahead <= Cap

VARIABLES
    slot,        \* the current beacon slot
    data,        \* data: BTreeMap<u64, ValidatorData>, slot -> relay names
    announced    \* pairs <<r, s>> of an item update handled (history)

vars == <<slot, data, announced>>

-----------------------------------------------------------------------------
(* A duty list: the items of some of the slots slot+1 .. slot+Ahead in     *)
(* slot order, each with a pubkey that parses or not.                      *)
Responses ==
    UNION {[1..n -> [slot : slot + 1..slot + Ahead, good : BOOLEAN]] : n \in 1..Ahead}

Ordered(resp) == \A i \in 1..Len(resp) - 1 : resp[i].slot < resp[i + 1].slot

(* The items update handles: all of them, or those before the first bad  *)
(* pubkey of a slot that is not in the map yet (the ? of from_hex).       *)
Stop(m, resp) ==
    LET bad == {i \in 1..Len(resp) : ~resp[i].good /\ resp[i].slot \notin DOMAIN m}
    IN  IF bad = {} THEN Len(resp) + 1
        ELSE CHOOSE i \in bad : \A j \in bad : i <= j

Slots(items) == {items[i].slot : i \in DOMAIN items}

(* Mutant: a vacant slot's entry is created without the relay's name. *)
MergeNoName(m, r, items) ==
    [s \in DOMAIN m \cup Slots(items) |->
        IF s \notin Slots(items) THEN m[s]
        ELSE IF s \in DOMAIN m THEN m[s] \cup {r} ELSE {}]

(* The items handled, merged into the map: an occupied slot gains the     *)
(* name, a vacant one gets an entry with the name alone.                  *)
Merge(m, r, items) ==
    [s \in DOMAIN m \cup Slots(items) |->
        IF s \notin Slots(items) THEN m[s]
        ELSE IF s \in DOMAIN m THEN m[s] \cup {r} ELSE {r}]

(* Mutant: the trim drops the highest slots (pop_last). *)
TrimHighest(m) ==
    LET keep == {s \in DOMAIN m : Cardinality({x \in DOMAIN m : x < s}) < Cap}
    IN  [s \in keep |-> m[s]]

(* while data.len() > 64 { data.pop_first() }. *)
Trim(m) ==
    LET keep == {s \in DOMAIN m : Cardinality({x \in DOMAIN m : x > s}) < Cap}
    IN  [s \in keep |-> m[s]]

-----------------------------------------------------------------------------
Init ==
    /\ slot = 0
    /\ data = [s \in {} |-> {}]
    /\ announced = {}

NextSlot ==
    /\ slot < MaxSlot
    /\ slot' = slot + 1
    /\ UNCHANGED <<data, announced>>

(* fetch_and_update_validator for relay r with a fetched duty list. *)
Update(r, resp) ==
    /\ Ordered(resp)
    /\ LET k == Stop(data, resp)
           items == SubSeq(resp, 1, k - 1)
           merged == Merge(data, r, items)
       IN  /\ data' = IF k > Len(resp) THEN Trim(merged) ELSE merged
           /\ announced' = announced \cup {<<r, s>> : s \in Slots(items)}
    /\ UNCHANGED slot

Next ==
    \/ NextSlot
    \/ \E r \in Relays, resp \in Responses : Update(r, resp)

Spec == Init /\ [][Next]_vars

-----------------------------------------------------------------------------
(* Every variable has its type. *)
TypeOK ==
    /\ slot \in 0..MaxSlot
    /\ DOMAIN data \subseteq 1..MaxSlot + Ahead
    /\ \A s \in DOMAIN data : data[s] \subseteq Relays /\ data[s] # {}
    /\ announced \subseteq Relays \X (1..MaxSlot + Ahead)

(* try_get(slot + 1) finds every duty a relay announced for a slot still  *)
(* ahead, and submit_block reaches every relay that announced it: the     *)
(* trim drops the lowest slots only, and a duty list reaches no further   *)
(* than the map holds (two epochs of 32 slots against 64 entries).        *)
FutureKept ==
    \A a \in announced : a[2] > slot => a[2] \in DOMAIN data /\ a[1] \in data[a[2]]

=============================================================================
