------------------------------ MODULE BundlePool ------------------------------
(***************************************************************************)
(* The bundle pool (src/common/txpool/src/bundle.rs): the live bundles    *)
(* by uuid and a history of BundleStat, newest first, capped at 100       *)
(* entries, all under one mutex.  add comes from the mempool's            *)
(* send_bundle and the builder's collect-tx thread; list from every build *)
(* round and the mempool API; set_history from BuildService after a       *)
(* submitted block and from send_bundle for a bundle that arrives too     *)
(* late.  A bundle is a model value with its uuid, block number and       *)
(* timestamp window; its hash is the model value itself.                  *)
(***************************************************************************)
EXTENDS Integers, Sequences, FiniteSets

CONSTANTS
    Bundles,     \* bundles (their hashes)
    Uuid,        \* Uuid[b]: bundle.uuid
    BlockOf,     \* BlockOf[b]: bundle.block_number
    MinTs,       \* MinTs[b]: min_timestamp.unwrap_or(0)
    MaxTs,       \* MaxTs[b]: max_timestamp.unwrap_or(u64::MAX)
    Times,       \* block timestamps list() is called with
    MaxBlock,    \* bound on the head block number
    HistCap      \* the 100 entries history keeps

Uuids == {Uuid[b] : b \in Bundles}
Statuses == {"unknown", "pending", "replaced", "expired", "submitted",
             "reverted", "tooLate"}

ASSUME BundlePoolAssumption ==
    /\ BlockOf \in [Bundles -> Nat] /\ MinTs \in [Bundles -> Nat]
    /\ MaxTs \in [Bundles -> Nat] /\ Times \subseteq Nat
    /\ MaxBlock \in Nat /\ HistCap \in Nat \ {0}

VARIABLES
    pool,      \* uuid: BTreeMap<String, Arc<Bundle>>, as a function
    history,   \* history: Vec<BundleStat>, entries [h, st]
    head,      \* the head block number the pool's users see
    listed     \* bundles some list() returned (history variable)

vars == <<pool, history, head, listed>>

-----------------------------------------------------------------------------
(* BundlePoolList::get_stat: the first entry of the bundle's hash, or a   *)
(* new "unknown" entry inserted at the front, the history then truncated  *)
(* to 100.  Returns the history and the entry's index.                    *)
StatIdx(hist, b) == {i \in 1..Len(hist) : hist[i].h = b}

(* Mutant: the new entry is inserted without the truncate(100). *)
GetStatNoTruncate(hist, b) ==
    IF StatIdx(hist, b) # {}
    THEN [hist |-> hist, idx |-> CHOOSE i \in StatIdx(hist, b) :
                                    \A j \in StatIdx(hist, b) : i <= j]
    ELSE [hist |-> <<[h |-> b, st |-> "unknown"]>> \o hist, idx |-> 1]

(* Mutant: get_stat inserts without looking for the hash first. *)
GetStatAlwaysInsert(hist, b) ==
    LET h1 == <<[h |-> b, st |-> "unknown"]>> \o hist
    IN  [hist |-> IF Len(h1) > HistCap THEN SubSeq(h1, 1, HistCap) ELSE h1, idx |-> 1]

GetStat(hist, b) ==
    IF StatIdx(hist, b) # {}
    THEN [hist |-> hist, idx |-> CHOOSE i \in StatIdx(hist, b) :
                                    \A j \in StatIdx(hist, b) : i <= j]
    ELSE LET h1 == <<[h |-> b, st |-> "unknown"]>> \o hist
         IN  [hist |-> IF Len(h1) > HistCap THEN SubSeq(h1, 1, HistCap) ELSE h1,
              idx |-> 1]

SetStat(hist, b, st) ==
    LET g == GetStat(hist, b) IN [g.hist EXCEPT ![g.idx].st = st]

(* Mutant: the new bundle is marked pending before the old one replaced. *)
AddHistoryPendingFirst(hist, old, b) ==
    LET h1 == SetStat(hist, b, "pending")
    IN  IF old = {} THEN h1
        ELSE LET o == CHOOSE x \in old : TRUE
                 g == GetStat(h1, o)
             IN  IF g.hist[g.idx].st # "submitted"
                 THEN [g.hist EXCEPT ![g.idx].st = "replaced"] ELSE g.hist

(* BundlePool::add: the previous bundle of the uuid becomes "replaced"    *)
(* unless it is "submitted"; the new one becomes "pending".               *)
AddHistory(hist, old, b) ==
    LET h1 == IF old = {} THEN hist
              ELSE LET o == CHOOSE x \in old : TRUE
                       g == GetStat(hist, o)
                   IN  IF g.hist[g.idx].st # "submitted"
                       THEN [g.hist EXCEPT ![g.idx].st = "replaced"] ELSE g.hist
    IN  SetStat(h1, b, "pending")

(* list(block_number, timestamp): the bundles whose window has passed.   *)
Expired(b, n, ts) == n > BlockOf[b] \/ ts > MaxTs[b]
InWindow(b, n, ts) == ~Expired(b, n, ts) /\ n >= BlockOf[b] /\ ts >= MinTs[b]

(* The removed bundles are marked "expired" in uuid order. *)
ExpireAll(hist, E) ==
    LET es == [i \in 1..Cardinality(E) |->
                 CHOOSE b \in E : Cardinality({x \in E : Uuid[x] < Uuid[b]}) = i - 1]
        st[k \in 0..Len(es)] == IF k = 0 THEN hist ELSE SetStat(st[k - 1], es[k], "expired")
    IN  st[Len(es)]

-----------------------------------------------------------------------------
Init ==
    /\ pool = [u \in {} |-> CHOOSE b \in Bundles : TRUE]
    /\ history = <<>>
    /\ head = 0
    /\ listed = {}

Add(b) ==
    LET old == IF Uuid[b] \in DOMAIN pool THEN {pool[Uuid[b]]} ELSE {} IN
    /\ pool' = [u \in DOMAIN pool \cup {Uuid[b]} |-> IF u = Uuid[b] THEN b ELSE pool[u]]
    /\ history' = AddHistory(history, old, b)
    /\ UNCHANGED <<head, listed>>

(* BundlePool::list for the next block, at any of the timestamps. *)
List(ts) ==
    LET n == head + 1
        E == {pool[u] : u \in {u \in DOMAIN pool : Expired(pool[u], n, ts)}}
    IN  /\ pool' = [u \in {u \in DOMAIN pool : ~Expired(pool[u], n, ts)} |-> pool[u]]
        /\ history' = ExpireAll(history, E)
        /\ listed' = listed \cup {pool[u] : u \in {u \in DOMAIN pool : InWindow(pool[u], n, ts)}}
        /\ UNCHANGED head

(* BuildService: a submitted block's bundles get their round's status.   *)
SetBuildStatus(b, st) ==
    /\ b \in listed
    /\ history' = SetStat(history, b, st)
    /\ UNCHANGED <<pool, head, listed>>

(* send_bundle: a bundle whose block is the head's or older, or whose     *)
(* next block time has passed, is recorded "too late" and not added.     *)
TooLate(b) ==
    /\ BlockOf[b] <= head + 1
    /\ history' = SetStat(history, b, "tooLate")
    /\ UNCHANGED <<pool, head, listed>>

NewHead ==
    /\ head < MaxBlock
    /\ head' = head + 1
    /\ UNCHANGED <<pool, history, listed>>

Next ==
    \/ \E b \in Bundles : Add(b) \/ TooLate(b)
    \/ \E ts \in Times : List(ts)
    \/ \E b \in Bundles, st \in {"submitted", "reverted"} : SetBuildStatus(b, st)
    \/ NewHead

Spec == Init /\ [][Next]_vars

-----------------------------------------------------------------------------
(* Every variable has its type and the history keeps at most 100 entries. *)
TypeOK ==
    /\ DOMAIN pool \subseteq Uuids /\ \A u \in DOMAIN pool : pool[u] \in Bundles
    /\ history \in Seq([h : Bundles, st : Statuses]) /\ Len(history) <= HistCap
    /\ head \in 0..MaxBlock /\ listed \subseteq Bundles

(* get_stat finds a bundle's entry before it inserts one, so the history  *)
(* holds at most one entry per bundle hash and every status update lands  *)
(* on the entry the stat API reports.                                     *)
HistoryUnique ==
    \A i, j \in 1..Len(history) : history[i].h = history[j].h => i = j

(* A bundle the pool still offers is never recorded "replaced" or         *)
(* "expired": add marks the old bundle of the uuid before it marks the    *)
(* new one pending, and list marks only the bundles it removes.           *)
LiveNotRetired ==
    \A u \in DOMAIN pool :
        \A i \in StatIdx(history, pool[u]) : history[i].st \notin {"replaced", "expired"}

=============================================================================
