--------------------------- MODULE RelaySubmitter ---------------------------
(***************************************************************************)
(* The submission side of one relay (src/common/mev_boost/src):           *)
(*                                                                         *)
(*   Relay::submit_block  --sync_channel(1)-->  RelaySubmitter::listen     *)
(*        listen: checked() -> is_profit_smaller_than_history -> spawn     *)
(*        one thread per submission: submit_block (HTTP) -> history ->    *)
(*        checked_state                                                    *)
(*                                                                         *)
(* A request is abstracted to its slot, the payload attributes that       *)
(* CheckedState::match_req compares (block number, prev_randao,           *)
(* withdrawals root, one model value for the three) and its value.  The   *)
(* relay's answer is Ok or an error; of the errors only Timeout is told   *)
(* apart, since the code treats them all alike.                           *)
(***************************************************************************)
EXTENDS Integers, Sequences, FiniteSets

CONSTANTS
    Slots,          \* beacon slots the builder submits for
    Attrs,          \* (block number, prev_randao, withdrawals root) triples
    Values,         \* bid values (message.value)
    IsOptimistic,   \* name.ends_with("_optim")
    CheckedCap,     \* the 100 entries checked_state keeps
    MaxSends        \* bound on the requests the builder sends

(* The relay's answers as submit_block maps them. *)
Results == {"Ok", "Timeout", "Rejected"}

ASSUME SubmitterAssumption ==
    /\ Slots \subseteq Nat /\ Slots # {}
    /\ Values \subseteq Nat /\ Attrs # {}
    /\ IsOptimistic \in BOOLEAN
    /\ CheckedCap \in Nat \ {0}
    /\ MaxSends \in Nat

Requests == [slot : Slots, attrs : Attrs, value : Values]

(* What CheckedState::match_req compares. *)
Key(r) == <<r.slot, r.attrs>>

VARIABLES
    sent,        \* every request Relay::submit_block sent, in order
    chan,        \* the sync_channel(1): indexes into sent
    lpc,         \* listen: "recv" or "spawn" (between checked() and spawn)
    lcur,        \* listen: index of the request in hand
    lpassed,     \* listen: is_passed, read from checked() before spawning
    history,     \* history: BTreeMap<slot, value>, as a function
    checked,     \* checked_state: Vec<CheckedState>, entries [key, passed]
    th,          \* submit threads, by request index: [test, optim, pc, result]
    dropped,     \* requests listen ignored or skipped (history variable)
    passedEver,  \* keys an Ok answer was ever recorded for (history variable)
    recorded     \* <<slot, value>> of submissions recorded in history (history)

vars == <<sent, chan, lpc, lcur, lpassed, history, checked, th, dropped,
          passedEver, recorded>>

-----------------------------------------------------------------------------
(* checked(): the first entry of checked_state matching the request.      *)
Matching(r) == {i \in 1..Len(checked) : checked[i].key = Key(r)}

CheckedOf(r) ==
    IF Matching(r) = {} THEN "none"
    ELSE checked[CHOOSE i \in Matching(r) : \A j \in Matching(r) : i <= j].passed

(* is_profit_smaller_than_history(slot, value). *)
ProfitSmallerThanHistory(r) ==
    r.slot \in DOMAIN history /\ history[r.slot] >= r.value

(* history.entry(slot).or_insert(v), raised to v if larger, then         *)
(* history.pop_first() (len() > 0 always holds after the insert).         *)
Raised(h, s, v) ==
    [x \in DOMAIN h \cup {s} |->
        IF x = s THEN IF s \in DOMAIN h /\ h[s] > v THEN h[s] ELSE v ELSE h[x]]

PopFirst(h) ==
    LET first == CHOOSE x \in DOMAIN h : \A y \in DOMAIN h : x <= y
    IN  [x \in DOMAIN h \ {first} |-> h[x]]

(* The checked_state update: overwrite the first match, or push and trim  *)
(* the front while longer than CheckedCap.                                 *)
DropFront(s) == IF Len(s) > CheckedCap THEN Tail(s) ELSE s

(* Mutant: the trim after a push dropped. *)
UpdateCheckedNoTrim(cs, k, res) ==
    LET ms == {i \in 1..Len(cs) : cs[i].key = k}
    IN  IF ms # {}
        THEN [cs EXCEPT ![CHOOSE i \in ms : \A j \in ms : i <= j].passed = res]
        ELSE Append(cs, [key |-> k, passed |-> res])

(* Mutant: the search for a matching entry dropped; every answer is pushed. *)
UpdateCheckedAlwaysPush(cs, k, res) ==
    DropFront(Append(cs, [key |-> k, passed |-> res]))

UpdateChecked(cs, k, res) ==
    LET ms == {i \in 1..Len(cs) : cs[i].key = k}
    IN  IF ms # {}
        THEN [cs EXCEPT ![CHOOSE i \in ms : \A j \in ms : i <= j].passed = res]
        ELSE DropFront(Append(cs, [key |-> k, passed |-> res]))

-----------------------------------------------------------------------------
Init ==
    /\ sent = <<>> /\ chan = <<>>
    /\ lpc = "recv" /\ lcur = 0 /\ lpassed = FALSE
    /\ history = <<>>            \* the empty function
    /\ checked = <<>>
    /\ th = <<>>
    /\ dropped = {} /\ passedEver = {} /\ recorded = {}

(* Relay::submit_block: sender.send blocks while the channel's one slot   *)
(* is full.                                                                *)
Send(r) ==
    /\ Len(sent) < MaxSends
    /\ chan = <<>>
    /\ sent' = Append(sent, r)
    /\ chan' = <<Len(sent) + 1>>
    /\ UNCHANGED <<lpc, lcur, lpassed, history, checked, th, dropped,
                   passedEver, recorded>>

(* listen: receive a request and look it up with checked(); an entry      *)
(* whose passed is an error makes listen ignore the request.              *)
ListenRecv ==
    /\ lpc = "recv" /\ chan # <<>>
    /\ LET i == Head(chan)
           c == CheckedOf(sent[i])
       IN  /\ chan' = Tail(chan)
           /\ IF c \in {"Timeout", "Rejected"}
              THEN /\ dropped' = dropped \cup {i}
                   /\ UNCHANGED <<lpc, lcur, lpassed>>
              ELSE /\ lpc' = "spawn" /\ lcur' = i /\ lpassed' = (c = "Ok")
                   /\ UNCHANGED dropped
    /\ UNCHANGED <<sent, history, checked, th, passedEver, recorded>>

(* Mutant: optimistic mode whenever the relay is optimistic. *)
ListenSpawnOptimAlways ==
    /\ lpc = "spawn"
    /\ lpc' = "recv"
    /\ IF ProfitSmallerThanHistory(sent[lcur])
       THEN /\ dropped' = dropped \cup {lcur}
            /\ UNCHANGED th
       ELSE /\ th' = [x \in DOMAIN th \cup {lcur} |->
                        IF x = lcur
                        THEN [test |-> IsOptimistic /\ ~lpassed,
                              optim |-> IsOptimistic,
                              pc |-> "history", result |-> "Ok"]
                        ELSE th[x]]
            /\ UNCHANGED dropped
    /\ UNCHANGED <<sent, chan, lcur, lpassed, history, checked, passedEver,
                   recorded>>

(* listen: skip a request no more profitable than the slot's history;     *)
(* otherwise spawn its submit thread, re-signed with the test key when    *)
(* the relay is optimistic and the key has not passed.                    *)
ListenSpawn ==
    /\ lpc = "spawn"
    /\ lpc' = "recv"
    /\ IF ProfitSmallerThanHistory(sent[lcur])
       THEN /\ dropped' = dropped \cup {lcur}
            /\ UNCHANGED th
       ELSE /\ th' = [x \in DOMAIN th \cup {lcur} |->
                        IF x = lcur
                        THEN [test |-> IsOptimistic /\ ~lpassed,
                              optim |-> IsOptimistic /\ lpassed,
                              pc |-> "history", result |-> "Ok"]
                        ELSE th[x]]
            /\ UNCHANGED dropped
    /\ UNCHANGED <<sent, chan, lcur, lpassed, history, checked, passedEver,
                   recorded>>

(* Submit thread: the HTTP call returns res, then the thread records the  *)
(* value in history under its lock.                                        *)
RecordHistory(i, res) ==
    /\ th[i].pc = "history"
    /\ LET r == sent[i] IN
       /\ history' = PopFirst(Raised(history, r.slot, r.value))
       /\ recorded' = recorded \cup {<<r.slot, r.value>>}
    /\ th' = [th EXCEPT ![i].pc = "checked", ![i].result = res]
    /\ UNCHANGED <<sent, chan, lpc, lcur, lpassed, checked, dropped,
                   passedEver>>

(* Mutant: a thread whose submission failed returns before recording it. *)
RecordCheckedOkOnly(i) ==
    /\ th[i].pc = "checked" /\ th[i].result = "Ok"
    /\ checked' = UpdateChecked(checked, Key(sent[i]), th[i].result)
    /\ passedEver' = passedEver \cup {Key(sent[i])}
    /\ th' = [th EXCEPT ![i].pc = "done"]
    /\ UNCHANGED <<sent, chan, lpc, lcur, lpassed, history, dropped, recorded>>

(* Submit thread: record the answer in checked_state under its lock.      *)
RecordChecked(i) ==
    /\ th[i].pc = "checked"
    /\ checked' = UpdateChecked(checked, Key(sent[i]), th[i].result)
    /\ passedEver' = IF th[i].result = "Ok" THEN passedEver \cup {Key(sent[i])}
                     ELSE passedEver
    /\ th' = [th EXCEPT ![i].pc = "done"]
    /\ UNCHANGED <<sent, chan, lpc, lcur, lpassed, history, dropped, recorded>>

Listen == ListenRecv \/ ListenSpawn

Thread(i) == (\E res \in Results : RecordHistory(i, res)) \/ RecordChecked(i)

Next ==
    \/ \E r \in Requests : Send(r)
    \/ Listen
    \/ \E i \in DOMAIN th : Thread(i)

(* The listen thread and every submit thread keep running: recv_iter     *)
(* returns each request, and the HTTP client returns within the configured *)
(* submit timeout.  The builder is not obliged to send.                    *)
Spec == Init /\ [][Next]_vars /\ WF_vars(Listen)
        /\ \A i \in 1..MaxSends : WF_vars(i \in DOMAIN th /\ Thread(i))

-----------------------------------------------------------------------------
Entries == [key : Slots \X Attrs, passed : Results]
ThreadState == [test : BOOLEAN, optim : BOOLEAN,
                pc : {"history", "checked", "done"}, result : Results]

(* Every variable has its type, and checked_state never holds more than   *)
(* its cap, which the trim after each push keeps.                          *)
TypeOK ==
    /\ sent \in Seq(Requests) /\ Len(sent) <= MaxSends
    /\ chan \in Seq(1..Len(sent)) /\ Len(chan) <= 1
    /\ lpc \in {"recv", "spawn"} /\ lcur \in 0..Len(sent) /\ lpassed \in BOOLEAN
    /\ DOMAIN history \subseteq Slots /\ \A s \in DOMAIN history : history[s] \in Values
    /\ checked \in Seq(Entries) /\ Len(checked) <= CheckedCap
    /\ DOMAIN th \subseteq 1..Len(sent) /\ \A i \in DOMAIN th : th[i] \in ThreadState
    /\ dropped \subseteq 1..Len(sent)
    /\ passedEver \subseteq Slots \X Attrs
    /\ recorded \subseteq Slots \X Values

(* checked_state holds at most one entry per key: a submit thread that    *)
(* finds its key overwrites that entry, even when several threads of the   *)
(* same key finish in any order (the search and the push are under one    *)
(* lock).  Two entries would let checked() return a stale answer.         *)
CheckedUnique ==
    \A i, j \in 1..Len(checked) : checked[i].key = checked[j].key => i = j

(* The optimistic precheck: on an optimistic relay, a block goes out      *)
(* signed with the builder's real key in optimistic mode only for a key   *)
(* whose earlier (test-key) submission the relay answered Ok.             *)
OptimisticAfterPass ==
    \A i \in DOMAIN th : th[i].optim => Key(sent[i]) \in passedEver

(* Every request the builder sends is eventually settled: listen ignores  *)
(* or skips it, or its submit thread records the relay's answer.          *)
Settled(i) == i \in dropped \/ (i \in DOMAIN th /\ th[i].pc = "done")

SubmissionsSettle ==
    \A i \in 1..MaxSends : [](i \in 1..Len(sent) => <>Settled(i))

(* is_profit_smaller_than_history: once a submission's value is recorded  *)
(* for its slot, listen does not submit a block of that slot worth no     *)
(* more ("skip submitting block: new is .., and the older is ..").        *)
NoLowerResubmit ==
    [][\A i \in DOMAIN th' \ DOMAIN th :
         ~\E v \in Values : <<sent[i].slot, v>> \in recorded /\ v >= sent[i].value]_vars

=============================================================================
