----------------------------- MODULE BuildService -----------------------------
(***************************************************************************)
(* The round scheduler (src/apps/block-builder/src/build.rs) with the     *)
(* beacon head it runs on (eth_client/src/beacon_head_state.rs): a head   *)
(* task broadcasts a BeaconHead once per slot, carrying the execution     *)
(* layer's latest block; run() spawns a thread per head that builds       *)
(* rounds while the slot lasts.  A round asks the relay for the slot's    *)
(* validator, refreshes the head (randao, withdrawals, and the block once *)
(* the slot's own block is known), computes the deadline, checks it and   *)
(* the head's lag, builds, and submits a result that lands in the last    *)
(* three seconds before the next slot.  Time is in seconds from genesis;  *)
(* the build itself is abstracted to its result and how long it takes.    *)
(***************************************************************************)
EXTENDS Integers, Sequences

CONSTANTS
    SlotLen,     \* BeaconSlot block_time (12)
    SubmitTime,  \* mev_boost_relay.submit_time_millis, in seconds
    Window,      \* the 3 seconds of available_for_submit
    LagLimit,    \* the 60 seconds of the block-time lag check
    MaxTime      \* bound on the clock

ASSUME BuildServiceAssumption ==
    /\ SlotLen \in Nat \ {0} /\ SubmitTime \in Nat /\ Window \in Nat
    /\ LagLimit \in Nat /\ MaxTime \in Nat

MaxSlot == MaxTime \div SlotLen

(* BeaconSlot::current and BeaconSlot::time with genesis at 0. *)
Current(t) == t \div SlotLen
SlotTime(s) == s * SlotLen

Results == {"Ok", "NoTx", "Err"}
None == [slot |-> -1]

VARIABLES
    now,         \* wall clock
    lastSlot,    \* the head task's last_slot (-1: None)
    elBlock,     \* slot of the execution layer's latest block (HeadState)
    polled,      \* slot of the latest randao and withdrawals broadcasts (-1: none)
    th,          \* th[i]: the thread of the i-th head broadcast
    last         \* the latest block handed to Relay::submit_block, or None

vars == <<now, lastSlot, elBlock, polled, th, last>>

-----------------------------------------------------------------------------
(* BeaconHeadState::refresh: the slot's randao and withdrawals if their    *)
(* latest broadcast is for the head's slot; the execution block if its    *)
(* timestamp is the slot's time.                                          *)
Refreshed(h) ==
    [h EXCEPT !.ready = @ \/ polled = h.slot,
              !.block = IF elBlock = h.slot THEN h.slot ELSE @]

(* build_single_round's deadline: slot_time(slot + 1) - submit_time. *)
Deadline(h) == SlotTime(h.slot + 1) - SubmitTime

(* Mutant: the window test forgets that the deadline may have passed. *)
AvailableForSubmitLate(h) ==
    Deadline(h) + SubmitTime - now <= Window

(* available_for_submit: deadline + submit_time - now in (0, Window]. *)
AvailableForSubmit(h) ==
    /\ Deadline(h) + SubmitTime > now
    /\ Deadline(h) + SubmitTime - now <= Window

(* A thread that returned keeps only its slot. *)
Exited(h) == [slot |-> h.slot, block |-> -1, ready |-> FALSE, pc |-> "done"]

-----------------------------------------------------------------------------
Init ==
    /\ now = 0 /\ lastSlot = -1
    /\ elBlock \in {-1, -LagLimit \div SlotLen} /\ polled = -1
    /\ th = <<>>
    /\ last = None

(* The clock moves to the next time any guard tells apart from now: the   *)
(* slot start, the opening of the submit window and the deadline.  Every   *)
(* guard compares now only with these, so the seconds in between behave   *)
(* alike.                                                                  *)
Boundaries(t) ==
    LET s == Current(t) IN
    {b \in {SlotTime(s + 1) - Window, SlotTime(s + 1) - SubmitTime, SlotTime(s + 1)} : b > t}

Tick ==
    /\ now < MaxTime
    /\ now' = CHOOSE b \in Boundaries(now) : \A c \in Boundaries(now) : b <= c
    /\ UNCHANGED <<lastSlot, elBlock, polled, th, last>>

(* The execution layer's block for the current slot arrives (or never). *)
NewBlock ==
    /\ elBlock < Current(now)
    /\ elBlock' = Current(now)
    /\ UNCHANGED <<now, lastSlot, polled, th, last>>

(* fetch_randao_task and fetch_withdrawal_task poll the beacon node for *)
(* the current slot every second; a successful poll is broadcast.  The   *)
(* two are taken to succeed together.                                     *)
Poll ==
    /\ polled' = Current(now)
    /\ UNCHANGED <<now, lastSlot, elBlock, th, last>>

(* Mutant: the head task does not compare the slot with last_slot. *)
NewHeadEveryWake ==
    /\ lastSlot' = Current(now)
    /\ th' = Append(th, [slot |-> Current(now), block |-> elBlock, ready |-> FALSE, pc |-> "loop"])
    /\ UNCHANGED <<now, elBlock, polled, last>>

(* new_head_task broadcasts a head when the slot is not last_slot, and    *)
(* BuildService::run spawns build_multiple_rounds for it.                 *)
NewHead ==
    /\ Current(now) # lastSlot
    /\ lastSlot' = Current(now)
    /\ th' = Append(th, [slot |-> Current(now), block |-> elBlock, ready |-> FALSE, pc |-> "loop"])
    /\ UNCHANGED <<now, elBlock, polled, last>>

(* build_multiple_rounds: stop once the slot has moved on. *)
Loop(i) ==
    /\ th[i].pc = "loop"
    /\ th' = [th EXCEPT ![i] = IF Current(now) # @.slot THEN Exited(@) ELSE [@ EXCEPT !.pc = "round"]]
    /\ UNCHANGED <<now, lastSlot, elBlock, polled, last>>

(* build_single_round returns false when get_validator_for_slot fails. *)
RoundNoValidator(i) ==
    /\ th[i].pc = "round"
    /\ th' = [th EXCEPT ![i] = Exited(@)]
    /\ UNCHANGED <<now, lastSlot, elBlock, polled, last>>

(* ... when the refreshed head's deadline has already passed ... *)
RoundLate(i) ==
    /\ th[i].pc = "round"
    /\ now >= Deadline(Refreshed(th[i]))
    /\ th' = [th EXCEPT ![i] = Exited(@)]
    /\ UNCHANGED <<now, lastSlot, elBlock, polled, last>>

(* ... and when the head's block lags the deadline by over LagLimit. *)
RoundLag(i) ==
    /\ th[i].pc = "round"
    /\ LET h == Refreshed(th[i]) IN
       /\ now < Deadline(h)
       /\ Deadline(h) - SlotTime(h.block) > LagLimit
    /\ th' = [th EXCEPT ![i] = Exited(@)]
    /\ UNCHANGED <<now, lastSlot, elBlock, polled, last>>

(* The round forks alive with the deadline and starts building. *)
RoundStart(i) ==
    /\ th[i].pc = "round"
    /\ LET h == Refreshed(th[i]) IN
       /\ now < Deadline(h)
       /\ Deadline(h) - SlotTime(h.block) <= LagLimit
       /\ th' = [th EXCEPT ![i] = [h EXCEPT !.pc = "build"]]
    /\ UNCHANGED <<now, lastSlot, elBlock, polled, last>>

(* BlockBuilder::build returns; an Ok block inside the window goes to the *)
(* relay with the head's randao, withdrawals and parent; NoTx and other  *)
(* errors go back to the loop.                                            *)
BuildDone(i, res) ==
    /\ th[i].pc = "build"
    /\ last' =
          IF res = "Ok" /\ AvailableForSubmit(th[i])
          THEN [slot |-> th[i].slot + 1, ready |-> th[i].ready, at |-> now]
          ELSE last
    /\ th' = [th EXCEPT ![i].pc = "loop"]
    /\ UNCHANGED <<now, lastSlot, elBlock, polled>>

Thread(i) ==
    Loop(i) \/ RoundNoValidator(i) \/ RoundLate(i) \/ RoundLag(i) \/ RoundStart(i) \/ \E res \in Results : BuildDone(i, res)

Next ==
    \/ Tick \/ NewBlock \/ Poll \/ NewHead
    \/ \E i \in 1..Len(th) : Thread(i)

Spec == Init /\ [][Next]_vars

-----------------------------------------------------------------------------
Blocks == -(LagLimit \div SlotLen)..MaxSlot

HeadThread == [slot : 0..MaxSlot, block : Blocks, ready : BOOLEAN, pc : {"loop", "round", "build", "done"}]

(* Every variable has its type, and the head task starts one thread per   *)
(* slot at most.                                                           *)
TypeOK ==
    /\ now \in 0..MaxTime /\ lastSlot \in -1..MaxSlot
    /\ elBlock \in Blocks /\ polled \in -1..MaxSlot
    /\ th \in Seq(HeadThread) /\ Len(th) <= MaxSlot + 1
    /\ last \in {None} \cup [slot : 1..MaxSlot + 1, ready : BOOLEAN, at : 0..MaxTime]

(* Rounds run past their deadline (the build returns when it notices the *)
(* forked alive has expired, and finishing the block takes time) and the  *)
(* head's thread only checks the slot between rounds; still every block   *)
(* reaches the relay in the last Window seconds before its own slot, never *)
(* once that slot has begun.                                               *)
SubmitInSlot ==
    last # None => SlotTime(last.slot) - Window <= last.at /\ last.at < SlotTime(last.slot)

=============================================================================
