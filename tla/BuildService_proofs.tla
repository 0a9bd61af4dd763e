------------------------- MODULE BuildService_proofs -------------------------
(***************************************************************************)
(* Proofs about the round scheduler (BuildService), for every slot        *)
(* length, submit time, window, lag limit and clock bound.                *)
(*                                                                         *)
(* SubmitInSlot is a statement about last alone, and holds because the   *)
(* only step that sets last, a round's Ok result, is guarded by           *)
(* available_for_submit evaluated at the same clock reading it records.   *)
(* What makes it inductive is that every quantity it compares is an       *)
(* integer: the clock, which moves only to the next boundary of a slot,  *)
(* and the slot of every head thread.                                    *)
(***************************************************************************)
EXTENDS BuildService, SequenceTheorems, WellFoundedInduction, TLAPS

(* A head thread, with the integers and flags its fields hold. *)
Thr == [slot : Int, block : Int, ready : BOOLEAN, pc : {"loop", "round", "build", "done"}]

(* The types the proof of SubmitInSlot needs; TypeOK adds the bounds.     *)
TI ==
    /\ now \in Nat /\ lastSlot \in Int /\ elBlock \in Int /\ polled \in Int
    /\ th \in Seq(Thr)
    /\ last \in {None} \cup [slot : Int, ready : BOOLEAN, at : Int]

IInv == TI /\ SubmitInSlot

-----------------------------------------------------------------------------
(* The clock always has a next boundary: the start of the next slot lies *)
(* after it.                                                              *)
LEMMA NextSlotAhead ==
    ASSUME NEW t \in Nat
    PROVE  SlotTime(Current(t) + 1) > t
BY BuildServiceAssumption DEF SlotTime, Current

(* Tick moves the clock to the least boundary ahead of it, which exists  *)
(* because < is well founded on Nat.                                     *)
LEMMA TickAdvances ==
    ASSUME NEW t \in Nat
    PROVE  /\ (CHOOSE b \in Boundaries(t) : \A c \in Boundaries(t) : b <= c) \in Nat
<1>. DEFINE B == Boundaries(t)
<1>1. B \subseteq Nat
  BY BuildServiceAssumption DEF Boundaries, SlotTime, Current
<1>2. B # {}
  BY NextSlotAhead, BuildServiceAssumption DEF Boundaries, Current
<1>3. \E x \in B : \A y \in B : ~(<<y, x>> \in OpToRel(<, Nat))
  BY <1>1, <1>2, NatLessThanWellFounded, WFMin
<1>4. PICK x \in B : \A y \in B : ~(<<y, x>> \in OpToRel(<, Nat))
  BY <1>3
<1>5. \A y \in B : y < x => <<y, x>> \in OpToRel(<, Nat)
  BY <1>1, Zenon DEF OpToRel
<1>6. \A y \in B : ~(y < x)
  BY <1>4, <1>5, Zenon
<1>7. \E x1 \in B : \A y \in B : x1 <= y
  BY <1>1, <1>6
<1>. QED  BY <1>1, <1>7

(* A thread step replaces one head thread by another. *)
LEMMA ThreadUpdate ==
    ASSUME NEW s \in Seq(Thr), NEW i \in 1..Len(s), NEW e \in Thr
    PROVE  [s EXCEPT ![i] = e] \in Seq(Thr)
BY ExceptSeq

LEMMA InitIInv == Init => IInv
<1>. SUFFICES ASSUME Init PROVE IInv
  OBVIOUS
<1>1. -LagLimit \div SlotLen \in Int
  BY BuildServiceAssumption
<1>2. <<>> \in Seq(Thr)
  BY EmptySeq
<1>. QED  BY <1>1, <1>2 DEF Init, IInv, TI, SubmitInSlot, None

(* The clock, the head task, the execution layer and the polls leave last *)
(* alone and keep every field an integer.                                *)
LEMMA EnvIInv ==
    ASSUME IInv, Tick \/ NewBlock \/ Poll \/ NewHead
    PROVE  IInv'
<1>1. CASE Tick
  BY <1>1, TickAdvances DEF Tick, IInv, TI, SubmitInSlot
<1>2. CASE NewBlock
  BY <1>2, BuildServiceAssumption DEF NewBlock, IInv, TI, SubmitInSlot, Current
<1>3. CASE Poll
  BY <1>3, BuildServiceAssumption DEF Poll, IInv, TI, SubmitInSlot, Current
<1>4. CASE NewHead
  <2>1. [slot |-> Current(now), block |-> elBlock, ready |-> FALSE, pc |-> "loop"] \in Thr
    BY BuildServiceAssumption DEF IInv, TI, Current, Thr
  <2>2. th' \in Seq(Thr)
    BY <1>4, <2>1, AppendProperties DEF NewHead, IInv, TI
  <2>. QED  BY <1>4, <2>2, BuildServiceAssumption DEF NewHead, IInv, TI, SubmitInSlot, Current
<1>. QED  BY <1>1, <1>2, <1>3, <1>4

(* A round that exits or starts changes its own thread only. *)
LEMMA RoundIInv ==
    ASSUME IInv, NEW i \in 1..Len(th),
           Loop(i) \/ RoundNoValidator(i) \/ RoundLate(i) \/ RoundLag(i) \/ RoundStart(i)
    PROVE  IInv'
<1>. DEFINE h == th[i]
<1>1. h \in Thr
  BY ElementOfSeq DEF IInv, TI
<1>2. Exited(h) \in Thr
  BY <1>1 DEF Exited, Thr
<1>3. [h EXCEPT !.pc = "round"] \in Thr
  BY <1>1 DEF Thr
<1>4. [Refreshed(h) EXCEPT !.pc = "build"] \in Thr
  <2>1. h.slot \in Int /\ h.block \in Int
    BY <1>1 DEF Thr
  <2>2. (h.ready \/ polled = h.slot) \in BOOLEAN
    BY Zenon
  <2>. QED  BY <1>1, <2>1, <2>2 DEF Refreshed, Thr
<1>5. \E e \in Thr : th' = [th EXCEPT ![i] = e]
  <2>1. CASE Loop(i)
    <3>1. CASE Current(now) # h.slot
      BY <2>1, <3>1, <1>2 DEF Loop
    <3>2. CASE Current(now) = h.slot
      BY <2>1, <3>2, <1>3 DEF Loop
    <3>. QED  BY <3>1, <3>2
  <2>2. CASE RoundNoValidator(i) \/ RoundLate(i) \/ RoundLag(i)
    BY <2>2, <1>2 DEF RoundNoValidator, RoundLate, RoundLag
  <2>3. CASE RoundStart(i)
    BY <2>3, <1>4 DEF RoundStart
  <2>. QED  BY <2>1, <2>2, <2>3
<1>6. th' \in Seq(Thr)
  BY <1>5, ThreadUpdate DEF IInv, TI
<1>7. UNCHANGED <<now, lastSlot, elBlock, polled, last>>
  BY DEF Loop, RoundNoValidator, RoundLate, RoundLag, RoundStart
<1>. QED  BY <1>6, <1>7 DEF IInv, TI, SubmitInSlot

(* build_single_round hands a block to the relay only inside the window *)
(* of available_for_submit, read at the clock it records.               *)
LEMMA BuildDoneIInv ==
    ASSUME IInv, NEW i \in 1..Len(th), NEW res \in Results, BuildDone(i, res)
    PROVE  IInv'
<1>. DEFINE h == th[i]
<1>1. h \in Thr
  BY ElementOfSeq DEF IInv, TI
<1>2. th' \in Seq(Thr)
  <2>1. [h EXCEPT !.pc = "loop"] \in Thr
    BY <1>1 DEF Thr
  <2>. QED  BY <2>1, ThreadUpdate DEF BuildDone, IInv, TI
<1>3. CASE res = "Ok" /\ AvailableForSubmit(h)
  <2>1. last' = [slot |-> h.slot + 1, ready |-> h.ready, at |-> now]
    BY <1>3 DEF BuildDone
  <2>2. SlotTime(h.slot + 1) - Window <= now /\ now < SlotTime(h.slot + 1)
    BY <1>1, <1>3, BuildServiceAssumption DEF AvailableForSubmit, Deadline, SlotTime, IInv, TI, Thr
  <2>3. last' \in [slot : Int, ready : BOOLEAN, at : Int]
    BY <1>1, <2>1 DEF IInv, TI, Thr
  <2>4. last' # None
    BY <2>1 DEF None
  <2>. QED  BY <1>2, <2>1, <2>2, <2>3, <2>4 DEF BuildDone, IInv, TI, SubmitInSlot
<1>4. CASE ~(res = "Ok" /\ AvailableForSubmit(h))
  BY <1>2, <1>4 DEF BuildDone, IInv, TI, SubmitInSlot
<1>. QED  BY <1>3, <1>4

LEMMA NextIInv == IInv /\ [Next]_vars => IInv'
<1>. SUFFICES ASSUME IInv, [Next]_vars PROVE IInv'
  OBVIOUS
<1>1. CASE Tick \/ NewBlock \/ Poll \/ NewHead
  BY <1>1, EnvIInv
<1>2. CASE \E i \in 1..Len(th) : Thread(i)
  BY <1>2, RoundIInv, BuildDoneIInv DEF Thread
<1>3. CASE UNCHANGED vars
  BY <1>3 DEF vars, IInv, TI, SubmitInSlot
<1>. QED  BY <1>1, <1>2, <1>3 DEF Next

-----------------------------------------------------------------------------
THEOREM IInvHolds == Spec => []IInv
BY InitIInv, NextIInv, PTL DEF Spec

(* For every slot length, submit time, window and lag limit, and however *)
(* long rounds take and however the head threads interleave, every block *)
(* handed to the relay was handed over in the last Window seconds before *)
(* its slot and never once that slot had begun.                          *)
THEOREM SubmitInSlotHolds == Spec => []SubmitInSlot
BY IInvHolds, PTL DEF IInv

=============================================================================
