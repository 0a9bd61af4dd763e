--------------------------- MODULE Simulator_proofs ---------------------------
(***************************************************************************)
(* Proofs about the simulator (Simulator), for every number of pool       *)
(* threads, every batch of txs and every number of stream calls.           *)
(*                                                                         *)
(* BatchOkInOrder is not inductive: it speaks of out only once the batch  *)
(* returned Ok, but out is filled from results that travelled through the *)
(* queue, a worker and the channel.  The inductive invariant follows a    *)
(* batch job's tag along that path (BatchJobTags), says that every        *)
(* successful result on the channel carries the tx of its tag (ChanOK)    *)
(* and that out only ever holds the tx of its own index (OutOK), and      *)
(* that the result is decided only when the caller is done (Pending).     *)
(* AsyncQueueBound is inductive given the type; its proof counts the     *)
(* async jobs across Append and Tail.                                      *)
(***************************************************************************)
EXTENDS Simulator, SequenceTheorems, FiniteSetTheorems, TLAPS

(* The error codes a batch result may carry; "none" is success. *)
Errs == {"none", "QueueStalled", "Execute", "State"}

Txs == {BatchTxs[i] : i \in 1..B} \cup {"none"}

Job == [owner : {"batch", "async"}, tag : 0..B, external : BOOLEAN]

(* The positions of the stream's jobs in the queue s. *)
AsyncIn(s) == {i \in 1..Len(s) : s[i].owner = "async"}

(* A batch job is tagged with an index of the batch, wherever it is. *)
BatchJobTags ==
    /\ \A i \in 1..Len(queue) : queue[i].owner = "batch" => queue[i].tag \in 1..B
    /\ \A w \in 1..Workers : running[w].owner = "batch" => running[w].tag \in 1..B

(* Every successful result on the batch's channel is its tag's tx. *)
ChanGood(c) ==
    /\ c \in Seq([tag : 1..B, err : Errs, tx : Txs])
    /\ \A k \in 1..Len(c) : c[k].err = "none" => c[k].tx = BatchTxs[c[k].tag]

ChanOK == ChanGood(bchan)

(* out holds, at each index, that index's tx or nothing yet. *)
OutOK == \A i \in 1..B : out[i] \in {BatchTxs[i], "none"}

(* The batch's result is decided only when the caller returns. *)
Pending == cpc # "done" => cres = "pending"

IInv ==
    /\ TypeOK
    /\ BatchJobTags
    /\ ChanOK
    /\ OutOK
    /\ Pending
    /\ BatchOkInOrder
    /\ AsyncQueueBound

-----------------------------------------------------------------------------
(* The batch is a non-empty sequence of txs. *)
LEMMA BatchFacts ==
    /\ B \in Nat \ {0}
    /\ \A i \in 1..B : BatchTxs[i] \in Txs
<1>1. B \in Nat
  BY SimulatorAssumption, LenProperties DEF B
<1>. QED  BY <1>1, SimulatorAssumption DEF B, Txs

(* The stream's jobs are among the queue's positions. *)
LEMMA AsyncFinite ==
    ASSUME NEW s \in Seq(Job)
    PROVE  /\ IsFiniteSet(AsyncIn(s))
           /\ Cardinality(AsyncIn(s)) \in Nat
           /\ Cardinality(AsyncIn(s)) <= Len(s)
<1>1. Len(s) \in Nat /\ AsyncIn(s) \subseteq 1..Len(s)
  BY LenProperties DEF AsyncIn
<1>2. IsFiniteSet(1..Len(s)) /\ Cardinality(1..Len(s)) = IF 1 > Len(s) THEN 0 ELSE Len(s) - 1 + 1
  <2>1. 1 \in Int /\ Len(s) \in Int
    BY <1>1
  <2>. QED  BY <2>1, FS_Interval, Zenon
<1>3. Cardinality(1..Len(s)) = Len(s)
  BY <1>1, <1>2
<1>. QED  BY <1>1, <1>2, <1>3, FS_Subset, FS_CardinalityType

(* Queuing a batch job leaves the stream's count alone. *)
LEMMA AsyncAppendOther ==
    ASSUME NEW s \in Seq(Job), NEW e \in Job, e.owner # "async"
    PROVE  AsyncIn(Append(s, e)) = AsyncIn(s)
BY AppendProperties DEF AsyncIn

(* Queuing a stream job adds one to its count. *)
LEMMA AsyncAppendAsync ==
    ASSUME NEW s \in Seq(Job), NEW e \in Job, e.owner = "async"
    PROVE  Cardinality(AsyncIn(Append(s, e))) = Cardinality(AsyncIn(s)) + 1
<1>1. AsyncIn(Append(s, e)) = AsyncIn(s) \cup {Len(s) + 1}
  BY AppendProperties DEF AsyncIn
<1>2. Len(s) + 1 \notin AsyncIn(s)
  BY LenProperties DEF AsyncIn
<1>. QED  BY <1>1, <1>2, AsyncFinite, FS_AddElement

(* A worker taking the oldest job never adds to the stream's count: the  *)
(* positions of Tail(s) shift by one into those of s.                     *)
LEMMA AsyncTail ==
    ASSUME NEW s \in Seq(Job), s # <<>>
    PROVE  Cardinality(AsyncIn(Tail(s))) <= Cardinality(AsyncIn(s))
<1>. DEFINE f == [i \in AsyncIn(Tail(s)) |-> i + 1]
<1>1. /\ Len(s) \in Nat \ {0} /\ Tail(s) \in Seq(Job) /\ Len(Tail(s)) = Len(s) - 1
      /\ \A i \in 1..Len(s) - 1 : Tail(s)[i] = s[i + 1]
  BY HeadTailProperties, EmptySeq
<1>2. f \in Injection(AsyncIn(Tail(s)), AsyncIn(s))
  BY <1>1 DEF Injection, IsInjective, AsyncIn
<1>. QED  BY <1>2, AsyncFinite, FS_Injection

(* Sending a reply keeps the channel's results true to their tags. *)
LEMMA ReplyGood ==
    ASSUME ChanGood(bchan), NEW job, NEW err \in Errs,
           job.owner = "batch" => job.tag \in 1..B
    PROVE  ChanGood(Reply(job, err))
<1>1. CASE job.owner = "batch"
  <2>. DEFINE m == [tag |-> job.tag, err |-> err,
                    tx |-> IF err = "none" THEN BatchTxs[job.tag] ELSE "none"]
  <2>1. m \in [tag : 1..B, err : Errs, tx : Txs]
    BY <1>1, BatchFacts DEF Txs
  <2>2. /\ Append(bchan, m) \in Seq([tag : 1..B, err : Errs, tx : Txs])
        /\ Len(Append(bchan, m)) = Len(bchan) + 1
        /\ \A k \in 1..Len(bchan) : Append(bchan, m)[k] = bchan[k]
        /\ Append(bchan, m)[Len(bchan) + 1] = m
    BY <2>1, AppendProperties DEF ChanGood
  <2>. QED  BY <1>1, <2>2 DEF ChanGood, Reply
<1>2. CASE job.owner # "batch"
  BY <1>2 DEF Reply
<1>. QED  BY <1>1, <1>2

(* Whatever a job's closure does, the channel stays true to the tags. *)
LEMMA JobReplyGood ==
    ASSUME ChanGood(bchan), NEW job, NEW remoteOk \in BOOLEAN, NEW dry \in DryOutcomes,
           job.owner = "batch" => job.tag \in 1..B
    PROVE  ChanGood(JobReply(job, remoteOk, dry))
<1>1. /\ ChanGood(Reply(job, "QueueStalled"))
      /\ ChanGood(Reply(job, "none"))
      /\ dry \in {"Execute", "State"} => ChanGood(Reply(job, dry))
  BY ReplyGood DEF Errs
<1>. QED  BY <1>1 DEF JobReply, DryOutcomes

-----------------------------------------------------------------------------
LEMMA InitIInv == Init => IInv
<1>. SUFFICES ASSUME Init PROVE IInv
  OBVIOUS
<1>1. <<>> \in Seq(Job) /\ <<>> \in Seq([tag : 1..B, err : Errs, tx : Txs]) /\ Len(<<>>) = 0
  BY EmptySeq
<1>2. AsyncIn(<<>>) = {}
  BY <1>1 DEF AsyncIn
<1>3. Idle \in [owner : {"none", "batch", "async"}, tag : 0..B, external : BOOLEAN]
  BY BatchFacts DEF Idle
<1>4. TypeOK
  BY <1>1, <1>3, BatchFacts, SimulatorAssumption DEF Init, TypeOK, Job
<1>5. BatchJobTags
  BY <1>1 DEF Init, BatchJobTags, Idle
<1>6. ChanOK
  BY <1>1 DEF Init, ChanOK, ChanGood
<1>7. OutOK /\ Pending /\ BatchOkInOrder
  BY DEF Init, OutOK, Pending, BatchOkInOrder
<1>8. AsyncQueueBound
  <2>1. Cardinality(AsyncIn(queue)) = 0
    BY <1>2, FS_EmptySet DEF Init
  <2>. QED  BY <2>1, SimulatorAssumption DEF AsyncQueueBound, AsyncIn
<1>. QED  BY <1>4, <1>5, <1>6, <1>7, <1>8 DEF IInv

(* The fan-out queues the batch's next tx with its index as tag. *)
LEMMA FanOutIInv ==
    ASSUME IInv, FanOut
    PROVE  IInv'
<1>. DEFINE e == [owner |-> "batch", tag |-> cidx + 1, external |-> FALSE]
<1>1. e \in Job /\ e.tag \in 1..B
  BY BatchFacts DEF FanOut, IInv, TypeOK, Job
<1>2. queue \in Seq(Job)
  BY DEF IInv, TypeOK, Job
<1>3. /\ Append(queue, e) \in Seq(Job)
      /\ Len(Append(queue, e)) = Len(queue) + 1
      /\ \A i \in 1..Len(queue) : Append(queue, e)[i] = queue[i]
      /\ Append(queue, e)[Len(queue) + 1] = e
  BY <1>1, <1>2, AppendProperties
<1>4. queue' = Append(queue, e)
  BY DEF FanOut
<1>5. TypeOK'
  BY <1>1, <1>3, <1>4, BatchFacts DEF FanOut, IInv, TypeOK, Job
<1>6. BatchJobTags'
  BY <1>1, <1>3, <1>4 DEF FanOut, IInv, BatchJobTags
<1>7. AsyncQueueBound'
  <2>1. AsyncIn(queue') = AsyncIn(queue)
    BY <1>1, <1>2, <1>4, AsyncAppendOther
  <2>. QED  BY <2>1 DEF IInv, AsyncQueueBound, AsyncIn
<1>. QED  BY <1>5, <1>6, <1>7
          DEF FanOut, IInv, ChanOK, ChanGood, OutOK, Pending, BatchOkInOrder

(* The caller stops fanning out and starts to receive. *)
LEMMA EndFanOutIInv ==
    ASSUME IInv, EndFanOut
    PROVE  IInv'
BY BatchFacts DEF EndFanOut, IInv, TypeOK, BatchJobTags, ChanOK, ChanGood, OutOK,
                  Pending, BatchOkInOrder, AsyncQueueBound

(* recv: a success is stored at its tag, anything else ends the batch    *)
(* with an error.                                                         *)
LEMMA ReceiveIInv ==
    ASSUME IInv, Receive
    PROVE  IInv'
<1>0. cpc = "recv" /\ cidx < B /\ cres = "pending"
  BY DEF Receive, IInv, Pending
<1>1. CASE bchan # <<>>
  <2>. DEFINE m == Head(bchan)
  <2>1. /\ m \in [tag : 1..B, err : Errs, tx : Txs]
        /\ m.err = "none" => m.tx = BatchTxs[m.tag]
        /\ ChanGood(Tail(bchan))
    <3>1. /\ bchan \in Seq([tag : 1..B, err : Errs, tx : Txs])
          /\ \A k \in 1..Len(bchan) : bchan[k].err = "none" => bchan[k].tx = BatchTxs[bchan[k].tag]
      BY DEF IInv, ChanOK, ChanGood
    <3>2. /\ Len(bchan) \in Nat \ {0}
          /\ m = bchan[1]
          /\ Tail(bchan) \in Seq([tag : 1..B, err : Errs, tx : Txs])
          /\ Len(Tail(bchan)) = Len(bchan) - 1
          /\ \A k \in 1..Len(bchan) - 1 : Tail(bchan)[k] = bchan[k + 1]
      BY <1>1, <3>1, HeadTailProperties, EmptySeq
    <3>3. m \in [tag : 1..B, err : Errs, tx : Txs]
      <4>1. 1 \in 1..Len(bchan)
        BY <3>2
      <4>2. bchan[1] \in [tag : 1..B, err : Errs, tx : Txs]
        BY <3>1, <4>1, ElementOfSeq, Zenon
      <4>. QED  BY <3>2, <4>2, Zenon
    <3>4. m.err = "none" => m.tx = BatchTxs[m.tag]
      BY <3>1, <3>2
    <3>5. \A k \in 1..Len(Tail(bchan)) :
            Tail(bchan)[k].err = "none" => Tail(bchan)[k].tx = BatchTxs[Tail(bchan)[k].tag]
      BY <3>1, <3>2
    <3>. QED  BY <3>2, <3>3, <3>4, <3>5 DEF ChanGood
  <2>2. bchan' = Tail(bchan)
    BY <1>1 DEF Receive
  <2>3. CASE m.err # "none"
    <3>1. cres' = m.err /\ cpc' = "done" /\ UNCHANGED <<out, cidx>>
      BY <1>1, <2>3 DEF Receive
    <3>2. cres' # "Ok"
      BY <2>1, <3>1 DEF Errs
    <3>. QED  BY <1>0, <2>1, <2>2, <3>1, <3>2
              DEF Receive, IInv, TypeOK, BatchJobTags, ChanOK, OutOK, Pending,
                  BatchOkInOrder, AsyncQueueBound
  <2>4. CASE m.err = "none"
    <3>1. out' = [out EXCEPT ![m.tag] = m.tx] /\ cidx' = cidx + 1 /\ UNCHANGED <<cres, cpc>>
      BY <1>1, <2>4 DEF Receive
    <3>2. OutOK'
      BY <2>1, <2>4, <3>1 DEF IInv, OutOK, TypeOK
    <3>3. TypeOK'
      BY <1>0, <2>1, <2>4, <3>1, BatchFacts DEF Receive, IInv, TypeOK, Txs
    <3>. QED  BY <1>0, <2>1, <2>2, <3>1, <3>2, <3>3
              DEF Receive, IInv, BatchJobTags, ChanOK, Pending, BatchOkInOrder,
                  AsyncQueueBound
  <2>. QED  BY <2>3, <2>4
<1>2. CASE bchan = <<>>
  <2>1. cres' = "UnexpectedExited" /\ cpc' = "done" /\ UNCHANGED <<bchan, out, cidx>>
    BY <1>2 DEF Receive
  <2>. QED  BY <1>0, <2>1
            DEF Receive, IInv, TypeOK, BatchJobTags, ChanOK, OutOK, Pending,
                BatchOkInOrder, AsyncQueueBound
<1>. QED  BY <1>1, <1>2

(* After the loop, the batch is Ok only if every index was filled. *)
LEMMA FinishIInv ==
    ASSUME IInv, Finish
    PROVE  IInv'
<1>1. cres' = "Ok" => \A i \in 1..B : out[i] = BatchTxs[i]
  BY DEF Finish, IInv, OutOK
<1>. QED  BY <1>1
          DEF Finish, IInv, TypeOK, BatchJobTags, ChanOK, OutOK, Pending,
              BatchOkInOrder, AsyncQueueBound

(* simulate_async from the stream: refused at a full queue, so its jobs  *)
(* are queued only while the queue holds fewer than Workers of any kind. *)
LEMMA AsyncSubmitIInv ==
    ASSUME IInv, AsyncSubmit
    PROVE  IInv'
<1>. DEFINE e == [owner |-> "async", tag |-> 0, external |-> TRUE]
<1>1. e \in Job
  BY BatchFacts DEF Job
<1>2. queue \in Seq(Job)
  BY DEF IInv, TypeOK, Job
<1>3. nasync' \in 0..MaxAsync
  BY SimulatorAssumption DEF AsyncSubmit, IInv, TypeOK
<1>4. CASE Stalled(FALSE)
  <2>1. queue' = queue
    BY <1>4 DEF AsyncSubmit
  <2>2. TypeOK'
    BY <1>3, <2>1 DEF AsyncSubmit, IInv, TypeOK
  <2>3. BatchJobTags' /\ AsyncQueueBound'
    BY <2>1 DEF AsyncSubmit, IInv, BatchJobTags, AsyncQueueBound
  <2>. QED  BY <2>2, <2>3
            DEF AsyncSubmit, IInv, ChanOK, ChanGood, OutOK, Pending, BatchOkInOrder
<1>5. CASE ~Stalled(FALSE)
  <2>1. queue' = Append(queue, e) /\ Len(queue) < Workers
    BY <1>5, <1>2, LenProperties, SimulatorAssumption DEF AsyncSubmit, Stalled
  <2>2. /\ Append(queue, e) \in Seq(Job)
        /\ Len(Append(queue, e)) = Len(queue) + 1
        /\ \A i \in 1..Len(queue) : Append(queue, e)[i] = queue[i]
        /\ Append(queue, e)[Len(queue) + 1] = e
    BY <1>1, <1>2, AppendProperties
  <2>3. TypeOK'
    BY <1>3, <2>1, <2>2 DEF AsyncSubmit, IInv, TypeOK, Job
  <2>4. BatchJobTags'
    <3>1. Len(queue) \in Nat /\ e.owner = "async"
      BY <1>2, LenProperties
    <3>2. \A i \in 1..Len(queue') : queue'[i].owner = "batch" => queue'[i].tag \in 1..B
      BY <2>1, <2>2, <3>1 DEF IInv, BatchJobTags
    <3>. QED  BY <3>2 DEF AsyncSubmit, IInv, BatchJobTags
  <2>5. AsyncQueueBound'
    <3>1. Cardinality(AsyncIn(queue')) = Cardinality(AsyncIn(queue)) + 1
      BY <1>1, <1>2, <2>1, AsyncAppendAsync
    <3>2. Cardinality(AsyncIn(queue)) \in Nat /\ Cardinality(AsyncIn(queue)) <= Len(queue)
      BY <1>2, AsyncFinite
    <3>3. Cardinality(AsyncIn(queue')) <= Workers
      BY <2>1, <3>1, <3>2, <1>2, LenProperties, SimulatorAssumption
    <3>. QED  BY <3>3 DEF AsyncQueueBound, AsyncIn
  <2>. QED  BY <2>3, <2>4, <2>5
            DEF AsyncSubmit, IInv, ChanOK, ChanGood, OutOK, Pending, BatchOkInOrder
<1>. QED  BY <1>4, <1>5

(* A pool thread takes the oldest job: its tag moves with it. *)
LEMMA PickIInv ==
    ASSUME IInv, NEW w \in 1..Workers, Pick(w)
    PROVE  IInv'
<1>1. queue \in Seq(Job) /\ queue # <<>>
  BY DEF IInv, TypeOK, Job, Pick
<1>2. /\ Len(queue) \in Nat \ {0}
      /\ Head(queue) = queue[1]
      /\ Tail(queue) \in Seq(Job)
      /\ Len(Tail(queue)) = Len(queue) - 1
      /\ \A i \in 1..Len(queue) - 1 : Tail(queue)[i] = queue[i + 1]
  BY <1>1, HeadTailProperties, EmptySeq
<1>3. Head(queue) \in Job
  <2>1. 1 \in 1..Len(queue)
    BY <1>2
  <2>2. queue[1] \in Job
    BY <1>1, <2>1, ElementOfSeq, Zenon
  <2>. QED  BY <1>2, <2>2, Zenon
<1>4. Head(queue).owner = "batch" => Head(queue).tag \in 1..B
  BY <1>2 DEF IInv, BatchJobTags
<1>5. running' = [running EXCEPT ![w] = Head(queue)] /\ queue' = Tail(queue)
  BY DEF Pick
<1>6. TypeOK'
  <2>1. Head(queue) \in [owner : {"none", "batch", "async"}, tag : 0..B, external : BOOLEAN]
    BY <1>3 DEF Job
  <2>2. running' \in [1..Workers -> [owner : {"none", "batch", "async"}, tag : 0..B,
                                     external : BOOLEAN]]
    BY <1>5, <2>1 DEF IInv, TypeOK
  <2>3. queue' \in Seq([owner : {"batch", "async"}, tag : 0..B, external : BOOLEAN])
    BY <1>2, <1>5 DEF Job
  <2>. QED  BY <2>2, <2>3 DEF Pick, IInv, TypeOK
<1>7. BatchJobTags'
  BY <1>2, <1>4, <1>5 DEF IInv, TypeOK, BatchJobTags
<1>8. AsyncQueueBound'
  <2>1. Cardinality(AsyncIn(Tail(queue))) <= Cardinality(AsyncIn(queue))
    BY <1>1, AsyncTail
  <2>2. Cardinality(AsyncIn(Tail(queue))) \in Nat /\ Cardinality(AsyncIn(queue)) \in Nat
    BY <1>1, <1>2, AsyncFinite
  <2>4. Cardinality(AsyncIn(queue)) <= Workers
    BY DEF IInv, AsyncQueueBound, AsyncIn
  <2>5. AsyncIn(queue') = AsyncIn(Tail(queue))
    BY <1>5
  <2>3. Cardinality(AsyncIn(queue')) <= Workers
    BY <2>1, <2>2, <2>4, <2>5, SimulatorAssumption
  <2>. QED  BY <2>3 DEF AsyncQueueBound, AsyncIn
<1>. QED  BY <1>6, <1>7, <1>8
          DEF Pick, IInv, ChanOK, ChanGood, OutOK, Pending, BatchOkInOrder

(* A job's closure sends at most one result, true to its tag. *)
LEMMA RunIInv ==
    ASSUME IInv, NEW w \in 1..Workers, Run(w)
    PROVE  IInv'
<1>1. running[w].owner = "batch" => running[w].tag \in 1..B
  BY DEF IInv, BatchJobTags
<1>2. ChanOK'
  <2>1. PICK remoteOk \in BOOLEAN, dry \in DryOutcomes :
          bchan' = JobReply(running[w], remoteOk, dry)
    BY DEF Run
  <2>2. ChanGood(JobReply(running[w], remoteOk, dry))
    BY <1>1, JobReplyGood DEF IInv, ChanOK
  <2>. QED  BY <2>1, <2>2 DEF ChanOK, ChanGood
<1>3. running' = [running EXCEPT ![w] = Idle]
  BY DEF Run
<1>4. Idle \in [owner : {"none", "batch", "async"}, tag : 0..B, external : BOOLEAN]
  BY BatchFacts DEF Idle
<1>5. TypeOK' /\ BatchJobTags'
  BY <1>3, <1>4 DEF Run, IInv, TypeOK, BatchJobTags, Idle
<1>. QED  BY <1>2, <1>5
          DEF Run, IInv, OutOK, Pending, BatchOkInOrder, AsyncQueueBound

LEMMA ShutdownIInv ==
    ASSUME IInv, Shutdown
    PROVE  IInv'
BY DEF Shutdown, IInv, TypeOK, BatchJobTags, ChanOK, ChanGood, OutOK, Pending,
       BatchOkInOrder, AsyncQueueBound

LEMMA NextIInv == IInv /\ [Next]_vars => IInv'
<1>. SUFFICES ASSUME IInv, [Next]_vars PROVE IInv'
  OBVIOUS
<1>1. CASE Caller
  BY <1>1, FanOutIInv, EndFanOutIInv, ReceiveIInv, FinishIInv DEF Caller
<1>2. CASE AsyncSubmit
  BY <1>2, AsyncSubmitIInv
<1>3. CASE \E w \in 1..Workers : Worker(w)
  BY <1>3, PickIInv, RunIInv DEF Worker
<1>4. CASE Shutdown
  BY <1>4, ShutdownIInv
<1>5. CASE UNCHANGED vars
  BY <1>5 DEF vars, IInv, TypeOK, BatchJobTags, ChanOK, ChanGood, OutOK, Pending,
              BatchOkInOrder, AsyncQueueBound
<1>. QED  BY <1>1, <1>2, <1>3, <1>4, <1>5 DEF Next

-----------------------------------------------------------------------------
(* The weak fairness of Spec plays no part in these safety results. *)
THEOREM IInvHolds == Spec => []IInv
<1>1. Init /\ [][Next]_vars => []IInv
  BY InitIInv, NextIInv, PTL
<1>. QED  BY <1>1, PTL DEF Spec

(* The pool's queue, its threads' jobs, the batch's out and the counters *)
(* keep their types for every pool size and batch.                       *)
THEOREM TypeCorrect == Spec => []TypeOK
BY IInvHolds, PTL DEF IInv

(* However the pool's threads interleave and in whatever order their      *)
(* results reach the channel, simulate returns Ok only with the i-th tx's *)
(* simulation at index i, for every pool size and every batch.            *)
THEOREM BatchOkInOrderHolds == Spec => []BatchOkInOrder
BY IInvHolds, PTL DEF IInv

(* simulate_async's queued_count() >= max_count() check keeps the        *)
(* stream's own jobs in the queue at most Workers, for every pool size.  *)
THEOREM AsyncQueueBoundHolds == Spec => []AsyncQueueBound
BY IInvHolds, PTL DEF IInv

=============================================================================
