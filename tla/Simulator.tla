------------------------------ MODULE Simulator ------------------------------
(***************************************************************************)
(* The transaction simulator (src/common/block_builder/src/simulator.rs): *)
(* a ThreadPool of Workers threads behind a mutex, simulate_async that     *)
(* refuses a job with QueueStalled when force is false and the pool's      *)
(* queue already holds max_count jobs, and the batch simulate that fans a  *)
(* list of txs out with their index as tag and reassembles the tagged      *)
(* results from an mpsc channel.  Two kinds of caller share the pool: the  *)
(* pool aggregator's stream (simulate_async, force false, external) and    *)
(* one batch caller (simulate, force true, not external).  A job's         *)
(* simulation is abstracted to its outcome; a successful result carries   *)
(* the simulated tx.                                                       *)
(***************************************************************************)
EXTENDS Integers, Sequences, FiniteSets

CONSTANTS
    Workers,     \* ThreadPool::new(num): max_count()
    BatchTxs,    \* the txs handed to simulate, in order
    MaxAsync     \* bound on the stream's simulate_async calls

ASSUME SimulatorAssumption ==
    /\ Workers \in Nat \ {0}
    /\ BatchTxs \in Seq(STRING) /\ Len(BatchTxs) > 0
    /\ MaxAsync \in Nat

B == Len(BatchTxs)
Idle == [owner |-> "none", tag |-> 0, external |-> FALSE]

(* Outcomes a worker's job reports: simulate_inner's Ok, Execute and     *)
(* State, the QueueStalled of a dead alive, and a panic, after which the  *)
(* job's sender is dropped without a message.                             *)
DryOutcomes == {"Ok", "Execute", "State", "Panic"}

VARIABLES
    queue,     \* the pool's job queue: queued_count() = Len(queue)
    running,   \* running[w]: the job worker w executes, or Idle
    alive,     \* the simulator's Alive
    bchan,     \* the batch's mpsc channel: results [tag, err, tx]
    cpc,       \* batch caller: "fanout", "recv" or "done"
    cidx,      \* fanout: txs handed out; recv: results received
    out,       \* out[i]: the tx placed at index i, or "none"
    cres,      \* the batch's Result: "pending", "Ok" or the error
    nasync     \* simulate_async calls made by the stream

vars == <<queue, running, alive, bchan, cpc, cidx, out, cres, nasync>>

-----------------------------------------------------------------------------
(* The batch's senders still alive: the caller's own while it fans out,   *)
(* and one per batch job that is queued or running.                       *)
BatchJobsLive ==
    Cardinality({i \in 1..Len(queue) : queue[i].owner = "batch"})
    + Cardinality({w \in 1..Workers : running[w].owner = "batch"})

(* Mutant: the saturation test off by one. *)
StalledOffByOne(force) == Len(queue) > Workers /\ ~force

Stalled(force) == Len(queue) >= Workers /\ ~force

(* A result for the batch's channel; the stream's results go to the      *)
(* aggregator's receiver, which this model does not follow.              *)
Reply(job, err) ==
    IF job.owner = "batch"
    THEN Append(bchan, [tag |-> job.tag, err |-> err,
                        tx |-> IF err = "none" THEN BatchTxs[job.tag] ELSE "none"])
    ELSE bchan

-----------------------------------------------------------------------------
Init ==
    /\ queue = <<>>
    /\ running = [w \in 1..Workers |-> Idle]
    /\ alive = TRUE
    /\ bchan = <<>>
    /\ cpc = "fanout" /\ cidx = 0
    /\ out = [i \in 1..B |-> "none"]
    /\ cres = "pending"
    /\ nasync = 0

(* Mutant: the fan-out loop runs one index past the batch. *)
FanOutOffByOne ==
    /\ cpc = "fanout" /\ cidx <= B
    /\ ~Stalled(TRUE)
    /\ queue' = Append(queue, [owner |-> "batch", tag |-> cidx + 1, external |-> FALSE])
    /\ cidx' = cidx + 1
    /\ UNCHANGED <<cpc, running, alive, bchan, out, cres, nasync>>

(* simulate_async from simulate's loop: the callers pass force = true,   *)
(* so Stalled never holds and the job is queued with its index as tag.    *)
FanOut ==
    /\ cpc = "fanout" /\ cidx < B
    /\ ~Stalled(TRUE)
    /\ queue' = Append(queue, [owner |-> "batch", tag |-> cidx + 1, external |-> FALSE])
    /\ cidx' = cidx + 1
    /\ UNCHANGED <<cpc, running, alive, bchan, out, cres, nasync>>

(* The block ends: the caller's sender is dropped and it starts receiving. *)
EndFanOut ==
    /\ cpc = "fanout" /\ cidx = B
    /\ cpc' = "recv" /\ cidx' = 0
    /\ UNCHANGED <<queue, running, alive, bchan, out, cres, nasync>>

(* Mutant: results stored in arrival order rather than at their tag. *)
ReceiveArrivalOrder ==
    /\ cpc = "recv" /\ cidx < B
    /\ \/ /\ bchan # <<>>
          /\ LET m == Head(bchan) IN
             IF m.err # "none"
             THEN /\ cres' = m.err /\ cpc' = "done" /\ UNCHANGED <<out, cidx>>
             ELSE /\ out' = [out EXCEPT ![cidx + 1] = m.tx]
                  /\ cidx' = cidx + 1
                  /\ UNCHANGED <<cres, cpc>>
          /\ bchan' = Tail(bchan)
       \/ /\ bchan = <<>> /\ BatchJobsLive = 0
          /\ cres' = "UnexpectedExited" /\ cpc' = "done"
          /\ UNCHANGED <<bchan, out, cidx>>
    /\ UNCHANGED <<queue, running, alive, nasync>>

(* Mutant: the caller's sender outlives the fan-out, so recv never sees   *)
(* every sender gone.                                                      *)
ReceiveKeepsSender ==
    /\ cpc = "recv" /\ cidx < B /\ bchan # <<>>
    /\ LET m == Head(bchan) IN
       IF m.err # "none"
       THEN /\ cres' = m.err /\ cpc' = "done" /\ UNCHANGED <<out, cidx>>
       ELSE /\ out' = [out EXCEPT ![m.tag] = m.tx]
            /\ cidx' = cidx + 1
            /\ UNCHANGED <<cres, cpc>>
    /\ bchan' = Tail(bchan)
    /\ UNCHANGED <<queue, running, alive, nasync>>

(* for _ in 0..out.len(): receiver.recv(); an error result returns it, a  *)
(* success fills out[tag]; a recv with every sender gone is               *)
(* UnexpectedExited.  After the loop an unfilled index is UnknownError.   *)
Receive ==
    /\ cpc = "recv" /\ cidx < B
    /\ \/ /\ bchan # <<>>
          /\ LET m == Head(bchan) IN
             IF m.err # "none"
             THEN /\ cres' = m.err /\ cpc' = "done" /\ UNCHANGED <<out, cidx>>
             ELSE /\ out' = [out EXCEPT ![m.tag] = m.tx]
                  /\ cidx' = cidx + 1
                  /\ UNCHANGED <<cres, cpc>>
          /\ bchan' = Tail(bchan)
       \/ /\ bchan = <<>> /\ BatchJobsLive = 0
          /\ cres' = "UnexpectedExited" /\ cpc' = "done"
          /\ UNCHANGED <<bchan, out, cidx>>
    /\ UNCHANGED <<queue, running, alive, nasync>>

Finish ==
    /\ cpc = "recv" /\ cidx = B
    /\ cres' = IF \E i \in 1..B : out[i] = "none" THEN "UnknownError" ELSE "Ok"
    /\ cpc' = "done"
    /\ UNCHANGED <<queue, running, alive, bchan, cidx, out, nasync>>

(* The aggregator's simulate_thread: simulate_async with force false and  *)
(* external true; a full queue answers QueueStalled at once.             *)
AsyncSubmit ==
    /\ nasync < MaxAsync
    /\ nasync' = nasync + 1
    /\ queue' = IF Stalled(FALSE) THEN queue
                ELSE Append(queue, [owner |-> "async", tag |-> 0, external |-> TRUE])
    /\ UNCHANGED <<running, alive, bchan, cpc, cidx, out, cres>>

(* An idle pool thread takes the oldest queued job. *)
Pick(w) ==
    /\ running[w] = Idle /\ queue # <<>>
    /\ running' = [running EXCEPT ![w] = Head(queue)]
    /\ queue' = Tail(queue)
    /\ UNCHANGED <<alive, bchan, cpc, cidx, out, cres, nasync>>

(* The job's closure: QueueStalled when alive is gone; with external and  *)
(* a defined tip, create_access_list, whose success is sent and returns;  *)
(* otherwise simulate_inner's outcome.  A panic sends nothing.            *)
JobReply(job, remoteOk, dry) ==
    CASE ~alive                    -> Reply(job, "QueueStalled")
      [] job.external /\ remoteOk  -> Reply(job, "none")
      [] dry = "Panic"             -> bchan
      [] dry = "Ok"                -> Reply(job, "none")
      [] OTHER                     -> Reply(job, dry)

Run(w) ==
    /\ running[w] # Idle
    /\ \E remoteOk \in BOOLEAN, dry \in DryOutcomes :
          bchan' = JobReply(running[w], remoteOk, dry)
    /\ running' = [running EXCEPT ![w] = Idle]
    /\ UNCHANGED <<queue, alive, cpc, cidx, out, cres, nasync>>

(* The process's Alive is shut down. *)
Shutdown ==
    /\ alive
    /\ alive' = FALSE
    /\ UNCHANGED <<queue, running, bchan, cpc, cidx, out, cres, nasync>>

Caller == FanOut \/ EndFanOut \/ Receive \/ Finish

Worker(w) == Pick(w) \/ Run(w)

Next ==
    \/ Caller
    \/ AsyncSubmit
    \/ \E w \in 1..Workers : Worker(w)
    \/ Shutdown

(* Pool threads and the caller are OS threads that keep being scheduled  *)
(* while they can run; shutdown and the stream need not happen.           *)
Spec == Init /\ [][Next]_vars /\ WF_vars(Caller)
        /\ \A w \in 1..Workers : WF_vars(Worker(w))

-----------------------------------------------------------------------------
(* Every variable has its type. *)
TypeOK ==
    /\ queue \in Seq([owner : {"batch", "async"}, tag : 0..B, external : BOOLEAN])
    /\ running \in [1..Workers -> [owner : {"none", "batch", "async"}, tag : 0..B,
                                   external : BOOLEAN]]
    /\ alive \in BOOLEAN
    /\ cpc \in {"fanout", "recv", "done"} /\ cidx \in 0..B
    /\ out \in [1..B -> {BatchTxs[i] : i \in 1..B} \cup {"none"}]
    /\ nasync \in 0..MaxAsync

(* The workers finish in any order; simulate puts each result at its tag, *)
(* so a batch that returns Ok returns the simulation of its i-th tx at    *)
(* index i.                                                                *)
BatchOkInOrder ==
    cres = "Ok" => \A i \in 1..B : out[i] = BatchTxs[i]

(* simulate_async checks queued_count() >= max_count() under the pool's   *)
(* lock, so the stream, which does not force, never queues more than      *)
(* Workers jobs of its own however the batch and the workers interleave.  *)
AsyncQueueBound ==
    Cardinality({i \in 1..Len(queue) : queue[i].owner = "async"}) <= Workers

(* A batch simulate always returns: every job either sends one result or *)
(* drops its sender, and the caller's own sender is dropped after the     *)
(* fan-out, so recv cannot block forever even when a job panics.          *)
BatchReturns == <>(cpc = "done")

=============================================================================
