------------------------- MODULE FullyAsyncRollout -------------------------
(***************************************************************************)
(* The fully asynchronous rollout: slime/rollout/fully_async_rollout.py.   *)
(*                                                                         *)
(* A worker thread with an asyncio loop of its own keeps a fixed number of *)
(* group tasks in flight, across rollouts.  When a task ends, its callback *)
(* puts the group on a bounded queue, or back into the data source if it   *)
(* was aborted.  generate_rollout_fully_async, on another thread, drains   *)
(* the queue until it has a batch (the collector).  Between two rollouts   *)
(* train_async.py updates the weights, and pausing the engines for that    *)
(* aborts the requests in flight.                                          *)
(*                                                                         *)
(* A step of the worker is what its loop runs between two awaits; a step   *)
(* of the collector is one call on the queue.  A group's task, which is    *)
(* RolloutGeneration's subject, is cut down to posting its request and     *)
(* ending, and the samples of a group to one.                              *)
(*                                                                         *)
(* Suffixed variants of definitions make a plausible mistake, as in        *)
(* RolloutDataSource.                                                      *)
(***************************************************************************)
EXTENDS RolloutDataSource, SequencesExt

CONSTANTS
  TargetDataSize,         \* args.rollout_batch_size, in groups
  MaxConcurrent,          \* AsyncRolloutWorker.concurrency, in groups
  QueueCapacity,          \* maxsize of the output queue; 1000 in the code
  FanOut,                 \* a custom generate function returns lists of samples
  MaxRollouts,            \* bound: rollouts in a behaviour
  MaxCrashes,             \* bound: tasks that raise
  MaxSurplus              \* bound: groups the worker adds while a full batch is drained

ASSUME AsyncAssumption ==
  /\ TargetDataSize \in Nat \ {0}
  /\ MaxConcurrent \in Nat \ {0}
  /\ QueueCapacity \in Nat \ {0}
  /\ FanOut \in BOOLEAN
  /\ MaxRollouts \in Nat
  /\ MaxCrashes \in Nat
  /\ MaxSurplus \in Nat

VARIABLES
  rollout_id,
  collector,              \* idle, drain (in _generate_rollout_async), or failed
  collected,
  output_queue,
  worker,                 \* off, top_up, sleep (at its await), or blocked in put
  active_tasks,           \* as the groups of the tasks
  weight_version,         \* of the engines
  gstate,                 \* gstate[g]: where group g is, and then its fate
  outcome,                \* outcome[g]: how its last task ended
  posted_at,              \* posted_at[g]: the weights its last request was posted to
  response,               \* response[g][k]: the weights that generated token k
  queued_in               \* queued_in[g]: rollout_id when it was put on the queue

threadVars == <<rollout_id, collector, collected, output_queue, worker,
                active_tasks, weight_version>>
groupVars  == <<gstate, outcome, posted_at, response, queued_in>>
vars       == <<sourceVars, threadVars, groupVars>>

NoRollout == -1

\* The process ends with the last rollout, or with one that raises; atexit stops
\* the worker.
Alive ==
  \/ collector = "drain"
  \/ collector = "idle" /\ rollout_id + 1 < MaxRollouts

\* created, posted: the task runs; done: it ended and its callback has not run;
\* putting: the callback waits for room in the queue; recycled: in the buffer.
GState == {"created", "posted", "done", "putting", "recycled", "queued", "collected",
           "delivered", "surplus", "crashed"}

Running == {g \in Groups : gstate[g] \in {"created", "posted"}}

Init ==
  /\ SourceInit
  /\ rollout_id = NoRollout
  /\ collector = "idle"
  /\ collected = {}
  /\ output_queue = <<>>
  /\ worker = "off"
  /\ active_tasks = {}
  /\ weight_version = 0
  /\ gstate = [g \in {} |-> "created"]
  /\ outcome = [g \in {} |-> "none"]
  /\ posted_at = [g \in {} |-> 0]
  /\ response = [g \in {} |-> <<>>]
  /\ queued_in = [g \in {} |-> NoRollout]

-----------------------------------------------------------------------------
(* The collector: generate_rollout_fully_async, and the driver around it *)

\* The first call starts the worker.
StartRollout ==
  /\ collector = "idle"
  /\ rollout_id + 1 < MaxRollouts
  /\ rollout_id' = rollout_id + 1
  /\ collector' = "drain"
  /\ worker' = IF worker = "off" THEN "top_up" ELSE worker
  /\ UNCHANGED <<sourceVars, collected, output_queue, active_tasks, weight_version,
                 groupVars>>

EnoughExactly == Cardinality(collected) = TargetDataSize

Enough == Cardinality(collected) >= TargetDataSize

MoreToDrainUntilEnough == output_queue # <<>> /\ ~Enough

\* get_completed_groups goes on until the queue is empty, whatever the target.
MoreToDrain == output_queue # <<>>

DrainOne ==
  /\ collector = "drain"
  /\ MoreToDrain
  /\ collected' = collected \cup {Head(output_queue)}
  /\ output_queue' = Tail(output_queue)
  /\ gstate' = [gstate EXCEPT ![Head(output_queue)] = "collected"]
  /\ UNCHANGED <<sourceVars, rollout_id, collector, worker, active_tasks, weight_version,
                 outcome, posted_at, response, queued_in>>

OutAll == collected

\* sorted(collected.values(), key=index)[:target].  What has left the
\* component starts over in the variables that describe it.
Out == {g \in collected : Cardinality({h \in collected : h < g}) < TargetDataSize}

HandOver ==
  /\ collector' = "idle"
  /\ collected' = {}
  /\ gstate' = [g \in Groups |-> IF g \in Out THEN "delivered"
                                 ELSE IF g \in collected THEN "surplus" ELSE gstate[g]]
  /\ outcome' = [g \in Groups |-> IF g \in collected THEN "none" ELSE outcome[g]]
  /\ posted_at' = [g \in Groups |-> IF g \in collected THEN 0 ELSE posted_at[g]]
  /\ response' = [g \in Groups |-> IF g \in collected THEN <<>> ELSE response[g]]
  /\ queued_in' = [g \in Groups |-> IF g \in collected THEN NoRollout ELSE queued_in[g]]

\* The key of the sort looks for an attribute named index.  That of a list of
\* samples is a method, and int() of it raises.
FinishRollout ==
  /\ collector = "drain"
  /\ ~MoreToDrain
  /\ Enough
  /\ IF FanOut THEN collector' = "failed" /\ UNCHANGED <<collected, groupVars>> ELSE HandOver
  /\ UNCHANGED <<sourceVars, rollout_id, output_queue, worker, active_tasks, weight_version>>

\* train_async.py: at most once after each rollout, with none in flight.
UpdateWeights ==
  /\ collector = "idle"
  /\ Alive
  /\ weight_version <= rollout_id
  /\ weight_version' = weight_version + 1
  /\ UNCHANGED <<sourceVars, rollout_id, collector, collected, output_queue, worker,
                 active_tasks, groupVars>>

-----------------------------------------------------------------------------
(* The worker's loop: AsyncRolloutWorker._loop *)

\* Nothing else runs on the loop while it tops up or is blocked in put.
LoopFree == worker = "sleep" /\ Alive

\* Tasks that are done leave active_tasks, their callbacks run or not.
Reaped == active_tasks \cap Running

\* One iteration up to its top-up.  Without a task to reap the set is full and
\* an iteration does nothing.  A callback runs in the pass of the event loop
\* after the one that ended its task, so none is left from an earlier iteration.
Wake ==
  /\ LoopFree
  /\ Reaped # active_tasks
  /\ \A g \in Groups \ active_tasks : gstate[g] # "done"
  /\ active_tasks' = Reaped
  /\ worker' = "top_up"
  /\ UNCHANGED <<sourceVars, rollout_id, collector, collected, output_queue,
                 weight_version, groupVars>>

TopUp ==
  /\ worker = "top_up" /\ Alive
  /\ GetSamples(1)
  /\ LET got == HandedOut(1)
     IN  /\ active_tasks' = active_tasks \cup got
         /\ gstate' = [g \in Groups' |-> IF g \in got THEN "created" ELSE gstate[g]]
         /\ outcome' = [g \in Groups' |-> IF g \in got THEN "none" ELSE outcome[g]]
         /\ posted_at' = [g \in Groups' |-> IF g \in got THEN 0 ELSE posted_at[g]]
         /\ response' = [g \in Groups' |-> IF g \in Groups THEN response[g] ELSE <<>>]
         /\ queued_in' = [g \in Groups' |-> IF g \in got THEN NoRollout ELSE queued_in[g]]
         /\ worker' = IF Cardinality(active_tasks') < MaxConcurrent THEN "top_up"
                                                                    ELSE "sleep"
  /\ UNCHANGED <<rollout_id, collector, collected, output_queue, weight_version>>

-----------------------------------------------------------------------------
(* The tasks: generate_and_rm_group as the worker sees it *)

\* The request is posted when the task has run and got a permit.
Post(g) ==
  /\ LoopFree
  /\ gstate[g] = "created"
  /\ gstate' = [gstate EXCEPT ![g] = "posted"]
  /\ posted_at' = [posted_at EXCEPT ![g] = weight_version]
  /\ UNCHANGED <<sourceVars, threadVars, outcome, response, queued_in>>

\* The task ends.  Requests that were in flight during an update may have been
\* aborted, with or without new tokens; any task may raise.
EndTask(g) ==
  /\ LoopFree
  /\ gstate[g] = "posted"
  /\ gstate' = [gstate EXCEPT ![g] = "done"]
  /\ \E how \in {"completed", "aborted", "crashed"}, extended \in BOOLEAN :
       /\ outcome' = [outcome EXCEPT ![g] = how]
       /\ how = "completed" => extended
       /\ how = "aborted" => posted_at[g] < weight_version
       /\ how = "crashed" => /\ ~extended
                             /\ Cardinality({h \in Groups : outcome[h] = "crashed"}) < MaxCrashes
       /\ response' = IF extended
                      THEN [response EXCEPT ![g] = Append(@, posted_at[g])]
                      ELSE response
  /\ UNCHANGED <<sourceVars, threadVars, posted_at, queued_in>>

-----------------------------------------------------------------------------
(* The callback of a task that is done: AsyncRolloutWorker._make_done_cb *)

SeenAbortedNever(g) == FALSE

\* The callback looks for an aborted sample in the result; in a list of lists
\* of samples it finds no attribute named status.
SeenAborted(g) == outcome[g] = "aborted" /\ ~FanOut

Enqueue(g) ==
  /\ output_queue' = Append(output_queue, g)
  /\ gstate' = [gstate EXCEPT ![g] = "queued"]
  /\ queued_in' = [queued_in EXCEPT ![g] = rollout_id]

Room == Len(output_queue) < QueueCapacity

DropCrashed(g) ==
  /\ LoopFree
  /\ gstate[g] = "done"
  /\ outcome[g] = "crashed"
  /\ gstate' = [gstate EXCEPT ![g] = "crashed"]
  /\ UNCHANGED <<sourceVars, threadVars, outcome, posted_at, response, queued_in>>

\* Variant: the return after the requeue is missing.
RequeueAndShip(g) ==
  /\ LoopFree
  /\ gstate[g] = "done"
  /\ SeenAborted(g)
  /\ Room
  /\ AddSamples(<<g>>)
  /\ Enqueue(g)
  /\ UNCHANGED <<rollout_id, collector, collected, worker, active_tasks, weight_version,
                 outcome, posted_at, response>>

Requeue(g) ==
  /\ LoopFree
  /\ gstate[g] = "done"
  /\ SeenAborted(g)
  /\ AddSamples(<<g>>)
  /\ gstate' = [gstate EXCEPT ![g] = "recycled"]
  /\ UNCHANGED <<threadVars, outcome, posted_at, response, queued_in>>

\* Names the bound on how far the worker runs ahead of a collector that has
\* enough and is still draining.
NotTooFarAhead ==
  collector = "drain" =>
    Cardinality(collected) + Len(output_queue) < TargetDataSize + MaxSurplus

\* put: with the queue full, the whole event loop waits in it.
Ship(g) ==
  /\ LoopFree
  /\ gstate[g] = "done"
  /\ outcome[g] # "crashed" /\ ~SeenAborted(g)
  /\ NotTooFarAhead
  /\ IF Room
     THEN /\ Enqueue(g)
          /\ UNCHANGED worker
     ELSE /\ worker' = "blocked"
          /\ gstate' = [gstate EXCEPT ![g] = "putting"]
          /\ UNCHANGED <<output_queue, queued_in>>
  /\ UNCHANGED <<sourceVars, rollout_id, collector, collected, active_tasks, weight_version,
                 outcome, posted_at, response>>

Unblock(g) ==
  /\ worker = "blocked" /\ Alive
  /\ gstate[g] = "putting"
  /\ Room
  /\ NotTooFarAhead
  /\ Enqueue(g)
  /\ worker' = "sleep"
  /\ UNCHANGED <<sourceVars, rollout_id, collector, collected, active_tasks, weight_version,
                 outcome, posted_at, response>>

Terminating ==
  /\ ~Alive
  /\ UNCHANGED vars

Next ==
  \/ StartRollout
  \/ DrainOne
  \/ FinishRollout
  \/ UpdateWeights
  \/ Wake
  \/ TopUp
  \/ \E g \in Groups : Post(g)
  \/ \E g \in Groups : EndTask(g)
  \/ \E g \in Groups : DropCrashed(g)
  \/ \E g \in Groups : Requeue(g)
  \/ \E g \in Groups : Ship(g)
  \/ \E g \in Groups : Unblock(g)
  \/ Terminating

Spec == Init /\ [][Next]_vars

\* Both threads run, engines answer; no task has priority over another.
FairSpec == Spec /\ WF_vars(Next)
-----------------------------------------------------------------------------
TypeOK ==
  /\ SourceTypeOK
  /\ rollout_id \in Nat \cup {NoRollout}
  /\ collector \in {"idle", "drain", "failed"}
  /\ collected \in SUBSET Groups
  /\ output_queue \in Seq(Groups)
  /\ worker \in {"off", "top_up", "sleep", "blocked"}
  /\ active_tasks \in SUBSET Groups
  /\ weight_version \in Nat
  /\ gstate \in [Groups -> GState]
  /\ outcome \in [Groups -> {"none", "completed", "aborted", "crashed"}]
  /\ posted_at \in [Groups -> Nat]
  /\ response \in [Groups -> Seq(Nat)]
  /\ queued_in \in [Groups -> Nat \cup {NoRollout}]

(***************************************************************************)
(* A group is in one place: a task, a callback, the buffer, the queue, the *)
(* collector, or delivered or dropped for good.  The same group is never   *)
(* queued or buffered twice, and a task of a group that is resumed never   *)
(* shares active_tasks with its previous one (fully_async_rollout.py:123-  *)
(* 153, 169-191).                                                          *)
(***************************************************************************)
OneOwner ==
  /\ IsInjective(buffer) /\ IsInjective(output_queue)
  /\ ToSet(buffer) = {g \in Groups : gstate[g] = "recycled"}
  /\ ToSet(output_queue) = {g \in Groups : gstate[g] = "queued"}
  /\ collected = {g \in Groups : gstate[g] = "collected"}
  /\ Running \subseteq active_tasks
  /\ worker = "top_up" => active_tasks = Running

(***************************************************************************)
(* "Groups containing an ABORTED sample are pushed back into               *)
(* data_buffer.add_samples instead of being shipped to training"           *)
(* (examples/fully_async/README.md:71-72).                                 *)
(***************************************************************************)
NoAbortedShipped ==
  \A g \in Groups :
    gstate[g] \in {"putting", "queued", "collected"} => outcome[g] = "completed"

(***************************************************************************)
(* A group that was put on the queue is collected by the rollout in flight *)
(* or by the next one: the queue does not age, because every rollout       *)
(* drains all of it (fully_async_rollout.py:101-108, 211-219).             *)
(***************************************************************************)
QueueDoesNotAge ==
  \A g \in Groups :
    gstate[g] \in {"queued", "collected"} =>
      queued_in[g] + (IF collector = "idle" THEN 0 ELSE 1) >= rollout_id

(***************************************************************************)
(* The rollout keeps the contract of a rollout function: full batches, no  *)
(* group delivered twice, and no group back from the dead                  *)
(* (fully_async_rollout.py:169-191, 206-248).                              *)
(***************************************************************************)
Trained == {g \in Groups : gstate[g] = "delivered"}
Dropped == {g \in Groups : gstate[g] \in {"surplus", "crashed"}}
Returned == rollout_id + (IF collector = "idle" THEN 1 ELSE 0)

Contract == INSTANCE RolloutContract WITH
  BatchSize <- TargetDataSize,
  issued    <- Groups,
  trained   <- Trained,
  dropped   <- Dropped,
  rollouts  <- Returned

KeepsContract == Contract!ContractSpec

(***************************************************************************)
(* A rollout that was started ends, with tasks that raise, an update       *)
(* between rollouts, and a worker that blocks on a full queue              *)
(* (fully_async_rollout.py:189, 211-231).                                  *)
(***************************************************************************)
RolloutEnds == (collector = "drain") ~> (collector = "idle")

(***************************************************************************)
(* Of custom generate functions that return "Sample | list[Sample]": "they *)
(* work unchanged under fully-async" (examples/fully_async/README.md:50-   *)
(* 54).  No rollout ends in an exception.                                  *)
(***************************************************************************)
CollectorReturns == collector # "failed"

(***************************************************************************)
(* "each generate_rollout call drains until it has rollout_batch_size      *)
(* groups and returns them" (examples/fully_async/README.md:68-70): a      *)
(* finished group is delivered or still on its way.                        *)
(***************************************************************************)
FinishedKept == \A g \in Groups : gstate[g] # "surplus"

(***************************************************************************)
(* Of an aborted trajectory: "for now the trajectory is re-queued and      *)
(* starts over" (examples/fully_async/README.md:80-81).  A response that   *)
(* is collected then has tokens of its last request only.                  *)
(***************************************************************************)
StartsOver ==
  \A g \in Groups :
    gstate[g] = "collected" =>
      \A k \in DOMAIN response[g] : response[g][k] = posted_at[g]
=============================================================================
