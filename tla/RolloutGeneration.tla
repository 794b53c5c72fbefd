------------------------- MODULE RolloutGeneration -------------------------
(***************************************************************************)
(* One rollout of the stock rollout function, and the rollouts after it:   *)
(* slime/rollout/sglang_rollout.py, generate_rollout, on one asyncio loop. *)
(*                                                                         *)
(* The main coroutine (generate_rollout_async) submits one task per group  *)
(* and reaps them as they finish; a group's task (generate_and_rm_group)   *)
(* spawns one task per sample (generate_and_rm), which takes a permit of   *)
(* the concurrency semaphore, posts one request to the engines and asks    *)
(* the reward model.  With enough groups collected, abort() cancels the    *)
(* requests in flight and, under --partial-rollout, the unfinished groups  *)
(* go back to the data source and are resumed by a later rollout.          *)
(*                                                                         *)
(* Code between two awaits is one step here.  While pc = "submit" the main *)
(* coroutine has not awaited yet and no task can run.                      *)
(*                                                                         *)
(* As in RolloutDataSource, a definition may be preceded by a variant with *)
(* a suffixed name that makes a plausible mistake.                         *)
(***************************************************************************)
EXTENDS RolloutDataSource

CONSTANTS
  TargetDataSize,         \* args.rollout_batch_size, in groups
  OverSamplingBatchSize,  \* args.over_sampling_batch_size, in groups
  SampleIds,              \* the positions in a group; args.n_samples_per_prompt many
  Concurrency,            \* permits of GenerateState.semaphore
  MaxResponseLen,         \* args.rollout_max_response_len, in tokens
  PartialRollout,         \* args.partial_rollout
  MaskOffpolicy,          \* args.mask_offpolicy_in_partial_rollout
  GroupRm,                \* args.group_rm
  MaxRollouts,            \* bound: rollouts in a behaviour
  MaxFiltered             \* bound: groups the dynamic filter drops

ASSUME GenerationAssumption ==
  /\ TargetDataSize \in Nat \ {0}
  /\ OverSamplingBatchSize \in Nat
  /\ OverSamplingBatchSize >= TargetDataSize      \* arguments.py:1866
  /\ IsFiniteSet(SampleIds) /\ SampleIds # {}
  /\ Concurrency \in Nat \ {0}
  /\ MaxResponseLen \in Nat \ {0}
  /\ PartialRollout \in BOOLEAN
  /\ MaskOffpolicy \in BOOLEAN
  /\ GroupRm \in BOOLEAN
  /\ MaxRollouts \in Nat
  /\ MaxFiltered \in Nat

VARIABLES
  rollout_id,
  pc,                     \* where the main coroutine is
  remaining_batch_size,   \* GenerateState.remaining_batch_size
  pendings,               \* GenerateState.pendings, as the groups of the tasks
  aborted,                \* GenerateState.aborted
  permits,                \* free permits of GenerateState.semaphore
  data,                   \* the groups collected for training
  aborted_samples,        \* what abort() collects, in order
  gstate,                 \* gstate[g]: the progress and then the fate of group g
  tstate,                 \* tstate[g][i]: the progress of sample i's task
  samples                 \* samples[g][i]: the Sample

stateVars == <<rollout_id, pc, remaining_batch_size, pendings, aborted,
               permits, data, aborted_samples>>
taskVars  == <<gstate, tstate, samples>>
vars      == <<sourceVars, stateVars, taskVars>>

NoRollout == -1

\* created: the task has not run; running: its samples are awaited;
\* group_rm: the group reward is awaited; done: the task has its result.
GLive == {"created", "running", "group_rm", "done"}
GFate == {"kept", "delivered", "filtered", "surplus", "discarded", "recycled"}

\* idle: no task; start: task created; acquire: at the semaphore; generate:
\* request in flight, permit held; reward: reward awaited; returned.
TState == {"idle", "start", "acquire", "generate", "reward", "returned"}

Status == {"PENDING", "COMPLETED", "TRUNCATED", "ABORTED"}

\* response[k] is the rollout that generated token k; loss_mask is None
\* until masked; start_rollout_id is the metadata entry of that name.
Sample == [status : Status, response : Seq(Nat), masked : BOOLEAN,
           loss_mask : Seq({0, 1}), rewarded : BOOLEAN,
           start_rollout_id : Nat \cup {NoRollout}]

FreshSample == [status |-> "PENDING", response |-> <<>>, masked |-> FALSE,
                loss_mask |-> <<>>, rewarded |-> FALSE,
                start_rollout_id |-> NoRollout]

Finished(s) == s.status \in {"COMPLETED", "TRUNCATED"}

Repeat(x, n) == [k \in 1 .. n |-> x]

Init ==
  /\ SourceInit
  /\ rollout_id = NoRollout
  /\ pc = "idle"
  /\ remaining_batch_size = 0
  /\ pendings = {}
  /\ aborted = FALSE
  /\ permits = Concurrency
  /\ data = {}
  /\ aborted_samples = <<>>
  /\ gstate = [g \in {} |-> "created"]
  /\ tstate = [g \in {} |-> [i \in SampleIds |-> "idle"]]
  /\ samples = [g \in {} |-> [i \in SampleIds |-> FreshSample]]

-----------------------------------------------------------------------------
(* The main coroutine: generate_rollout_async and abort *)

LoopPcLate(collected, remaining) ==
  IF Cardinality(collected) >= TargetDataSize THEN "drain"
  ELSE IF remaining = 0 THEN "submit" ELSE "wait"

\* The two while conditions, read after a step that changed their inputs.
LoopPc(collected, remaining) ==
  IF Cardinality(collected) >= TargetDataSize THEN "drain"
  ELSE IF remaining < TargetDataSize THEN "submit" ELSE "wait"

StartRollout ==
  /\ pc = "idle"
  /\ rollout_id + 1 < MaxRollouts
  /\ rollout_id' = rollout_id + 1
  /\ data' = {}
  /\ aborted_samples' = <<>>
  /\ pc' = LoopPc({}, remaining_batch_size)
  /\ UNCHANGED <<sourceVars, remaining_batch_size, pendings, aborted, permits, taskVars>>

\* data_source(over_sampling_batch_size), then GenerateState.submit_generate_tasks.
SubmitTasks ==
  /\ pc = "submit"
  /\ GetSamples(OverSamplingBatchSize)
  /\ LET got == HandedOut(OverSamplingBatchSize)
     IN  /\ pendings' = pendings \cup got
         /\ remaining_batch_size' = remaining_batch_size + Cardinality(got)
         /\ pc' = LoopPc(data, remaining_batch_size')
         /\ gstate' = [g \in Groups' |-> IF g \in got THEN "created" ELSE gstate[g]]
         /\ tstate' = [g \in Groups' |-> IF g \in got THEN [i \in SampleIds |-> "idle"]
                                                      ELSE tstate[g]]
         /\ samples' = [g \in Groups' |-> IF g \in Groups THEN samples[g]
                                          ELSE [i \in SampleIds |-> FreshSample]]
  /\ UNCHANGED <<rollout_id, aborted, permits, data, aborted_samples>>

DonePendings == {g \in pendings : gstate[g] = "done"}

TakenAll(kept) == Cardinality(kept)

\* How many of the kept groups still fit into data.
Taken(kept) == Lesser(Cardinality(kept), TargetDataSize - Cardinality(data))

\* asyncio.wait(FIRST_COMPLETED) returns every finished task.  The dynamic
\* filter keeps some of their groups; the first of those fill data up to the
\* target and the rest are dropped.  With data full, abort() is entered in the
\* same step and sets state.aborted before it awaits anything.
CollectDone ==
  /\ pc = "wait"
  /\ DonePendings # {}
  /\ \E kept \in SUBSET DonePendings : \E chosen \in SUBSET kept :
       LET dropped == DonePendings \ kept
       IN  /\ Cardinality({g \in Groups : gstate[g] = "filtered"} \cup dropped) <= MaxFiltered
           /\ Cardinality(chosen) = Taken(kept)
           /\ pendings' = pendings \ DonePendings
           /\ remaining_batch_size' = remaining_batch_size - Cardinality(dropped)
           /\ data' = data \cup chosen
           /\ pc' = LoopPc(data', remaining_batch_size')
           /\ aborted' = (pc' = "drain")
           /\ gstate' = [g \in Groups |-> IF g \in chosen THEN "kept"
                                          ELSE IF g \in kept THEN "surplus"
                                          ELSE IF g \in dropped THEN "filtered"
                                          ELSE gstate[g]]
  /\ UNCHANGED <<sourceVars, rollout_id, permits, aborted_samples, tstate, samples>>

\* The orders in which a loop over a Python set may visit it.
Orders(S) == {f \in [1 .. Cardinality(S) -> S] : \A x \in S : \E k \in DOMAIN f : f[k] = x}

TagStart(s) ==
  IF s.response # <<>> /\ s.start_rollout_id = NoRollout
  THEN [s EXCEPT !.start_rollout_id = rollout_id]
  ELSE s

\* One round of abort()'s wait for the pending tasks.
DrainPendings ==
  /\ pc = "drain"
  /\ DonePendings # {}
  /\ pendings' = pendings \ DonePendings
  /\ \/ /\ PartialRollout
        /\ \E order \in Orders(DonePendings) : aborted_samples' = aborted_samples \o order
        /\ gstate' = [g \in Groups |-> IF g \in DonePendings THEN "recycled" ELSE gstate[g]]
        /\ samples' = [g \in Groups |-> IF g \in DonePendings
                                        THEN [i \in SampleIds |-> TagStart(samples[g][i])]
                                        ELSE samples[g]]
     \/ /\ ~PartialRollout
        /\ gstate' = [g \in Groups |-> IF g \in DonePendings THEN "discarded" ELSE gstate[g]]
        /\ UNCHANGED <<aborted_samples, samples>>
  /\ UNCHANGED <<sourceVars, rollout_id, pc, remaining_batch_size, aborted, permits,
                 data, tstate>>

\* abort() returns, state.reset(), and generate_rollout hands the aborted
\* groups to data_source.add_samples.
FinishRollout ==
  /\ pc = "drain"
  /\ pendings = {}
  /\ pc' = "idle"
  /\ remaining_batch_size' = 0
  /\ aborted' = FALSE
  /\ AddSamples(aborted_samples)
  /\ gstate' = [g \in Groups |-> IF g \in data THEN "delivered" ELSE gstate[g]]
  /\ UNCHANGED <<rollout_id, pendings, permits, data, aborted_samples, tstate, samples>>

-----------------------------------------------------------------------------
(* The tasks: generate_and_rm_group and generate_and_rm *)

LoopFree == pc # "submit"

\* A group whose task first runs after the abort is returned untouched.
StartGroup(g) ==
  /\ LoopFree
  /\ gstate[g] = "created"
  /\ \/ /\ aborted
        /\ gstate' = [gstate EXCEPT ![g] = "done"]
        /\ UNCHANGED tstate
     \/ /\ ~aborted
        /\ gstate' = [gstate EXCEPT ![g] = "running"]
        /\ tstate' = [tstate EXCEPT ![g] = [i \in SampleIds |-> "start"]]
  /\ UNCHANGED <<sourceVars, stateVars, samples>>

MaskPreviousOnce(s) ==
  IF PartialRollout /\ MaskOffpolicy /\ s.response # <<>> /\ ~s.masked
  THEN [s EXCEPT !.masked = TRUE, !.loss_mask = Repeat(0, Len(s.response))]
  ELSE s

MaskPrevious(s) ==
  IF PartialRollout /\ MaskOffpolicy /\ s.response # <<>>
  THEN [s EXCEPT !.masked = TRUE, !.loss_mask = Repeat(0, Len(s.response))]
  ELSE s

\* Up to the semaphore.  A finished sample of a recycled group returns at once.
StartSample(g, i) ==
  /\ LoopFree
  /\ tstate[g][i] = "start"
  /\ samples' = [samples EXCEPT ![g][i] = MaskPrevious(@)]
  /\ tstate' = [tstate EXCEPT ![g][i] =
                  IF Finished(samples[g][i]) THEN "returned" ELSE "acquire"]
  /\ UNCHANGED <<sourceVars, stateVars, gstate>>

\* With a permit: give up if the rollout was aborted meanwhile, else post the
\* request.  A permit taken and given back in one step does not show.
AcquirePermit(g, i) ==
  /\ LoopFree
  /\ tstate[g][i] = "acquire"
  /\ permits > 0
  /\ \/ /\ aborted
        /\ samples' = [samples EXCEPT ![g][i].status = "ABORTED"]
        /\ tstate' = [tstate EXCEPT ![g][i] = "returned"]
        /\ UNCHANGED permits
     \/ /\ ~aborted
        /\ permits' = permits - 1
        /\ tstate' = [tstate EXCEPT ![g][i] = "generate"]
        /\ UNCHANGED samples
  /\ UNCHANGED <<sourceVars, rollout_id, pc, remaining_batch_size, pendings, aborted,
                 data, aborted_samples, gstate>>

\* What an engine may answer: it stops, it reaches max_new_tokens (which is
\* the same for a resumed request), or it was told to abort.
Replies ==
  {[status |-> "COMPLETED", tokens |-> n] : n \in 1 .. MaxResponseLen}
    \cup {[status |-> "TRUNCATED", tokens |-> MaxResponseLen]}
    \cup {[status |-> "ABORTED", tokens |-> n] : n \in 0 .. MaxResponseLen - 1}

Extend(s, reply) ==
  [s EXCEPT !.response = @ \o Repeat(rollout_id, reply.tokens),
            !.loss_mask = IF s.masked THEN @ \o Repeat(1, reply.tokens) ELSE @,
            !.status = reply.status]

\* A sample asks for a reward if it finished and has none; the group reward,
\* where it is used, comes after all samples.
AfterReply(s, reply) ==
  IF GroupRm \/ reply.status = "ABORTED" \/ s.rewarded THEN "returned" ELSE "reward"

ReleasedUnlessAborted(reply) ==
  IF reply.status = "ABORTED" THEN permits ELSE permits + 1

\* The semaphore is left on every way out of its block.
Released(reply) == permits + 1

\* generate() resumes with the answer; the permit is released.
ReceiveReply(g, i) ==
  /\ LoopFree
  /\ tstate[g][i] = "generate"
  /\ \E reply \in Replies :
       /\ reply.status = "ABORTED" => aborted
       /\ samples' = [samples EXCEPT ![g][i] = Extend(@, reply)]
       /\ tstate' = [tstate EXCEPT ![g][i] = AfterReply(samples[g][i], reply)]
       /\ permits' = Released(reply)
  /\ UNCHANGED <<sourceVars, rollout_id, pc, remaining_batch_size, pendings, aborted,
                 data, aborted_samples, gstate>>

ReceiveReward(g, i) ==
  /\ LoopFree
  /\ tstate[g][i] = "reward"
  /\ samples' = [samples EXCEPT ![g][i].rewarded = TRUE]
  /\ tstate' = [tstate EXCEPT ![g][i] = "returned"]
  /\ UNCHANGED <<sourceVars, stateVars, gstate>>

GatheredUnrewarded == "done"

\* asyncio.gather returns.  An aborted group gets no group reward.
Gathered == IF ~aborted /\ GroupRm THEN "group_rm" ELSE "done"

GatherGroup(g) ==
  /\ LoopFree
  /\ gstate[g] = "running"
  /\ \A i \in SampleIds : tstate[g][i] = "returned"
  /\ gstate' = [gstate EXCEPT ![g] = Gathered]
  /\ UNCHANGED <<sourceVars, stateVars, tstate, samples>>

ReceiveGroupReward(g) ==
  /\ LoopFree
  /\ gstate[g] = "group_rm"
  /\ samples' = [samples EXCEPT ![g] = [i \in SampleIds |->
                                            [samples[g][i] EXCEPT !.rewarded = TRUE]]]
  /\ gstate' = [gstate EXCEPT ![g] = "done"]
  /\ UNCHANGED <<sourceVars, stateVars, tstate>>

\* The last rollout of the run is over.
Terminating ==
  /\ pc = "idle"
  /\ rollout_id + 1 >= MaxRollouts
  /\ UNCHANGED vars

Next ==
  \/ StartRollout
  \/ SubmitTasks
  \/ CollectDone
  \/ DrainPendings
  \/ FinishRollout
  \/ \E g \in Groups : StartGroup(g)
  \/ \E g \in Groups, i \in SampleIds : StartSample(g, i)
  \/ \E g \in Groups, i \in SampleIds : AcquirePermit(g, i)
  \/ \E g \in Groups, i \in SampleIds : ReceiveReply(g, i)
  \/ \E g \in Groups, i \in SampleIds : ReceiveReward(g, i)
  \/ \E g \in Groups : GatherGroup(g)
  \/ \E g \in Groups : ReceiveGroupReward(g)
  \/ Terminating

Spec == Init /\ [][Next]_vars

\* The event loop runs what is ready, and engines and reward models answer.
FairSpec == Spec /\ WF_vars(Next)
-----------------------------------------------------------------------------
TypeOK ==
  /\ SourceTypeOK
  /\ rollout_id \in Nat \cup {NoRollout}
  /\ pc \in {"idle", "submit", "wait", "drain"}
  /\ remaining_batch_size \in Nat
  /\ pendings \in SUBSET Groups
  /\ aborted \in BOOLEAN
  /\ permits \in 0 .. Concurrency
  /\ data \in SUBSET Groups
  /\ aborted_samples \in Seq(Groups)
  /\ gstate \in [Groups -> GLive \cup GFate]
  /\ tstate \in [Groups -> [SampleIds -> TState]]
  /\ samples \in [Groups -> [SampleIds -> Sample]]

(***************************************************************************)
(* remaining_batch_size counts the groups that can still make it into      *)
(* data plus those that did.  Therefore the loop never reaches             *)
(* asyncio.wait with no task to wait for, which raises ValueError          *)
(* (sglang_rollout.py:429-452).                                            *)
(***************************************************************************)
Accounting ==
  /\ pc \in {"submit", "wait"} =>
       remaining_batch_size = Cardinality(pendings) + Cardinality(data)
  /\ pc = "wait" => pendings # {}

(***************************************************************************)
(* The groups that were handed out and neither trained on nor dropped are  *)
(* fewer than a full target plus one sampling batch, over all rollouts:    *)
(* recycled groups are resumed before fresh prompts are read, so partial   *)
(* rollout cannot pile up stale groups (sglang_rollout.py:430-433,         *)
(* data_source.py:177-189).                                                *)
(***************************************************************************)
AbortedPending == IF pc = "drain" THEN Len(aborted_samples) ELSE 0

BacklogBounded ==
  Len(buffer) + Cardinality(pendings) + AbortedPending
    <= TargetDataSize - 1 + OverSamplingBatchSize

(***************************************************************************)
(* A group has one owner: its task, the list abort() collects, the buffer, *)
(* or nobody any more.  No group is queued twice, resumed while it is      *)
(* queued, or queued after it was trained on (sglang_rollout.py:136-149,   *)
(* 373-393, 630; data_source.py:198-229).                                  *)
(***************************************************************************)
Queued == buffer \o (IF pc = "drain" THEN aborted_samples ELSE <<>>)

OneOwner ==
  /\ pendings = {g \in Groups : gstate[g] \in GLive}
  /\ \A j, k \in DOMAIN Queued : Queued[j] = Queued[k] => j = k
  /\ {Queued[k] : k \in DOMAIN Queued} = {g \in Groups : gstate[g] = "recycled"}
  /\ pc # "idle" => data = {g \in Groups : gstate[g] = "kept"}

(***************************************************************************)
(* --partial-rollout: "the unfinished samples during dynamic sampling will *)
(* be recycled back to data buffer" (arguments.py:425-429).  A group with  *)
(* an unfinished sample is never lost.                                     *)
(***************************************************************************)
UnfinishedRecycled ==
  PartialRollout =>
    \A g \in Groups :
      (\E i \in SampleIds : ~Finished(samples[g][i])) =>
        g \in pendings \/ \E k \in DOMAIN Queued : Queued[k] = g

(***************************************************************************)
(* A group handed to training is finished and has a reward for every       *)
(* sample, also when its samples finished in different rollouts or while   *)
(* another rollout was being aborted; and the assertion of                 *)
(* generate_and_rm holds: a finished sample that is run again has its      *)
(* reward, unless the group reward comes later (sglang_rollout.py:250-302, *)
(* 343-347).                                                               *)
(***************************************************************************)
DataFinal ==
  /\ \A g \in data, i \in SampleIds :
       Finished(samples[g][i]) /\ samples[g][i].rewarded
  /\ \A g \in Groups, i \in SampleIds :
       tstate[g][i] = "start" /\ Finished(samples[g][i]) /\ ~GroupRm =>
         samples[g][i].rewarded

(***************************************************************************)
(* What partial rollout records of the past of a response.                 *)
(* --mask-offpolicy-in-partial-rollout: "only on-policy generated tokens   *)
(* will be used in training" (arguments.py:435-438): in the data of a      *)
(* rollout, loss_mask is as long as the response and selects the tokens    *)
(* generated by this rollout.  And start_rollout_id of a recycled sample   *)
(* is the rollout of its first token, however often it was recycled        *)
(* (sglang_rollout.py:384-386).                                            *)
(***************************************************************************)
OffPolicyRecorded ==
  /\ PartialRollout /\ MaskOffpolicy =>
       \A g \in data, i \in SampleIds :
         LET s == samples[g][i]
         IN  /\ s.masked => Len(s.loss_mask) = Len(s.response)
             /\ \A k \in 1 .. Len(s.response) :
                  (~s.masked \/ s.loss_mask[k] = 1) <=> s.response[k] = rollout_id
  /\ \A k \in DOMAIN Queued : \A i \in SampleIds :
       LET s == samples[Queued[k]][i]
       IN  s.response # <<>> => s.start_rollout_id = s.response[1]

(***************************************************************************)
(* Every permit of the semaphore is free or held by one request in flight, *)
(* aborted requests included (sglang_rollout.py:260-277).                  *)
(***************************************************************************)
InFlight == {x \in Groups \X SampleIds : tstate[x[1]][x[2]] = "generate"}

PermitsConserved == permits + Cardinality(InFlight) = Concurrency

(***************************************************************************)
(* When generate_rollout has returned, no task is alive, no request is in  *)
(* flight and the singleton state is as new, so that the engines may be    *)
(* offloaded or get new weights (sglang_rollout.py:373-376, 476-477).      *)
(***************************************************************************)
QuietBetweenRollouts ==
  pc = "idle" =>
    /\ pendings = {} /\ remaining_batch_size = 0 /\ ~aborted
    /\ \A g \in Groups : gstate[g] \notin GLive
    /\ \A g \in Groups, i \in SampleIds : tstate[g][i] \in {"idle", "returned"}
    /\ permits = Concurrency

(***************************************************************************)
(* The rollout keeps the contract of a rollout function: every rollout     *)
(* delivers exactly a batch, no group twice, and what was filtered or      *)
(* discarded stays out, however groups travel between the buffer and the   *)
(* tasks in between (sglang_rollout.py:429-487, 609-631).                  *)
(***************************************************************************)
Trained == {g \in Groups : gstate[g] = "delivered"}
Dropped == {g \in Groups : gstate[g] \in {"filtered", "surplus", "discarded"}}
Returned == rollout_id + (IF pc = "idle" THEN 1 ELSE 0)

Contract == INSTANCE RolloutContract WITH
  BatchSize <- TargetDataSize,
  issued    <- Groups,
  trained   <- Trained,
  dropped   <- Dropped,
  rollouts  <- Returned

KeepsContract == Contract!ContractSpec

(***************************************************************************)
(* A rollout that was started ends, aborts included, as long as the filter *)
(* drops finitely many groups: no task is left waiting for a permit, a     *)
(* reward or an abort (sglang_rollout.py:396-487).                         *)
(***************************************************************************)
RolloutEnds == (pc # "idle") ~> (pc = "idle")

(***************************************************************************)
(* --rollout-max-response-len: "The maximum length of the response for the *)
(* inference engine during rollout" (arguments.py:344).  A resumed request *)
(* is sent with the whole budget again (sglang_rollout.py:165-177).        *)
(***************************************************************************)
ResponseWithinLimit ==
  \A g \in Groups, i \in SampleIds : Len(samples[g][i].response) <= MaxResponseLen
=============================================================================
