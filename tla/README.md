# A TLA+ verification of slime

slime trains a language model by reinforcement learning: inference engines
generate responses to prompts (the rollout), a Megatron actor trains on them, and
the new weights are sent back to the engines. This directory holds a TLA+ model
of the parts whose correctness depends on the order of events, the TLC runs that
check it on small instances, and proofs of its central properties for every
value of the parameters. Paths below are relative to `src/`.

## 1. Inventory

| component | state | operations | interacts with |
|---|---|---|---|
| Data source (`slime/rollout/data_source.py`) | read position (`sample_offset`, `epoch_id`), id counters, `buffer` of groups given back | `get_samples`, `add_samples`, `save`, `load` | called by the rollout function; saved by the driver |
| Stock rollout function (`slime/rollout/sglang_rollout.py`) | the `GenerateState` singleton (semaphore, `pendings`, `remaining_batch_size`, `aborted`), the samples | `generate_rollout`, `generate_and_rm_group`, `generate_and_rm`, `generate`, `abort`, `eval_rollout` | one asyncio loop; engines and reward models over HTTP |
| Streaming rollout (`slime/rollout/sglang_streaming_rollout.py`) | the same | the same, with the answer in pieces | engines |
| Fully async rollout (`slime/rollout/fully_async_rollout.py`) | worker thread with its own asyncio loop, `active_tasks`, bounded `output_queue` | worker loop, done callback, collector | shares the data source between two threads |
| Rollout servers (`slime/ray/rollout.py`, `placement_group.py`, `sglang_engine.py`) | server groups with their GPUs and engines, port cursors | start, kill, `recover` | placed on the cluster the trainer shares |
| Health monitor and recovery (`slime/utils/health_monitor.py`, `slime/ray/rollout.py`) | `all_engines`, pause and stop events, `num_new_engines` | monitor loop, kill, `recover`, `offload`, `onload` | a thread against the manager's calls |
| Rollout manager (`slime/ray/rollout.py`) | servers, groups, data source | `generate`, conversion of samples, split over data-parallel ranks (`slime/utils/dp_schedule.py`, `seqlen_balancing.py`) | Ray actor: one call at a time |
| Trainer ranks (`slime/backends/megatron_utils/` `actor.py`, `data.py`, `cp_utils.py`, `loss.py`, `model.py`; `slime/utils/ppo_utils.py`, `routing_replay.py`) | micro-batches, log-probs, advantages, recorded experts | forward passes, advantages, whitening, training steps | collectives between ranks |
| Training drivers (`train.py`, `train_async.py`) | rollout id, futures | generate, train, save, update weights, evaluate, offload, restart | everything above |
| Weight update (`slime/backends/megatron_utils/update_weight/`) | connected engines, lock; for delta updates the snapshot, files, versions | `connect_rollout_engines`, `update_weights` | trainers to engines, over NCCL or files |
| Agent sessions (`slime/agent/`) | the chains and segments of a session, requests in flight | handlers of two chat protocols, `merge_turns`, `finish_session` | an agent program in a sandbox; the engines; `generate`, which finishes a session from another thread |
| Rollout buffer plugin (`slime_plugins/rollout_buffer/`) | task and done queues, groups of a server of its own | generate, write, read, fetch | processes and HTTP |
| Model, loss values, conversion, kernels, arguments, tools | tensors, configuration | numerical | out of scope |

What is hard: tasks of three levels that interleave with an abort; groups that
travel several times between buffer, engines and training; counters that decide
how much to sample; a monitor thread that races with offloading and recovery; a
queue that blocks an event loop; collectives that every rank must join; index
arithmetic that must name the same token on every rank and in every layout;
checkpoints that hold a part of the state; ports that are promised before they are
bound; replies that are lost after they took effect. `PROJECT.json` lists each
hazard at its line with the properties that cover it.

## 2. Plan

Done:

1. `RolloutDataSource`, `RolloutGeneration` and their proofs: how data comes into
   being. `RolloutContract`: the abstract specification of a rollout function, and
   the proof that the stock one implements it.
2. `FullyAsyncRollout` on the same data source, checked against the same contract.
3. `EngineRecovery`: monitor, kill, pause and offload, recover, connect and push.
4. `DpSchedule`, `ContextParallel`, `Advantages`, `RoutingReplay`, composed by
   `TrainBatch`: what a rollout becomes on its way to a gradient.
5. `TrainingDriver` and `RolloutServers`, composed by `TrainingJob`: both drivers,
   with crash and restart, on servers that are placed, started, killed and recovered.
6. `DeltaEncoding`, `DeltaSync`: the delta update.
7. `TurnMerge`, `AgentSession`: agent sessions.
8. `RolloutBuffer`: the rollout buffer plugin.

9. Proofs about the eight components whose state is changed by several actors:
   `RolloutGeneration` (groups, then samples), `FullyAsyncRollout`,
   `EngineRecovery`, the drivers of `TrainingJob`, `AgentSession`, `DeltaSync`
   with `DeltaEncoding`, the `RolloutServers` of `TrainingJob`, and `RolloutBuffer`
   (section 5).

What is left to prove is in section 5 too, under "Only model-checked".

## 3. The modules and the code

**`RolloutDataSource`** is a library of actions and operators that the rollout
modules extend. A group is its `sample_group_index`, a prompt is an epoch and a
position in that epoch's order (the shuffle is a permutation fixed by seed and
epoch, so positions identify prompts). `GetFromDataset` is
`RolloutDataSource.get_samples` with its two branches; `GetSamples` is the
buffered one (`pop_first` first, then the dataset for the rest); `AddSamples`
appends to the buffer. The model keeps the code's quirk of setting
`sample_offset` past the end of the epoch when more than a whole epoch is asked
for.

**`RolloutGeneration`** is `generate_rollout` called `MaxRollouts` times. A step
is the code between two awaits:

| action | code |
|---|---|
| `StartRollout` | entry of `generate_rollout_async` |
| `SubmitTasks` | `data_source(over_sampling_batch_size)` and `submit_generate_tasks`; no await, so no task runs until the loop is left (`LoopFree`) |
| `CollectDone` | `asyncio.wait` returns all finished tasks; the filter keeps or drops each; the first kept ones fill `data`; with `data` full, the loop falls through to `abort()`, which sets `aborted` before its first await |
| `DrainPendings` | one round of `abort()`'s wait |
| `FinishRollout` | `abort()` returns, `reset()`, `add_samples` |
| `StartGroup`, `GatherGroup`, `ReceiveGroupReward` | `generate_and_rm_group` |
| `StartSample`, `AcquirePermit`, `ReceiveReply`, `ReceiveReward` | `generate_and_rm` and `generate`; the permit is given back on every way out (`Released`) |

`samples[g][i].response[k]` is the rollout that generated token k; that is all the
properties ask of a token. An engine answers with a stop, with the budget used up
or, once `aborted` is set, with an abort and any number of tokens; a request that
reaches an engine after the abort was broadcast simply completes. A request that is
posted again by the client is, for the rollout, one that is answered late. The
dynamic filter keeps or drops any group, at most `MaxFiltered` times. A reward is
present or not.

`gstate` says what became of a group: alive (`created`, `running`, `group_rm`,
`done`), or its fate (`kept` for training, then `delivered`; `filtered`;
`surplus`, finished in the same round as the last one needed and dropped, as the
NOTE at sglang_rollout.py:456 says; `discarded` without partial rollout;
`recycled`).

Left out: evaluation, custom generate functions that return several samples, the
failure of a request beyond the client's retries (the rollout then raises and the
run ends), tracing.

**`RolloutContract`** is what the training loop may rely on, whichever rollout
function is configured. It knows the groups read from the data source, those
delivered, those given up and the number of rollouts that returned. A rollout
delivers exactly a batch, of groups that were never delivered or given up before.
Both rollout modules instantiate it (`Contract`) and state `KeepsContract`; in
each the mapping reads the four sets off `gstate` and `rollout_id`.

**`FullyAsyncRollout`** has the two threads of `fully_async_rollout.py` and the
driver between rollouts. The group is the unit: what its task does inside is
`RolloutGeneration`'s subject.

| action | code |
|---|---|
| `StartRollout` | `_generate_rollout_async` is entered; the first call starts the worker |
| `DrainOne` | one `get_nowait` of `get_completed_groups`; the worker may put in between |
| `FinishRollout` | the queue is empty and there are enough groups: sort, cut, return; the sort raises if the groups are lists of lists |
| `UpdateWeights` | `train_async.py:79-83`, no rollout in flight; the worker's requests may be aborted by it |
| `Wake` | an iteration of `_loop`: reap tasks that are done |
| `TopUp` | one `get_samples(1)` and `create_task`; the worker does not await until the set is full |
| `Post`, `EndTask` | a task posts its request; it completes, is aborted, or raises |
| `DropCrashed`, `Requeue`, `Ship` | the three ways out of the done callback |
| `Unblock` | the `put` of a full queue returns; until then the worker's whole event loop waits |

A done callback runs in a later pass of the event loop than the end of its task,
so a task may be reaped before its callback has run; `Wake` is possible in that
order too. `response[g]` records the weights of the tokens of a group, so that
the mixture of versions in a resumed response is visible. The process, and with
it the worker, ends after `MaxRollouts` rollouts, or with a rollout that raises
(`Alive`).

**`EngineRecovery`** has the monitor's thread, the manager's calls and the trainer
ranks around the list `all_engines`. An engine is the index of its first node; a
restart gives the index a new incarnation, and whoever copied the list earlier
holds the old one (`Handle`, `Reachable`).

| action | code |
|---|---|
| `OnloadWeights`, `OnloadKv`, `Generate`, `EndGenerate`, `Train` | `train.py` around the update; `Generate` resumes the monitor, `EndGenerate` offloads and pauses it |
| `RecoverBegin`, `StartEngines`, `RecoverEnd` | `recover_updatable_engines` on behalf of rank 0: list the dead, start engines and wait for them, assert and release |
| `BarrierAfterRecover`, `Ask`, `Connect`, `BarrierAfterConnect`, `Clear`, `Push` | `MegatronTrainRayActor.update_weights` on every rank |
| `CallRaises`, `StartRaises`, `RecoverRaises`, `ConnectRaises`, `PushRaises` | a call on `None` or on an engine that is gone raises, and the training ends |
| `LeaveTop`, `EndFirstWait`, `CheckNext`, `Healthy`, `Unhealthy`, `EndInterval` | the monitor's loop; the pause is read between two engines only |
| `Shutdown`, `Forget` | `_kill_engine`, node by node: wait for the shutdown, then set the entry to `None` |
| `Crash` | a node dies or hangs, at any time |

The nodes of an engine wait for each other, so the init of a part of an engine is
taken to fail (`StartRaises`; an assumption about the inference server). An engine
without its memory may fail a check that was under way when it was
offloaded. Time is not modelled: a wait ends at any moment. One group of engines
is modelled, of the model that is trained; `RolloutServers` has several.

**`DpSchedule`**, **`ContextParallel`**, **`Advantages`** and **`RoutingReplay`** are
what `TrainBatch` is put together from. `DpSchedule` is `build_dp_schedule`:
`OpenStep` takes the samples of a step, `RefuseStep` is a failed `assert`,
`PlaceSample` a sample of `first_fit_pack`, `SplitBin` a split of
`expand_bins_by_splitting`, `Misaligned` the last assertion, and `DealBins` gives
the micro-batches to the data ranks, balanced or strided. `ContextParallel` has the
index arithmetic of `cp_utils.py`, `data.py` and `loss.py`: which positions a
context rank holds in each layout, the shifted tokens of the all-gather layout, the
chunks of the mask and the redistribution of log-probs. `Advantages` computes the
estimators of `ppo_utils.py` over integers; `VanillaGae` is the definition that
`ChunkedGae` is checked against. `RoutingReplay` is the list with its two read
positions.

**`TrainBatch`** takes one rollout to its optimizer steps. An element of a tensor is
named by what it is computed from, and a gradient is the set of its terms with
their weights, so that a term that is missing, doubled, shifted or weighted by the
wrong group is seen.

| action | code |
|---|---|
| `Convert`, `Split` | `_convert_samples_to_train_data` and the split over data ranks by the schedule |
| `ComputeLogProbs` | the forward pass of `train_actor`, which records or replays experts |
| `ComputeAdvantages`, `Whiten` | `compute_advantages_and_returns` and the all-reduce of `distributed_masked_whiten` |
| `RunMicrobatches`, `OptimizerStep` | `train_one_step`, the gradient over all ranks |
| `Raise`, `Stop` | an index or an assertion fails; every step is over |

Context ranks of one data rank move together, because the attention and the
all-reduces make them wait for each other. What Megatron does to the scale of the
loss is in `WeightedBy`.

**`TrainingDriver`** is both drivers with what they call. Weights are the sequence
of the batches they were trained on, so that age is the difference of two lengths
and a lost or repeated batch is visible.

| action | code |
|---|---|
| `Create`, `FirstPush` | creation of the models from what is on disk, the update before the loop |
| `Submit`, `Collect`, `AwaitRollout` | `generate.remote`, `ray.get`, and the wait before an update in `train_async.py` |
| `BeginGenerate`, `EndGenerate`, `SaveDataSource` | what the manager, a Ray actor with one thread, has in its queue |
| `TrainCritic`, `TrainActor` | `MegatronTrainRayActor.train` with its reference, old actor and rollout actor |
| `SaveActor`, `SaveCritic`, `SaveData`, `SavedData` | the parts of a save, in the order of the driver |
| `UpdateWeights`, `SkipUpdate`, `Dispose` | the end of a rollout, the end of the loop |
| `Crash` | the job is killed; what was written remains |

**`RolloutServers`** places the engines and gives them addresses. A GPU is its place
in the sorted placement group.

| action | code |
|---|---|
| `StartGroup`, `BatchServes` | `start_rollout_servers`: a group's engines get GPUs, the cursors and the ports they are to use; the wait for the servers |
| `StartRefused` | the check of a group's GPUs raises: the groups ask for more than the placement group has (`Fits`) |
| `Launch`, `InitRaises` | `SGLangEngine.init` binds what it was given, or finds a port taken |
| `Kill` | the monitor kills an engine |
| `Recover`, `RestartGroup`, `Recovered` | `RolloutServer.recover` |
| `Restart` | the job is started again |

**`TrainingJob`** composes the two: `CreateOnServers` (the driver goes on when the
servers are up), `RecoverInUpdate` and `UpdateRecovered` (an update recovers
first), `MonitorKills` (only while a rollout is generated), `ServersStep`,
`JobCrash`, `JobEnded`.

**`DeltaEncoding`** is the encoding of the changed positions, as indices or as
differences of two or four bytes, the bucket, and what an engine reads
back. **`DeltaSync`** sends the buckets.

| action | code |
|---|---|
| `Train`, `Seed`, `Pause` | new weights; the snapshot of the first sync; pause and flush of the engines |
| `PipelineChunk`, `LastChunk`, `EndPass` | `_pipeline_pass` on every source rank, the two passes |
| `Acquire`, `CallEngine`, `Broadcast` | over NCCL: the lock, the remote calls, the collective |
| `EnqueueFile`, `WriteFile`, `Announce`, `LoadFiles` | over files: the writer's thread, the publication, the engines |
| `Finalize` | versions, and the engines go on |
| `RestartEngine` | an engine starts again from the checkpoint |

**`TurnMerge`** is `merge_turns`; `Faithful` is what a merged segment promises, said
without the algorithm. **`AgentSession`** is one session of an adapter, with the
two threads of examples/coding_agent_rl: the handlers run on the adapter's loop
(aiohttp_threaded.py:57-73), `generate` on the rollout's. A handler's step is the code
between two awaits, cut once more between the closed check and the registration, which
is where the other thread can come in between.

| action | code |
|---|---|
| `Arrive` | a request of the agent; its handler finds the session open (anthropic.py:369, openai.py:371) |
| `Register` | the handler looks the Session up, joins `inflight` and goes on to the session's lock (anthropic.py:372-376); `late` when the session was closed meanwhile. With the Session popped it may have a fresh one (`"astray"`) |
| `Acquire` | under the lock: the prompt is rendered and posted |
| `Answer`, `Fail`, `Disconnect`, `AbortPosted` | the engine answers; the context is full or the post fails; the agent is gone and the handler is cancelled |
| `CancelArrives`, `StrayEnds` | a cancel from the other thread reaches a handler; one on a fresh Session ends |
| `Deliver` | the reply reaches the agent, or is lost and asked for again |
| `EndSub`, `Compact` | the agent program, which is external: a sub-agent returns, a history is shortened |
| `BeginFinish`, `WaitOver`, `TimeOut` | the two calls of `finish_session`, in the try block of `generate` and in its finally clause: close and take the tasks; drain when they are over; cancel what is left after 5 seconds, and raise |
| `GuardExpires` | the guard of `generate` expires in the first call |

**`RolloutBuffer`** has the reader and the worker processes (`ReadPass`, `Take`,
`Reply`, `Crash`), the generator's main loop (`Collect`, `Post`, with its retries),
the groups of the server, and the trainer's rollout function (`StartFetch`, `Poll`,
`EndFetch`). `results[i]` holds the answers to prompt i that the rollout function was
given, in their order: the code's list mixes the prompts, and `select_rollout_data`
takes it apart by prompt before it does anything else. `Place` is where its sort puts
a group, newest answer first.

## 4. Runs

| run | instance | shows |
|---|---|---|
| `generation` | 2 rollouts of 2 groups, over-sampling 2, a dataset of 3, one permit, one group filtered, no partial rollout, group reward | `Accounting`, `QuietBetweenRollouts`, `KeepsContract`, `RolloutEnds` |
| `partial` | 2 rollouts of 1 group, over-sampling 2, groups of 2 (symmetric), 2 permits | `DataFinal`, `UnfinishedRecycled` |
| `recycled_twice` | 3 rollouts, groups of 1, 2 tokens, a dataset of one prompt, one group filtered | `TypeOK`, `EpochCoverage`, `OneOwner`, `OffPolicyRecorded`, `BacklogBounded` |
| `async` | one task in flight, which may raise, a queue of 2, 2 rollouts of 1 group | `OneOwner`, `NoAbortedShipped`, `QueueDoesNotAge`, `KeepsContract`, `RolloutEnds` |
| `recovery` | 2 engines of 2 nodes, 2 ranks, offloaded, 1 crash, 2 rollouts | `ServesCurrentWeights`, `Residency`, `RanksAgree`, `CrashIsFound` |
| `recovery_assertion` | the same with engines of 1 node, not offloaded | a violation of `RecoverCounts` |
| `train_batch` | 5 small rollouts under 23 settings | `ScheduleSound`, `LogProbsAligned`, `TokensOnce`, `GroupsWeighEqually`, `AdvantagesAligned`, `WhiteningJoined` |
| `train_ppo` | short responses, PPO, 2 context ranks | a violation of `AdvantagesAligned` |
| `driver` | 15 jobs of 5 rollouts, 2 restarts, 2 killed engines | `StaleAtMostInterval`, `GoesOnWhereSaved`, `OldActorGeneratedIt`, `AddressesHold`, `PlacementSound`, `JobEnds` |
| `delta_sync` | 2 source ranks, 2 engines, 2 syncs, a restart, both transports and both encodings | `InSync`, `SyncEnds` |
| `agent` | 3 requests, 2 kinds of answer, a context of 12 tokens, both adapters, two threads | `SegmentsFaithful`, `DrainedWhole`, `OneConversation`, `FinishReturns` |
| `buffer` | 2 prompts answered twice by 2 workers in 2 passes, 2 fetches, 1 fault | `BatchesWhole`, `FetchEnds` |

**Why the bounds are enough.** In `RolloutGeneration` two samples are what it takes
to have one finished and one aborted in a group; positions are interchangeable, so
TLC uses symmetry on them where no liveness is checked. Two rollouts let a group be
aborted and resumed, three let it be aborted again. `DatasetSize` is small so that
epochs wrap. In `async` a queue of two (1000 in the code) makes the worker block
while a collector drains; `MaxSurplus` limits how many groups beyond its target a
collector drains (`NotTooFarAhead`): in the code a worker that is fast enough can
keep the collector draining for ever, and the model leaves that out, also for
liveness. Two rollouts of `recovery` make three updates, one of new engines and two
with a recovery; besides the crash, an engine can be lost to a check that ran into
the offloading.

The rollouts of `train_batch` are: whole samples; some removed, which leave a rank
with nothing; rollouts split into several samples, with a prompt left over; the
same with a wrong group id; and responses that reach into the second chunk of
context rank 0. The chunk of GAE is 2 (128 in the code), so that a response has
several; `gamma` 2 and `lambd` 3 keep the arithmetic in the integers and distinct
terms distinct. Five rollouts of `driver` let an interval of two pass twice and a
save lie between; the second crash can come after a restart. A node of 4 GPUs
stands for one of 8; `DistPorts` 2 stands for the thirty and more
ports of an engine. The last of the jobs asks for more GPUs than there are, and is refused. `MaxShort` 1 (65535 in the code) makes a tensor with a
wider gap take four bytes for each, and `ByteLimit` 24 makes a rank flush within a pass. Three
requests of `agent` are a main turn, a sub-agent's or a side one, and the main turn
after; the context of 12 tokens overflows with them. An answer of two tokens comes back
with another last one, an answer of one token as it was or not at all. Any of the three
requests may be the one that slips past the closing.

**Deadlock** is checked wherever a system must not stop; a behaviour that is over
goes on in a step of its own (`Terminating`, `JobEnded`, `Stop`). `agent` and
`buffer` do not check it: a session ends, and a generator with a bounded number of
passes has nothing left to do.

**Fairness.** `RolloutGeneration` and `FullyAsyncRollout` ask for `WF_vars(Next)`
only: the event loop runs something that can run, engines and reward models answer.
No task has priority. That is enough since every behaviour without a stutter is
finite apart from `Terminating` (the filter drops at most `MaxFiltered` groups;
without that bound a filter that drops everything keeps a rollout going for ever, in
the code as well). `EngineRecovery` assumes `WF_vars(MonitorNext)` for
`CrashIsFound`: the monitor's thread runs and the calls it waits for return or time
out. `TrainingJob` assumes that the driver and the manager go on, and nothing of the
servers: `JobEnds` says that a job ends unless its servers stay incomplete.
`DeltaSync` assumes that the ranks, their writers and the engines they called go on
(`Sync`). `AgentSession` assumes of the two loops that a wait that is over, a
timeout that has passed, a handler that is about to register, a cancel and the cleanup
after it are run, and that `generate` gets to its finally clause; neither
engine nor agent need ever answer. A cancel that comes from the other thread does not
wake the adapter's loop; it arrives when that loop wakes for something else (the
requests of other sessions, its timers), which is what `WF` of `CancelArrives` says.
`RolloutBuffer` assumes that the generator's
processes and the polling trainer go on.

**Divergences with a run.** `recovery_assertion` finds a way to the assertion of
`recover()` (slime/ray/rollout.py:300). `pause` sets an event and does not wait for
the monitor's thread; a kill that has begun may forget an engine after `recover`
listed the dead ones and before `start_engines` looks for them. `train_ppo`: under
PPO with context parallelism the reward is added to the last token that context rank
0 holds (slime/backends/megatron_utils/loss.py:649), which is the last of the
response only if the response reaches into that rank's second chunk.

**Divergences without a run.** Each is a definition of a module that a run of the
reader's own can put in a `.cfg`, and that TLC then finds violated:

| definition | what the code does |
|---|---|
| `ResponseWithinLimit` (`RolloutGeneration`, with 2 tokens and 2 rollouts) | a resumed request is sent with the whole budget again (sglang_rollout.py:165-177), so a response can be longer than the limit of arguments.py:344 |
| `CollectorReturns` (`FullyAsyncRollout`, `FanOut = TRUE`) | the key of the collector's sort reads the method `list.index` of a list of samples and the sort raises; examples/fully_async/README.md:50 says such functions work unchanged |
| `FinishedKept` | a collector drains all of the queue and drops what is beyond its batch (README line 68 of that example: drains until it has a batch) |
| `StartsOver` | an aborted trajectory continues from its tokens (line 80: starts over) |
| `KeepsRolloutModel` (`KeepingOld` of `MCTrainingJob`) | outside the case of `OldActorGeneratedIt`, the kept model is not the one the rollout was generated with |
| `PushesActor` (`WithReference`) | before the loop the update sends the model in memory, which is the reference when training is not offloaded |
| `WhiteningAlwaysJoined` (`UnevenRollouts` of `MCTrainBatch`) | with context parallelism, a rank whose chunks hold no token of any response of its samples does not call the all-reduce of the whitening (loss.py:731), and the ranks of its group that do wait for it for ever; loss.py:580 says that the advantages are whitened across the data-parallel group. `WhiteningJoined` excepts such a rank |
| `NoDrift` (`DeltaSync`) | an engine that restarts loads the checkpoint and is sent deltas on top of it |
| `NoStragglers` (`AgentSession`) | "session drained; refuse stragglers" (slime/agent/adapters/anthropic.py:369): a handler that had passed that check when the other thread closed the session registers later, runs on behind the drain and keeps the engine busy; its turn is lost. The finally clause of `generate` (generate.py:278) closes the session against just these. `DrainedWhole` says that it is one handler at most, and that nothing else is lost |
| `NoneForgotten` (`AgentSession`) | when the guard expires within `finish_session`, its tasks are neither cancelled nor known to the second call, which the comment there calls idempotent |
| `NeverRefused` (`RolloutBuffer`) | a group that was not valid after a pass gets the answers of the next one too, and is refused |
| `BatchesWhole` with the fault `post_reply`, `FetchEnds` with `none` | a post whose reply is lost is posted again and counted twice; an answer without any text ends every later poll in an error |
| `ReturnedWhole` (`AgentSession`, with 4 requests and a context of 9) | without any straggler, a segment whose last prompt fills the context, so that it has no output, and whose beginning the template changed is dropped with the answers in it; the docstring of `merge_turn_segments` (slime/agent/trajectory.py) says that every non-empty output is kept. What the trainer is given is less than what was drained, which is why `DrainedWhole` speaks of the drained segments. Three requests are too few to see it |
| `AddressesAlwaysHold` (`Unaligned`) | engines of a group that starts within a node and goes on to the next get host and ports of another node, since their node is computed from the rank in the group (slime/ray/rollout.py:888). The example in the docstring of `SglangConfig` is such a group on nodes of 8 |

Read in the code, and in no definition: `node_rank` is the rank modulo the nodes of
an engine, which is wrong when the rank offset of a group is no multiple of it;
dead engines of a server that is not updated are not recovered, although the
docstring of tests/test_sglang_config_mixed_offload_ft.py says so; what is in the
recycle buffer is lost by a restart (data_source.py:123); `fill_routing_replay`
(actor.py:307) cuts the experts in zigzag order under `--allgather-cp` too. And
`shutdown_session_tasks` (slime/agent/adapters/common.py:258) gathers the tasks it
cancelled, which belong to the loop of the other thread: the gather raises
`RuntimeError`, so that one handler that does not end in 5 seconds costs the
trajectory, whose segments are not returned. In the finally clause the error replaces
the result of `generate`. In the model such a call ends as `"raised"`; a caller on
the adapter's own loop, as in tests/, does not see it.

**Variants.** A definition preceded by a variant with a suffixed name
(`Released`, `ReleasedUnlessAborted`) carries a mistake that is easily made there;
`PROJECT.json` says which property of which run detects it.

## 5. Proofs

Eight modules hold theorems. Each is about `Spec` (`JobSpec` for the drivers), that
is about safety without fairness, for all values of the constants that satisfy the
named assumptions. In each, `IInv` is the inductive invariant, `InitIInv` and
`NextIInv` say that it is one, with a lemma per action under them, and a theorem is
an application of `Inductive`. (For the servers, in the second half of
`TrainingJobProofs`, the invariant has two parts, `Placed` and `Promises`.)

| module | theorems |
|---|---|
| `RolloutDataSourceProofs` | lemmas on the data source and on queues, used by the next three |
| `RolloutGenerationProofs` | `TypeOK`, `EpochCoverage`, `Accounting`, `BacklogBounded`, `OneOwner`, `PermitsConserved`, `QuietBetweenRollouts`; `DataFinal`, `UnfinishedRecycled`, `OffPolicyRecorded`; `KeepsContract` of the stock rollout |
| `FullyAsyncRolloutProofs` | `TypeOK`, `OneOwner`, `NoAbortedShipped`, `QueueDoesNotAge`, `KeepsContract` of the fully async rollout |
| `EngineRecoveryProofs` | `TypeOK`, `RanksAgree`, `ServesCurrentWeights`, `Residency` |
| `TrainingJobProofs` | `StaleAtMostInterval`, `OldActorGeneratedIt`, `GoesOnWhereSaved`; `PlacementSound`, `AddressesHold` |
| `AgentSessionProofs` | `TypeOK`, `DrainedWhole`, `OneConversation`, `SegmentsFaithful` |
| `DeltaSyncProofs` | `TypeOK`, `InSync`; `EncodeCorrect` and its lemmas about the wire layout |
| `RolloutBufferProofs` | `BatchesWhole` |

**The data source.** A call of `get_samples`, for any number of groups, keeps
`EpochCoverage` and `ReadPosition` and hands out as many groups as were asked for
when the epoch suffices.

**The stock rollout**, groups. None of the properties is inductive alone, so `IInv`
conjoins them with what they need of each other:

- `ReadPosition`: the group counter agrees with epoch and offset, which is why
  the next group continues where the last one ended;
- `MainFlow`: what the counters are at each `pc`, for instance that in the loop
  fewer groups are kept than the target, so a new batch cannot overrun the bound;
- `TasksInRunning`: only samples of a running group have a live task, and there is
  none between rollouts, so a permit in use belongs to a live group.

**The stock rollout**, samples. `SamplesInv` is a second layer, inductive once
`IInv` is known (lemmas whose names end in `Keeps`). `TaskSound` says what a sample
holds at each point of its task, `FateSound` what it holds by the fate of its group:
a group that was aborted has either only finished samples or is to be recycled.
`Recorded` bounds the rollout of each token (`TokensUpTo`) and ties the tag
`start_rollout_id` and the loss mask to it; `BufferPast` says that what waits in the
buffer has no token of a rollout that is still to come. The three properties are
read off these.

**The contract.** Initial states map to initial states, and each action maps to
`Read`, `GiveUp`, `Deliver` or a stutter. For the stock rollout the step that needs
an argument is `FinishRollout`: the batch has exactly the target's size because
`data` is exactly full whenever `abort()` is entered (`DataFullCorrect`). For the
fully async one it is `FinishRollout` too: the collector's sort and cut of what it
drained leaves as many groups as the batch has (`FirstOnes`), and none of them was
delivered before, since the two threads share no group (`OneOwner`).

**The fully async rollout.** `IInv` is `TypeOK` and `OneOwner` with what the
collector has in its hands (`CollectorFlow`) and with the outcome that every ended
task has (`EndedWithOutcome`). `NoAbortedShipped` is proved for generate functions
that return one sample (`~FanOut`); with lists of samples the callback does not see
the abort, and the collector raises anyway. `QueueDoesNotAge` follows from
`OneOwner`: a collector returns when the queue is empty, so no group is left that
has the queue as its owner.

**Recovery.** `RankFlow` says how far the ranks may be apart: rank 0 alone recovers,
the others are at the barrier, and after a barrier all have the same list.
`ConnectionsHold` says that between updates all ranks hold the same engines, current
in their incarnation unless `num_new_engines` is set or the update is to fail;
`RecoveryHolds` says what a recovery in progress has started. The monitor's steps
(`MonitorNext`, `Crash`) only ever take engines away, which is one lemma
(`present' \subseteq present`) instead of one per step.

**The drivers.** Four layers, each resting on those before. `LoopInv`: the loop and
the one generation it has in flight; the call queue of the manager holds at most
that generation and a save. `Versions`: how many updates the weights of a rollout
are behind. `Ordered` and `Disk`: a batch is trained on at most once, in order, and
what is on disk is a state the job was in. `Losses`: the batches that are skipped
over a restart are at most one for each crash, and none with `train.py`.
`StaleAtMostInterval` is proved for `RefSwitchedBack`. The setting it excepts has a
reference and neither `keepOld` nor `colocate`; there the update before the loop
pushes the reference (`PushesActor` in section 4), and the engines generate with
weights that no training step made. The servers come in only through what `TrainingJob`
composes: the theorems hold with kills, recoveries and restarts of the servers.

**The rollout servers.** A job starts groups, restarts engines, has servers come up,
die and start again, under either driver. Two invariants are carried through all of
it. `Placed` says where things are: the groups follow each other without a gap that
a later group could fall into, the slots of a group lie in the GPUs it reserved and
in the placement group, and the plan holds what the configuration asks for.
`PlacementSound` follows by arithmetic, given what a node is: `Bundles` is a
flattened sequence, so the lemmas before it show that the flattening of blocks grows
by a block at a time and holds the right node at each place, and that from the first
GPU of a node on, through nodes that are full, the GPU of rank i is where
`NodeIndex` says.

`AddressesHold` is not inductive: that a server finds its ports free depends on what
was promised to servers that have not bound theirs. `Promises` says it of all that
wait. `PromisesHold`: an engine that has an address and no port yet was promised
ports that are free on its node (`Promised`), below the point where the next search
begins (`NextPort`). `PromisesApart`: two engines that meet on a node were promised
different ports. `WholeEngines`: an engine is missing on all of its nodes or on
none, so a restart asks for ports for all of them. `WhoWaits`, beside it: when a
recovery begins nobody waits, and during one only engines of the groups that are
being recovered, so the cursors can start over. Nothing is needed of the order
in which servers come up. A step does one of three things to it. It offers engines
to a group (`OffersKeep`): what `Allocate` draws begins behind `NextPort`, hence
behind every promise, and it is free because `get_free_port` looked. A server binds
(`LaunchedKeeps`): it takes ports nobody else was promised. Or nobody waits any more
(`IdleKeeps`). The longest part is in between: that
the requests an engine makes on a node, in the order of the code, do not overlap,
and that the address the code assembles from them is its own (`AddressesPromised`).
Cursors are kept by the node index within a group, which names other nodes in
another group; that `BasePort` takes the maximum of them is why the argument does
not depend on where the next group lands.

**Agent sessions.** A session changes in two steps only, under its lock: `Acquire`,
which moves a wiped or finished chain into a segment, and `Answer`, which appends a
turn. `HandlersInv` says that one handler holds the lock and what it posted.
The two threads meet in `EnteringInv` and `FinishInv`. Handlers are alone on their loop
between the closed check and the registration, so one at most is in between when the
session is closed, and none comes after: there is one straggler. Whoever else is at
work then was taken out of `inflight` and is awaited, and the session is drained when
the awaited ones are over. From there on only the straggler may record a turn, so what
is recorded and not in the drained segments is that handler's. `Whole` counts: each answered
request is in exactly one place, a chain or a segment. `SessionShows` ties the
chains to the requests: each prompt of a chain is rendered from a history of which
the next one is a continuation, and `Asking` says the same of the request under way.
Of the template the proofs use only that it makes tokens of a history, and
`BoundsAssumption` gives types and bounds: what the template does to a history may
make the merging drop outputs, never lose a turn.

`SegmentsFaithful` is about `merge_turns`, and its part of the module knows nothing of
sessions: it holds for any non-empty sequence of turns over any set of tokens. The
argument follows the replay. `Sound` relates the segment built from the first n turns
to the text of the turn n and to `Intervals`, the places of those outputs that every
later prompt so far contains: the segment reads as the text (`Reads`), its mask covers
these intervals and nothing else (`Masked`), a token it leaves out has no log-prob
(`Scored`), the recorded spans do not overlap (`Apart`), and each interval is a whole
span among them (`Covered`). `Covered` and `Apart` are what makes it inductive: to
blank the output that is cut, the code looks for its span, and it must find that one
and blank no other. `StitchedSound` has the next prompt with its two cases (the base
changed, the response is cut), `IntervalsNext` says without the replay which intervals
survive a prompt, and `MergedSound` puts the turns together. `SoundIsFaithful` leads
back to `Faithful`, and `OutIs` to the list of segments without the empty ones: a
segment whose last turn has an output holds the interval of that turn, so it is not
empty.

**The delta sync.** The first half of the module is about the layout, for any
tensors. `Restores` says of a blob that whoever holds one of a set of old models and
overwrites what the blob says has the trainer's weights, in each tensor the blob
names. `EncodeOneCorrect` shows it of one tensor: the positions of the mask are
increasing (`PositionsCorrect`), their gaps fit in the width that was chosen
(`GapsFit`) and the cumulative sum undoes them (`DecodePacked`). `JoinCorrect` shows
that merging keeps it, since the places of the second blob are moved behind the
first, and `EncodeCorrect` has it of a chunk, with every tensor that changed named.
The set of old models matters: an engine may already have the new weights of a
tensor, and overwriting them again is harmless.

The second half follows a tensor. `Progress` is the heart of `IInv`: what a rank has
still to compare (`ToCome`) the engines hold as the snapshot or already as the
trainer does; what was compared and is not with an engine yet is underway to it, in
a bucket, in the chunk that waits for the bucket to be flushed, in a file the writer
has or a file the engine is still to load (`Underway`). `PassInv` and `ChunkInv` say
where a rank is and that the snapshot it fetched ahead is not stale; `FilesInv` that
a file is written once, under a name no other has, and announced when it is there.
When `_finalize_sync` is reached nothing is to come and nothing underway, which is
`InSync`. `ChunksCorrect` shows that the slices of the expert passes leave no tensor
out, for any number of tensors and passes. The engines' lock is not needed for what
they hold, only for `SyncEnds`: a broadcast needs the call at the head of every
engine's queue.

**The rollout buffer.** An answer is on its way through four owners: the generator's
queue and its main loop, the server, the rollout function, a batch. `Holds(p, u)` says
that the answer named u is at place p, and `Unique` that it is at one place only. A
step moves answers, one for one, or forgets them; `MovedUnique` says that this is
enough, given where each answer came from (`from`) and where it goes (`to`). `Whole`
follows the groups: one that is handed over was valid, so it has at least
`GroupSize` answers, and if it has no more they all have a text (`ValidWhole`). Two
such groups of one prompt, from two polls of a fetch, are too many answers together
and are refused. What remains is the selection: the places the sort gives are the
numbers up to how many groups there are (`PlacesAre`), since no two groups have the
same latest answer, and a batch that is accepted is not short of a group, since the
fetch would not have ended (`SelectedIs`).

**Assumptions.** What `arguments.py` enforces (`over_sampling_batch_size >=
rollout_batch_size`, line 1866), positive sizes, finite sets of the model's ranks and
settings, and that the placeholder for nothing is no number (`NothingAssumption`). For
the delta sync, that training changes no shape and that every tensor is in the model
of some rank (`WeightsAssumption`, `ChunksAssumption`). For the servers, that an
engine fills whole nodes or nodes hold whole engines (`GroupConfigs`): no check in
the code asks for it, but `num_gpus_per_engine // num_gpus_per_node` and its inverse
(slime/ray/rollout.py:64 and 878) take it for granted, and an engine of 3 GPUs on a
node of 8 would cross it. The
three hypotheses that are more than this stand in the theorems. `~FanOut` and
`RefSwitchedBack` are explained above. `"post_reply" \notin Faults` is that of the
rollout buffer: an answer that was written, and whose reply is lost, is posted again
and counts twice (section 4). All other faults of the model are allowed. The runs
include states that satisfy the hypotheses.

**Style.** The induction theorems of the library take an operator as a parameter,
which the backends cannot instantiate, so where a number is to be found (a first
index, a rank in a set, a maximum) the proofs use that every non-empty set of numbers has
a least one. What a recursive function gives (the cumulative sum, a chunk's blob) is
proved the same way, at the least index where it would fail. `merge_turns` and
`merge_turn_segments` are recursive functions in `TurnMerge` for that reason.

**Only model-checked.** Liveness (`RolloutEnds`, `CrashIsFound`, `JobEnds`,
`SyncEnds`, `FinishReturns`, `FetchEnds`), which is outside the prover's reach.
The properties of `TrainBatch`: what folds over sequences and sorts compute for every
input (the schedule, the index arithmetic of the layouts) needs induction over data,
which is outside it too as long as it is said with folds.

## 6. Not modelled

- *HTTP client and streaming rollout*: a post that is retried is a late reply
  (`ReceiveReply`) or a task that raises (`EndTask`); an answer in pieces differs
  from a whole one only in how it is cut.
- *The inference engine, its router and registration, external engines*: not in
  the repository, or a call of an external service.
- *Loss values, clipping, the network, kernels, model plugins, checkpoint
  converters, bridges*: numerical code and renaming of tensors, without order or
  state.
- *Reward models and filters*: a reward or a verdict is a nondeterministic choice.
- *Evaluation*, `eval_rollout` and what the drivers do for it: it changes no state
  that the other parts read.
- *Agent sessions*: Anthropic tools that stay in force after the history was wiped,
  and a lost reply to the dispatch of a sub-agent, after which the main
  conversation's next request goes to the sub-agent's chain. A request to the
  Anthropic adapter without `system`, which is taken for one of the main chain's
  system and leaves the chain's hash (anthropic.py:105, 248): every request of the
  model has one. Of the two threads, what is finer than a step: the drain is one step
  against the straggler's, though in the code a wipe of the straggler could run between
  the `append` and the `clear` of a chain's turns, or find `active_sub` gone; a
  handler that leaves `inflight` while its set is read ("set changed size"); and what a
  handler does with a fresh Session, of which only is said that it ends. The agent
  program is not followed after the close. When `generate` fails before it calls
  `finish_session`, the call of the finally clause is the only one; it does what the
  first one does, and its result is dropped. A caller on the adapter's own loop has
  none of these races.
- *Rollout buffer*: a second `start_rollout` request while a generator runs, and a
  finite `fetch_trajectory_retry_times` (rollout_buffer_example.py:240-257), with which
  the fetch gives up with too few results.
- *Rollouts*: an answer of tokens without any text. `start_rollout_id` is written when
  `sample.response`, the text, is not empty (sglang_rollout.py:385); the model asks
  for the tokens.
- *Training jobs*: saves at the end of an epoch (`num_rollout_per_epoch`,
  misc.py:96), beside those of the interval; the switch back to the actor that
  `offload_train`, the default with a critic (arguments.py:1834), brings before the
  loop. The model's jobs with a critic keep what the update finds in memory, which asks more
  of the properties.
- *Engines*: reconnecting all of them at each update, when critic and actor are
  offloaded without sharing the engines' GPUs (actor.py:620-627); that the start of a
  node that is not the first of its engine returns before the server is up
  (sglang_engine.py:67-68), so that its failure shows later than in the model.
- *Delta sync*: batches of expert tensors up to `update_weight_buffer_size`
  (update_weight_from_distributed.py:177-207): a chunk of the model is one of them. A
  restarted engine keeps the version the model recorded for it, where a server reports
  its default; only `NoDrift` looks at such an engine.
- *Arguments, logging, tracing, profiling tools, launch scripts*: configuration and
  input/output. They, with the numerical code, are most of the repository's lines,
  so the map covers a small share of it: about one line in seven.
