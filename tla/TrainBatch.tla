----------------------------- MODULE TrainBatch -----------------------------
(***************************************************************************)
(* One rollout on its way through training.  The rollout manager converts  *)
(* and splits it (slime/ray/rollout.py), the trainer ranks fetch their     *)
(* part, compute log-probabilities and advantages, and run their           *)
(* micro-batches (actor.py, data.py, model.py and loss.py of               *)
(* slime/backends/megatron_utils).                                         *)
(*                                                                         *)
(* A tensor element is named by what it is computed from, and the terms    *)
(* that are summed into a gradient are kept apart, so that it can be asked *)
(* whether every token of the rollout counts once, with its own mask,      *)
(* advantage and weight, however the rollout is cut up.  The tensors are   *)
(* functions of the schedule; the state says how far each rank has come.   *)
(*                                                                         *)
(* The context-parallel ranks of a data-parallel rank move together where  *)
(* the attention, or an all-reduce of cp_utils.py, makes them wait for     *)
(* each other.                                                             *)
(***************************************************************************)
EXTENDS DpSchedule, Advantages, RoutingReplay

CONSTANTS
  Rollouts,               \* inputs: [args, output], output[prompt][rollout][sample]
  GaeChunk,               \* bound: chunk_size of chunked_gae (128)
  Kl(_, _), Value(_, _)   \* KL term and value at a position of a sample

NoGroup == 0              \* Sample.group_id is None

VARIABLES
  output,                 \* what the rollout function returned
  train_data,             \* what the manager made of it
  pc,                     \* pc[<<d, r>>], of data rank d and context rank r
  summed,                 \* summed[d][s]: micro-batches of d in step s's gradient
  steps,                  \* optimizer steps that are over
  replay,                 \* replay[<<d, r>>]: the RoutingReplay of a layer
  replayed                \* replayed[<<d, r>>][s]: what step s popped from it

replayVars == <<replay, replayed>>
rankVars == <<pc, summed, steps, replayVars>>
vars == <<args, lengths, group_ids, scheduleVars, output, train_data, rankVars>>

CpRanks == 0 .. args.cp_size - 1
Ranks == DpRanks \X CpRanks

Rows == FlattenSeq(FlattenSeq(output))          \* the flattened samples
SumOver(S, f(_)) == MapThenSumSet(f, S)

Init ==
  /\ \E rollout \in Rollouts :
       /\ args = rollout.args
       /\ output = rollout.output
  /\ lengths = << >>
  /\ group_ids = << >>
  /\ train_data = << >>
  /\ ScheduleInit
  /\ pc = [rank \in Ranks |-> "fetch"]
  /\ summed = [d \in DpRanks |-> << >>]
  /\ steps = 0
  /\ replay = [rank \in Ranks |-> NewReplay]
  /\ replayed = [rank \in Ranks |-> << >>]

-----------------------------------------------------------------------------
(* RolloutManager.generate, after the rollout function has returned *)

\* _validate_group_id_annotated: what a rollout splits into shares a group id.
Annotated ==
  \A prompt \in DOMAIN output : \A rollout \in DOMAIN output[prompt] :
    LET siblings == output[prompt][rollout]
    IN  Len(siblings) > 1 => /\ siblings[1].group_id # NoGroup
                             /\ \A k \in DOMAIN siblings :
                                  siblings[k].group_id = siblings[1].group_id

\* _post_process_rewards: the samples whose mean reward is taken off.
NormalizedWith(i) ==
  LET n == args.n_samples_per_prompt
      row == (i - 1) \div n
  IN  IF Len(Rows) = n * args.rollout_batch_size THEN row * n + 1 .. (row + 1) * n
      ELSE DOMAIN Rows

\* A normalised reward, times the number of samples that were averaged over.
Centred(i, S) == Cardinality(S) * Rows[i].reward - SumOver(S, LAMBDA j : Rows[j].reward)

Reward(i) ==
  IF args.estimator \in {"grpo", "reinforce_plus_plus_baseline"}
  THEN Centred(i, NormalizedWith(i)) ELSE Rows[i].reward

LossMask(s) == IF s.remove_sample THEN Repeat(0, s.response_length) ELSE s.loss_mask

SumSeq(s) == FoldFunction(+, 0, s)

OwnMaskSum(ids, masks, i) == SumSeq(masks[i])

\* group_mask_sums: the mask sum of all samples of the group of sample i.
GroupMaskSum(ids, masks, i) ==
  SumOver({j \in DOMAIN ids : ids[j] = ids[i]}, LAMBDA j : SumSeq(masks[j]))

\* _convert_samples_to_train_data, and the lengths and ids that are split by.
Convert ==
  /\ sched = "idle"
  /\ LET samples == Rows
         ids == [i \in DOMAIN samples |->
                  IF samples[i].group_id # NoGroup THEN samples[i].group_id ELSE samples[i].index]
         masks == [i \in DOMAIN samples |-> LossMask(samples[i])]
     IN  /\ group_ids' = ids
         /\ lengths' = [i \in DOMAIN samples |->
                         samples[i].prompt_length + samples[i].response_length]
         /\ train_data' = [
              response_lengths |-> [i \in DOMAIN samples |-> samples[i].response_length],
              rewards |-> [i \in DOMAIN samples |-> Reward(i)],
              loss_masks |-> masks,
              group_mask_sums |-> [i \in DOMAIN samples |-> GroupMaskSum(ids, masks, i)]]
  /\ sched' = IF Annotated THEN "step" ELSE "failed"
  /\ UNCHANGED <<args, to_pack, bins, partitions, micro_batch_indices, num_microbatches,
                 output, rankVars>>

Split ==
  /\ BuildDpSchedule
  /\ UNCHANGED <<args, lengths, group_ids, output, train_data, rankVars>>

-----------------------------------------------------------------------------
(* The trainer ranks *)

\* An exception on a rank ends the training.
Raise ==
  /\ sched' = "failed"
  /\ UNCHANGED <<args, lengths, group_ids, to_pack, bins, partitions, micro_batch_indices,
                 num_microbatches, output, train_data, rankVars>>

MaxOf(S) == CHOOSE x \in S : \A y \in S : y <= x

\* The k-th sample of rank d as ContextParallel sees it.
Local(d, k) ==
  LET i == partitions[d][k]
      longest == MaxOf({lengths[partitions[d][j]] : j \in DOMAIN partitions[d]})
  IN  [id |-> i, total |-> lengths[i], resp |-> train_data.response_lengths[i],
       width |-> IF args.layout = "bshd" THEN longest ELSE lengths[i]]

Microbatch(d, m) ==
  LET indices == micro_batch_indices[d][m]
  IN  [k \in DOMAIN indices |-> Local(d, indices[k])]

\* The log-probs of a micro-batch, sample by sample.
Forward(d, r, m) ==
  LET mb == Microbatch(d, m)
  IN  [k \in DOMAIN mb |-> LogProbs(mb, k, args.layout, args.cp_size, r)]

\* forward_only: the outputs in the order of the schedule, put back into the
\* order of the samples if the micro-batches are dynamic.
ForwardOnly(d, r) ==
  LET visited == FlattenSeq(micro_batch_indices[d])
      InOrder(values) ==
        IF args.dynamic
        THEN [k \in DOMAIN values |-> values[CHOOSE v \in DOMAIN visited : visited[v] = k]]
        ELSE values
  IN  InOrder(FlattenSeq([m \in DOMAIN micro_batch_indices[d] |-> Forward(d, r, m)]))

\* compute_advantages_and_returns, for sample k of rank d.  log_probs is that
\* of the context ranks.
LocalKl(log_probs, k) ==
  [t \in DOMAIN log_probs[k] |-> LET token == log_probs[k][t][2] IN Kl(token[1], token[2])]

LocalValues(log_probs, k) ==
  [t \in DOMAIN log_probs[k] |-> LET token == log_probs[k][t][1] IN Value(token[1], token[2])]

Whole(locals, s) == AllGather(locals, s.total, s.resp, args.cp_size)

OwnSlice(full, s, r) == SliceLogProb(full, s.total, s.resp, s.total, args.cp_size, r)

Gae(log_probs, d, k) ==
  LET s == Local(d, k)
      longest == MaxOf({Local(d, j).resp : j \in DOMAIN partitions[d]})
      values == Whole([q \in CpRanks |-> LocalValues(log_probs[q], k)], s)
      rewards == Whole([q \in CpRanks |->
                   RewardAtEnd(LocalKl(log_probs[q], k), train_data.rewards[s.id], args.kl_coef, q)], s)
  IN  Slice(ChunkedGae(Padded(rewards, longest), Padded(values, longest),
                       args.gamma, args.lambd, GaeChunk), 0, s.resp)

Estimate(log_probs, d, r, k) ==
  LET s == Local(d, k)
      reward == train_data.rewards[s.id]
      kl == LocalKl(log_probs[r], k)
      whole_kl == Whole([q \in CpRanks |-> LocalKl(log_probs[q], k)], s)
  IN  CASE args.estimator = "grpo" -> Repeat(reward, Len(kl))
        [] args.estimator = "reinforce_plus_plus_baseline" ->
             [t \in DOMAIN kl |-> reward - args.kl_coef * kl[t]]
        [] args.estimator = "reinforce_plus_plus" ->
             OwnSlice(DiscountedReturns(whole_kl, train_data.loss_masks[s.id], reward,
                                        args.kl_coef, args.gamma), s, r)
        [] args.estimator = "ppo" -> OwnSlice(Gae(log_probs, d, k), s, r)

\* The part of a loss mask that goes with what rank r has of sample k.
MaskChunk(d, r, k) ==
  LET s == Local(d, k)
  IN  ChunkedMask(train_data.loss_masks[s.id], s.total, s.resp, s.width, args.cp_size, r)

\* What makes an estimator raise.
EstimatorFails(d) ==
  \E k \in DOMAIN partitions[d] :
    \/ /\ args.estimator = "reinforce_plus_plus"
       /\ SumSeq(train_data.loss_masks[partitions[d][k]]) = 0
    \/ args.estimator = "ppo" /\ MaskChunk(d, 0, k) = << >>       \* k[-1] += reward
    \/ /\ args.estimator \in {"ppo", "reinforce_plus_plus"}
       /\ \E r \in CpRanks :
            ~Gatherable(MaskChunk(d, r, k), Local(d, k).total, Local(d, k).resp, args.cp_size, r)

JoinsIfUnmasked(d, r) ==
  args.normalize_advantages /\ \E k \in DOMAIN partitions[d] : SumSeq(MaskChunk(d, r, k)) > 0

\* The rank has a token to whiten.
Joins(d, r) ==
  args.normalize_advantages /\ \E k \in DOMAIN partitions[d] : MaskChunk(d, r, k) # << >>

AtLeastOne(n) == IF n > 1 THEN n ELSE 1

\* num_tokens of the micro-batches of step s, summed over all ranks: every
\* context rank counts the whole masks.
StepTokens(s) ==
  args.cp_size * SumOver(DpRanks, LAMBDA d :
    SumOver(Range(summed[d][s]), LAMBDA m :
      LET indices == micro_batch_indices[d][m]
      IN  SumOver(Range(indices), LAMBDA k :
            AtLeastOne(SumSeq(train_data.loss_masks[partitions[d][k]])))))

\* The weight of a token in the gradient of step s (loss_function), with what
\* Megatron does: it divides by the number of micro-batches and averages over
\* the ranks, or divides the sum over all ranks by the num_tokens of all.
WeightedBy(s, group_mask_sum) ==
  LET scale == num_microbatches[s] * args.dp_size * args.cp_size
  IN  IF args.per_token THEN [num |-> args.cp_size, den |-> StepTokens(s)]
      ELSE [num |-> scale, den |-> AtLeastOne(group_mask_sum) * args.global_batch_size * scale]

\* The weight of a token in the loss that is reported (reduce_train_step_metrics).
Reported(s, group_mask_sum) ==
  IF args.per_token THEN [num |-> args.cp_size, den |-> StepTokens(s)]
  ELSE [num |-> 1, den |-> AtLeastOne(group_mask_sum) * args.global_batch_size]

\* The terms of a micro-batch in the loss of rank <<d, r>> (policy_loss_function,
\* get_sum_of_sample_mean).
Terms(log_probs, d, r, m, s) ==
  LET indices == micro_batch_indices[d][m]
      Each(Of(_)) == FlattenSeq([k \in DOMAIN indices |-> Of(indices[k])])
      Sums(k) == Repeat(train_data.group_mask_sums[partitions[d][k]], Len(MaskChunk(d, r, k)))
      Term(now, old, adv, mask, denom) ==
        [t \in DOMAIN now |->
          [token |-> now[t][2], new |-> now[t], old |-> old[t], advantage |-> adv[t],
           mask |-> mask[t], weight |-> WeightedBy(s, denom[t]), reported |-> Reported(s, denom[t])]]
  IN  Term(FlattenSeq(Forward(d, r, m)), Each(LAMBDA k : log_probs[r][k]),
           Each(LAMBDA k : Estimate(log_probs, d, r, k)), Each(LAMBDA k : MaskChunk(d, r, k)),
           Each(Sums))

\* The terms in the gradient of step s that the loss mask keeps.
Gradient(s) ==
  LET Of(d, log_probs) ==
        FlattenSeq([j \in DOMAIN summed[d][s] |->
          FlattenSeq([r \in 1 .. args.cp_size |->
            Terms(log_probs, d, r - 1, summed[d][s][j], s)])])
  IN  SelectSeq(FlattenSeq([d \in DpRanks |-> Of(d, [r \in CpRanks |-> ForwardOnly(d, r)])]),
                LAMBDA term : term.mask = 1)

-----------------------------------------------------------------------------
At(d, state) == \A r \in CpRanks : pc[<<d, r>>] = state
Goto(d, state) == pc' = [rank \in Ranks |-> IF rank[1] = d THEN state ELSE pc[rank]]

\* The experts of the tokens of micro-batch m, as the model sees them.
OwnExperts(d, r, m) == PackedTokens(Microbatch(d, m), args.layout, args.cp_size, r)

\* fill_routing_replay: those that the engine reported, cut as thd would; the
\* last token of a sample was not sent through the engine.
RolloutExperts(d, r, m) ==
  LET mb == Microbatch(d, m)
  IN  FlattenSeq([k \in DOMAIN mb |->
        SliceWithCp(Append(TokensOf(mb[k].id, mb[k].total - 1), PadToken),
                    PadToken, mb[k].total, args.cp_size, r)])

Experts(d, r, m) ==
  IF args.routing = "rollout" THEN RolloutExperts(d, r, m) ELSE OwnExperts(d, r, m)

\* The assertion of compute_topk, in a pass over all micro-batches.
ShapesMatch(d) ==
  \A r \in CpRanks : \A m \in DOMAIN micro_batch_indices[d] :
    Len(Experts(d, r, m)) = Len(OwnExperts(d, r, m))

\* The log-prob pass records the experts, or replays those of the rollout.
ReplayAfterLogProbs(d) ==
  LET n == Len(micro_batch_indices[d])
      filled == FoldLeft(Record, NewReplay, [m \in 1 .. n |-> m])
  IN  CASE args.routing = "none" -> NewReplay
        [] args.routing = "record" -> filled
        [] args.routing = "rollout" -> ClearForward(PopForward(filled, n))

\* _get_rollout_data, and train_actor up to and with compute_log_prob.
ComputeLogProbs(d) ==
  /\ sched = "done"
  /\ At(d, "fetch")
  /\ IF args.routing = "rollout" /\ ~ShapesMatch(d) THEN Raise
     ELSE /\ Goto(d, "advantages")
          /\ replay' = [rank \in Ranks |->
               IF rank[1] = d THEN ReplayAfterLogProbs(d) ELSE replay[rank]]
          /\ UNCHANGED <<args, lengths, group_ids, scheduleVars, output, train_data, summed,
                         steps, replayed>>

\* A rank without a token of its own does not take part in the whitening.
ComputeAdvantages(d) ==
  /\ sched = "done"
  /\ At(d, "advantages")
  /\ IF EstimatorFails(d) THEN Raise
     ELSE /\ pc' = [rank \in Ranks |->
               IF rank[1] # d THEN pc[rank]
               ELSE IF Joins(d, rank[2]) THEN "whiten" ELSE "train"]
          /\ UNCHANGED <<args, lengths, group_ids, scheduleVars, output, train_data, summed,
                         steps, replayVars>>

\* distributed_masked_whiten: the all-reduce over the data ranks with the same
\* context rank.  It scales and shifts the advantages, which keep their places.
Whiten(r) ==
  /\ sched = "done"
  /\ \A d \in DpRanks : pc[<<d, r>>] = "whiten"
  /\ IF \A d \in DpRanks : \A k \in DOMAIN partitions[d] : SumSeq(MaskChunk(d, r, k)) = 0
     THEN Raise
     ELSE /\ pc' = [rank \in Ranks |-> IF rank[2] = r THEN "train" ELSE pc[rank]]
          /\ UNCHANGED <<args, lengths, group_ids, scheduleVars, output, train_data, summed,
                         steps, replayVars>>

OffsetRewound(d) == 0

\* DataIterator.offset: the micro-batches of d that have been consumed.
Offset(d) == Len(FlattenSeq(summed[d]))

\* What the forward passes of a step pop, and its recomputations.
PoppedIn(rank, n) ==
  [forward |-> Popped(replay[rank], replay[rank].forward_index, n),
   backward |-> IF args.recompute THEN Popped(replay[rank], replay[rank].backward_index, n)
                ELSE << >>]

AfterStep(rank, n) ==
  LET popped == PopForward(replay[rank], n)
  IN  IF args.recompute THEN PopBackward(popped, n) ELSE popped

\* train_one_step, up to the reduction of the gradients.  A pop from a list
\* that has ended raises.
RunMicrobatches(d) ==
  /\ sched = "done"
  /\ At(d, "train")
  /\ LET n == num_microbatches[steps + 1]
         own == {rank \in Ranks : rank[1] = d}
     IN  /\ summed' = [summed EXCEPT ![d] = Append(@, [j \in 1 .. n |-> Offset(d) + j])]
         /\ IF args.routing = "none" THEN UNCHANGED <<replayVars, sched>>
            ELSE /\ replayed' = [rank \in Ranks |->
                      IF rank \in own THEN Append(replayed[rank], PoppedIn(rank, n))
                      ELSE replayed[rank]]
                 /\ replay' = [rank \in Ranks |->
                      IF rank \in own THEN AfterStep(rank, n) ELSE replay[rank]]
                 /\ sched' = IF \A rank \in own : Len(PoppedIn(rank, n).forward) = n
                             THEN sched ELSE "failed"
  /\ Goto(d, "reduce")
  /\ UNCHANGED <<args, lengths, group_ids, to_pack, bins, partitions, micro_batch_indices,
                 num_microbatches, output, train_data, steps>>

\* The reduction of the gradients, and optimizer.step; after the last step
\* train_actor clears the replays.
OptimizerStep ==
  /\ sched = "done"
  /\ \A rank \in Ranks : pc[rank] = "reduce"
  /\ steps' = steps + 1
  /\ pc' = [rank \in Ranks |-> IF steps' = Len(num_microbatches) THEN "done" ELSE "train"]
  /\ replay' = IF steps' = Len(num_microbatches) THEN [rank \in Ranks |-> Clear(replay[rank])]
               ELSE replay
  /\ UNCHANGED <<args, lengths, group_ids, scheduleVars, output, train_data, summed, replayed>>

Over == sched = "failed" \/ \A rank \in Ranks : pc[rank] = "done"
Stop == Over /\ UNCHANGED vars

Next ==
  \/ Convert \/ Split
  \/ \E d \in DpRanks : ComputeLogProbs(d) \/ ComputeAdvantages(d) \/ RunMicrobatches(d)
  \/ \E r \in CpRanks : Whiten(r)
  \/ OptimizerStep
  \/ Stop

Spec == Init /\ [][Next]_vars

-----------------------------------------------------------------------------
(* Properties *)

TypeOK ==
  /\ sched \in {"idle", "step", "pack", "done", "failed"}
  /\ \A i \in DOMAIN to_pack : to_pack[i] \in Samples
  /\ \A b \in DOMAIN bins : bins[b] # << >> /\ Range(bins[b]) \subseteq Samples
  /\ \A d \in DpRanks : Range(partitions[d]) \subseteq Samples
  /\ \A s \in DOMAIN num_microbatches : num_microbatches[s] \in Nat \ {0}
  /\ \A rank \in Ranks : pc[rank] \in {"fetch", "advantages", "whiten", "train", "reduce", "done"}
  /\ steps <= Len(num_microbatches)

\* What dp_schedule.py promises: the ranks run the same number of micro-batches
\* in every step (or they would wait for each other's collectives), a rank
\* visits each of its samples once and in order, and a dynamic micro-batch fits
\* the token budget of a rank, unless it is one sample that is too long alone.
InStep ==
  \A d \in DpRanks :
    /\ Len(micro_batch_indices[d]) = SumSeq(num_microbatches)
    /\ FlattenSeq(micro_batch_indices[d]) = [k \in DOMAIN partitions[d] |-> k]

WithinBudget ==
  args.dynamic =>
    \A d \in DpRanks : \A m \in DOMAIN micro_batch_indices[d] :
      LET mb == micro_batch_indices[d][m]
      IN  Len(mb) = 1 \/ Tokens([k \in DOMAIN mb |-> partitions[d][mb[k]]]) <= MaxPerBin

ScheduleSound == InStep /\ WithinBudget

Positions(i) == lengths[i] - train_data.response_lengths[i] .. lengths[i] - 1
MaskAt(i, p) == train_data.loss_masks[i][p - (lengths[i] - train_data.response_lengths[i]) + 1]

\* The gradient of a step counts every token of the step's samples that the
\* loss mask keeps once, on one rank, and no other token.
TokensOnce ==
  Over => \A s \in 1 .. steps : \A gradient \in {Gradient(s)} :
    LET kept == UNION {{<<i, p>> : p \in {q \in Positions(i) : MaskAt(i, q) = 1}} :
                        i \in Range(StepSamples(s))}
    IN  /\ {gradient[t].token : t \in DOMAIN gradient} = kept
        /\ Len(gradient) = Cardinality(kept)

\* Every group of a step has the same weight, 1 / global_batch_size in all,
\* spread evenly over its tokens (the group_mask_sums of rollout.py).  With
\* --calculate-per-token-loss all tokens of a step weigh the same, where a
\* sample that is masked out counts as one token.  And the loss that is
\* reported weighs the tokens as the gradient does.
GroupsWeighEqually ==
  Over => \A s \in 1 .. steps : \A gradient \in {Gradient(s)} :
    LET GroupOf(t) == group_ids[gradient[t].token[1]]
        Parts(t) == IF args.per_token
                    THEN SumOver(Range(StepSamples(s)), LAMBDA i :
                           AtLeastOne(SumSeq(train_data.loss_masks[i])))
                    ELSE args.global_batch_size
                           * Cardinality({u \in DOMAIN gradient : GroupOf(u) = GroupOf(t)})
    IN  \A t \in DOMAIN gradient :
          LET weight == gradient[t].weight
              reported == gradient[t].reported
          IN  /\ weight.num * Parts(t) = weight.den
              /\ reported.num * weight.den = weight.num * reported.den

\* The micro-batches whose experts a rank replays are those it trains on, and
\* every token before the last of its sample gets its own experts.
RoutedAsOwn ==
  \A rank \in Ranks : \A s \in DOMAIN replayed[rank] :
    LET d == rank[1]
        r == rank[2]
        popped == replayed[rank][s]
    IN  /\ popped.forward = summed[d][s]
        /\ args.recompute => popped.backward = summed[d][s]
        /\ \A j \in DOMAIN popped.forward :
             \A own \in {OwnExperts(d, r, summed[d][s][j])} :
               LET experts == Experts(d, r, popped.forward[j])
               IN  \A k \in DOMAIN own :
                     \/ own[k] = PadToken \/ own[k][2] = lengths[own[k][1]] - 1
                     \/ experts[k] = own[k]

\* The log-prob of a term compares a logit with the token that follows it, the
\* old log-prob is that of the same logit, and the experts of a replay are
\* those of its token (loss.py, routing_replay.py).
LogProbsAligned ==
  Over =>
    /\ \A s \in 1 .. steps : \A gradient \in {Gradient(s)} : \A t \in DOMAIN gradient :
         LET token == gradient[t].token
         IN  /\ gradient[t].new = <<<<token[1], token[2] - 1>>, token>>
             /\ gradient[t].old = gradient[t].new
    /\ RoutedAsOwn

Unsplit == \A p \in DOMAIN output : \A rollout \in DOMAIN output[p] : Len(output[p][rollout]) = 1

\* A reward is measured against the rewards of the same prompt ("group norm" in
\* _post_process_rewards), if every rollout is one sample.
OwnReward(i) ==
  LET Size(p) == Len(FlattenSeq(output[p]))
      Own(p) == SumOver(1 .. p - 1, Size) + 1 .. SumOver(1 .. p, Size)
  IN  IF Unsplit /\ args.estimator \in {"grpo", "reinforce_plus_plus_baseline"}
      THEN Centred(i, CHOOSE S \in {Own(p) : p \in DOMAIN output} : i \in S)
      ELSE train_data.rewards[i]

\* The advantage of a token, computed on the whole response.
WholeAdvantage(i, p) ==
  LET first == lengths[i] - train_data.response_lengths[i]
      n == train_data.response_lengths[i]
      reward == OwnReward(i)
      kl == [t \in 1 .. n |-> Kl(i, first + t - 1)]
      values == [t \in 1 .. n |-> Value(i, first + t - 2)]
      rewards == [t \in 1 .. n |-> -args.kl_coef * kl[t] + (IF t = n THEN reward ELSE 0)]
      t0 == p - first + 1
      kept == {t \in 1 .. n : train_data.loss_masks[i][t] = 1}
  IN  CASE args.estimator = "grpo" -> reward
        [] args.estimator = "reinforce_plus_plus_baseline" -> reward - args.kl_coef * kl[t0]
        [] args.estimator = "reinforce_plus_plus" ->
             args.gamma ^ (MaxOf(kept) - t0) * reward
               - args.kl_coef * SumOver({t \in kept : t >= t0}, LAMBDA t : args.gamma ^ (t - t0) * kl[t])
        [] args.estimator = "ppo" -> VanillaGae(rewards, values, args.gamma, args.lambd)[t0]

\* The advantage of a token is that of its response and its prompt's rewards,
\* however the rollout was cut over the ranks, packed, or scanned in chunks.
AdvantagesAligned ==
  Over => \A s \in 1 .. steps : \A gradient \in {Gradient(s)} : \A t \in DOMAIN gradient :
    gradient[t].advantage = WholeAdvantage(gradient[t].token[1], gradient[t].token[2])

\* Context rank r has a logit that predicts a token of the response of sample s.
HasLogit(s, r) ==
  \E chunk \in Range(Chunks(s.width, args.cp_size, r)) :
    \E p \in s.total - s.resp .. s.total - 1 : chunk[1] < p /\ p <= chunk[2]

\* In a data-parallel group no rank waits in the whitening for one that has passed
\* it by (the all-reduce of distributed_masked_whiten), unless that one has nothing
\* of any response of its samples.
WhiteningJoined ==
  \A d, e \in DpRanks : \A r \in CpRanks :
    pc[<<d, r>>] = "whiten" /\ pc[<<e, r>>] \in {"train", "reduce", "done"} =>
      \A k \in DOMAIN partitions[e] : ~HasLogit(Local(e, k), r)

\* Without that exception: not so, and the rank waits for ever, when all samples of
\* a data rank are short and none of their responses reaches a context rank's chunks.
WhiteningAlwaysJoined ==
  \A d, e \in DpRanks : \A r \in CpRanks :
    ~(pc[<<d, r>>] = "whiten" /\ pc[<<e, r>>] \in {"train", "reduce", "done"})
=============================================================================
