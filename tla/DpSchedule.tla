----------------------------- MODULE DpSchedule -----------------------------
(***************************************************************************)
(* slime/utils/dp_schedule.py: how the samples of a rollout are packed     *)
(* into micro-batches and dealt to the data-parallel ranks.  The helpers   *)
(* are those of slime/utils/seqlen_balancing.py.                           *)
(*                                                                         *)
(* The loop over training steps is a state machine: a step is opened, its  *)
(* samples are placed one after the other, bins are split until their      *)
(* number is aligned, and the bins are dealt.  An assertion that fails     *)
(* ends in "failed".  Samples, ranks and local indices count from 1.       *)
(***************************************************************************)
EXTENDS Integers, Sequences, FiniteSets, SequencesExt

VARIABLES
  args,                   \* the arguments and sizes that build_dp_schedule reads
  lengths,                \* total_lengths: tokens of each sample
  group_ids,              \* group_indices: the group of each sample
  sched,                  \* "idle", "step", "pack", "done" or "failed"
  to_pack,                \* samples of the step not in a bin yet
  bins,                   \* step_mbs
  partitions,             \* partitions[d]: the samples of rank d
  micro_batch_indices,    \* micro_batch_indices[d]: places in partitions[d]
  num_microbatches        \* per rank, for every step that is scheduled

scheduleVars == <<sched, to_pack, bins, partitions, micro_batch_indices, num_microbatches>>

DpRanks == 1 .. args.dp_size
Samples == DOMAIN lengths

\* Groups by first occurrence, and the samples of each.
IsFirst(i) == \A j \in 1 .. i - 1 : group_ids[j] # group_ids[i]
Groups == SetToSortSeq({i \in Samples : IsFirst(i)}, <)
SamplesOf(g) == SetToSortSeq({j \in Samples : group_ids[j] = group_ids[g]}, <)

NumSteps == Len(Groups) \div args.global_batch_size
StepGroups(s) ==
  SubSeq(Groups, (s - 1) * args.global_batch_size + 1, s * args.global_batch_size)
StepSamples(s) ==
  LET chosen == StepGroups(s) IN FlattenSeq([k \in 1 .. Len(chosen) |-> SamplesOf(chosen[k])])

Step == Len(num_microbatches) + 1       \* the step that is being scheduled

Tokens(bin) == FoldFunction(+, 0, [k \in 1 .. Len(bin) |-> lengths[bin[k]]])
MaxPerBin == args.max_tokens_per_gpu * args.cp_size
AlignTo == args.dp_size * args.mb_group     \* mb_group is 1 without virtual stages
\* The target of the split: the next multiple, and never zero.
TargetK == IF bins = << >> THEN AlignTo ELSE ((Len(bins) + AlignTo - 1) \div AlignTo) * AlignTo

FitsByContent(bin, i) == IF args.dynamic THEN Tokens(bin) <= MaxPerBin
                         ELSE Len(bin) < args.micro_batch_size

\* first_fit_pack, or fixed chunks of micro_batch_size.
Fits(bin, i) ==
  IF args.dynamic THEN Tokens(bin) + lengths[i] <= MaxPerBin
  ELSE Len(bin) < args.micro_batch_size

\* expand_bins_by_splitting: the heaviest bin of several samples, the last of equals.
Heaviest ==
  CHOOSE b \in DOMAIN bins :
    /\ Len(bins[b]) > 1
    /\ \A c \in DOMAIN bins :
         Len(bins[c]) > 1 => \/ Tokens(bins[c]) < Tokens(bins[b])
                             \/ Tokens(bins[c]) = Tokens(bins[b]) /\ c <= b

\* _split_bin_by_tokens: the longest first, each to the lighter half.
Halves(bin) ==
  LET Before(k, l) == \/ lengths[bin[k]] > lengths[bin[l]]
                      \/ lengths[bin[k]] = lengths[bin[l]] /\ k < l
      order == SetToSortSeq(DOMAIN bin, Before)
      Deal(h, k) == IF Tokens(h[1]) <= Tokens(h[2])
                    THEN <<Append(h[1], bin[k]), h[2]>>
                    ELSE <<h[1], Append(h[2], bin[k])>>
  IN  FoldLeft(Deal, << << >>, << >> >>, order)

-----------------------------------------------------------------------------
(* Karmarkar-Karp with parts of equal size.  A set is a sequence of bins,  *)
(* a state a sequence of sets, the largest set first.                      *)

SumOf(set, weight) == FoldFunction(+, 0, [k \in 1 .. Len(set) |-> weight[set[k]]])

SetLess(a, b, weight) ==
  LET sum == <<SumOf(a, weight), SumOf(b, weight)>>
  IN  \/ sum[1] < sum[2]
      \/ sum[1] = sum[2] /\ Len(a) < Len(b)
      \/ sum[1] = sum[2] /\ Len(a) = Len(b) /\ a[1] < b[1]

Decreasing(sets, weight) == SortSeq(sets, LAMBDA a, b : SetLess(b, a, weight))

StateSpread(state, weight) == SumOf(state[1], weight) - SumOf(Last(state), weight)

PoppedBefore(x, y, weight) ==
  \/ StateSpread(x, weight) > StateSpread(y, weight)
  \/ StateSpread(x, weight) = StateSpread(y, weight) /\ SetLess(y[1], x[1], weight)

FirstOf(heap, weight) ==
  CHOOSE x \in heap : \A y \in heap \ {x} : PoppedBefore(x, y, weight)

MergeTwo(heap, k, weight) ==
  LET Merged(state0, state1) == [i \in 1 .. k |-> state0[i] \o state1[k + 1 - i]]
      WithSecond(state0, state1) ==
        (heap \ {state0, state1}) \cup {Decreasing(Merged(state0, state1), weight)}
      WithFirst(state0) == WithSecond(state0, FirstOf(heap \ {state0}, weight))
  IN  WithFirst(FirstOf(heap, weight))

KarmarkarKarp(weight, k) ==
  LET Lighter(i, j) == weight[i] < weight[j] \/ (weight[i] = weight[j] /\ i < j)
      order == SetToSortSeq(DOMAIN weight, Lighter)
      n == Len(weight) \div k
      first == {Decreasing([i \in 1 .. k |-> <<order[o * k + i]>>], weight) : o \in 0 .. n - 1}
      heap[m \in 0 .. n - 1] == IF m = 0 THEN first ELSE MergeTwo(heap[m - 1], k, weight)
  IN  CHOOSE state \in heap[n - 1] : TRUE

\* rank_mbs_idx: balanced, each part in increasing order; or strided.
Dealt ==
  IF args.balance_data
  THEN LET parts == KarmarkarKarp([b \in DOMAIN bins |-> Tokens(bins[b])], args.dp_size)
       IN  [d \in DpRanks |-> SortSeq(parts[d], <)]
  ELSE [d \in DpRanks |-> [k \in 1 .. Len(bins) \div args.dp_size |-> d + (k - 1) * args.dp_size]]

-----------------------------------------------------------------------------
ScheduleInit ==
  /\ sched = "idle"
  /\ to_pack = << >>
  /\ bins = << >>
  /\ partitions = [d \in DpRanks |-> << >>]
  /\ micro_batch_indices = [d \in DpRanks |-> << >>]
  /\ num_microbatches = << >>

Fail ==
  /\ sched' = "failed"
  /\ UNCHANGED <<to_pack, bins, partitions, micro_batch_indices, num_microbatches>>

\* The next step, or the end; a rollout without a whole step is refused.
OpenStep ==
  /\ sched = "step"
  /\ Step <= NumSteps
  /\ Len(StepSamples(Step)) >= args.dp_size
  /\ sched' = "pack"
  /\ to_pack' = StepSamples(Step)
  /\ bins' = << >>
  /\ UNCHANGED <<partitions, micro_batch_indices, num_microbatches>>

RefuseStep ==
  /\ sched = "step"
  /\ \/ NumSteps = 0
     \/ Step <= NumSteps /\ Len(StepSamples(Step)) < args.dp_size
  /\ Fail

PlaceSample ==
  /\ sched = "pack" /\ to_pack # << >>
  /\ LET i == Head(to_pack)
         fitting == {b \in DOMAIN bins : Fits(bins[b], i)}
     IN  IF fitting = {} THEN bins' = Append(bins, <<i>>)
         ELSE LET b == CHOOSE b \in fitting : \A c \in fitting : b <= c
              IN  bins' = [bins EXCEPT ![b] = Append(@, i)]
  /\ to_pack' = Tail(to_pack)
  /\ UNCHANGED <<sched, partitions, micro_batch_indices, num_microbatches>>

Splittable == args.dynamic /\ \E b \in DOMAIN bins : Len(bins[b]) > 1

SplitBin ==
  /\ sched = "pack" /\ to_pack = << >>
  /\ Len(bins) # TargetK
  /\ Splittable
  /\ LET halves == Halves(bins[Heaviest])
     IN  bins' = Append([bins EXCEPT ![Heaviest] = halves[1]], halves[2])
  /\ UNCHANGED <<sched, to_pack, partitions, micro_batch_indices, num_microbatches>>

Misaligned ==
  /\ sched = "pack" /\ to_pack = << >>
  /\ Len(bins) # TargetK
  /\ ~Splittable
  /\ Fail

\* Where the k-th bin of rank d starts in partitions[d].
FirstPlace(dealt, d, k) ==
  Len(partitions[d]) + FoldFunction(+, 0, [j \in 1 .. k - 1 |-> Len(bins[dealt[d][j]])])

DealBins ==
  /\ sched = "pack" /\ to_pack = << >>
  /\ Len(bins) = TargetK
  /\ \E dealt \in {Dealt} :
       /\ partitions' = [d \in DpRanks |->
            partitions[d] \o FlattenSeq([k \in DOMAIN dealt[d] |-> bins[dealt[d][k]]])]
       /\ micro_batch_indices' = [d \in DpRanks |->
            micro_batch_indices[d] \o
              [k \in DOMAIN dealt[d] |->
                [j \in 1 .. Len(bins[dealt[d][k]]) |-> FirstPlace(dealt, d, k) + j]]]
  /\ num_microbatches' = Append(num_microbatches, Len(bins) \div args.dp_size)
  /\ sched' = IF Step = NumSteps THEN "done" ELSE "step"
  /\ UNCHANGED <<to_pack, bins>>

BuildDpSchedule ==
  OpenStep \/ RefuseStep \/ PlaceSample \/ SplitBin \/ Misaligned \/ DealBins

=============================================================================
