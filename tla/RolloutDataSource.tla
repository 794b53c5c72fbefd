------------------------- MODULE RolloutDataSource -------------------------
(***************************************************************************)
(* The prompt source of the rollout: slime/rollout/data_source.py,         *)
(* RolloutDataSource (a dataset read in epochs) and                        *)
(* RolloutDataSourceWithBuffer (the same, with a buffer of groups that     *)
(* were handed out, not finished, and given back).                         *)
(*                                                                         *)
(* A group is identified by its sample_group_index, a sample by its        *)
(* position in the group: sample.index is n_samples_per_prompt times the   *)
(* former plus the latter, because both counters advance together.  What   *)
(* a prompt says is abstracted to its epoch and its position in the        *)
(* epoch's order: Dataset.shuffle(epoch_id) is a permutation that depends  *)
(* on the seed and the epoch only.                                         *)
(*                                                                         *)
(* A definition preceded by a suffixed variant of its name (NextHead and   *)
(* NextHeadWhole, for one) comes with a mistake that is easily made        *)
(* in that code; the README says which property tells them apart.          *)
(***************************************************************************)
EXTENDS Integers, Sequences, FiniteSets

CONSTANT DatasetSize    \* len(self.dataset)

ASSUME DatasetAssumption == DatasetSize \in Nat \ {0}

VARIABLES
  sample_offset,        \* next position to read in the current epoch
  epoch_id,
  sample_group_index,   \* the next fresh group id
  prompt_of,            \* prompt_of[g] = the prompt group g was copied from
  buffer                \* the groups given back, oldest first

sourceVars == <<sample_offset, epoch_id, sample_group_index, prompt_of, buffer>>

Lesser(a, b) == IF a < b THEN a ELSE b

Groups == 0 .. sample_group_index - 1

Prompt == [epoch : Nat, position : 0 .. DatasetSize - 1]

SourceInit ==
  /\ sample_offset = 0
  /\ epoch_id = 0
  /\ sample_group_index = 0
  /\ prompt_of = [g \in {} |-> [epoch |-> 0, position |-> 0]]
  /\ buffer = <<>>

-----------------------------------------------------------------------------
(* RolloutDataSource.get_samples *)

\* What is left of this epoch, and what a batch takes of the next one: a slice
\* of the dataset, short when more than one whole epoch is asked for.
EpochTail == IF sample_offset < DatasetSize THEN DatasetSize - sample_offset ELSE 0
NextHeadWhole(num) == num - EpochTail
NextHead(num) == Lesser(num - EpochTail, DatasetSize)

\* Fresh groups copy the prompts of this epoch's tail, then of the next epoch.
PromptAfter(g) ==
  IF g < sample_group_index THEN prompt_of[g]
  ELSE IF g < sample_group_index + EpochTail
  THEN [epoch |-> epoch_id, position |-> sample_offset + (g - sample_group_index)]
  ELSE [epoch |-> epoch_id + 1, position |-> g - sample_group_index - EpochTail]

\* The slice [sample_offset, sample_offset + num) lies inside the epoch.
GetWithinEpoch(num) ==
  /\ sample_offset + num <= DatasetSize
  /\ sample_offset' = sample_offset + num
  /\ epoch_id' = epoch_id
  /\ sample_group_index' = sample_group_index + num
  /\ prompt_of' = [g \in 0 .. sample_group_index' - 1 |-> PromptAfter(g)]

\* Variant: the next epoch is read from its start again.
GetAcrossEpochsRestart(num) ==
  /\ sample_offset + num > DatasetSize
  /\ sample_offset' = 0
  /\ epoch_id' = epoch_id + 1
  /\ sample_group_index' = sample_group_index + EpochTail + NextHead(num)
  /\ prompt_of' = [g \in 0 .. sample_group_index' - 1 |-> PromptAfter(g)]

\* sample_offset takes the number that was asked of the next epoch, which is
\* past its end when the batch came back short.
GetAcrossEpochs(num) ==
  /\ sample_offset + num > DatasetSize
  /\ sample_offset' = num - EpochTail
  /\ epoch_id' = epoch_id + 1
  /\ sample_group_index' = sample_group_index + EpochTail + NextHead(num)
  /\ prompt_of' = [g \in 0 .. sample_group_index' - 1 |-> PromptAfter(g)]

GetFromDataset(num) == GetWithinEpoch(num) \/ GetAcrossEpochs(num)

-----------------------------------------------------------------------------
(* RolloutDataSourceWithBuffer *)

\* pop_first: how many groups the buffer supplies.
Popped(num) == Lesser(Len(buffer), num)

\* Variant: pop_first reads the buffer without deleting what it read.
GetSamplesKeep(num) ==
  /\ buffer' = buffer
  /\ IF Popped(num) = num
     THEN UNCHANGED <<sample_offset, epoch_id, sample_group_index, prompt_of>>
     ELSE GetFromDataset(num - Popped(num))

\* get_samples: the buffer first, the dataset for what is missing.
GetSamples(num) ==
  /\ buffer' = SubSeq(buffer, Popped(num) + 1, Len(buffer))
  /\ IF Popped(num) = num
     THEN UNCHANGED <<sample_offset, epoch_id, sample_group_index, prompt_of>>
     ELSE GetFromDataset(num - Popped(num))

\* The groups a step that takes GetSamples(num) hands out.
HandedOut(num) ==
  {buffer[i] : i \in 1 .. Popped(num)}
    \cup (Groups' \ Groups)

AddSamplesLost(groups) == UNCHANGED sourceVars

AddSamples(groups) ==
  /\ buffer' = buffer \o groups
  /\ UNCHANGED <<sample_offset, epoch_id, sample_group_index, prompt_of>>

-----------------------------------------------------------------------------
SourceTypeOK ==
  /\ sample_offset \in Nat
  /\ epoch_id \in Nat
  /\ sample_group_index \in Nat
  /\ prompt_of \in [Groups -> Prompt]
  /\ buffer \in Seq(Groups)

(***************************************************************************)
(* The dataset is read in order, epoch after epoch: group g got position   *)
(* g mod |dataset| of epoch g div |dataset|.  No prompt of an epoch is     *)
(* skipped or handed out twice, whatever batch sizes are asked for, the    *)
(* ones larger than the dataset included (data_source.py:90-104).          *)
(***************************************************************************)
EpochCoverage ==
  \A g \in Groups :
    g = prompt_of[g].epoch * DatasetSize + prompt_of[g].position

\* sample_offset and epoch_id agree with the number of groups handed out; an
\* offset past the end of the epoch means that the whole epoch was read.
ReadPosition ==
  sample_group_index = epoch_id * DatasetSize + Lesser(sample_offset, DatasetSize)
=============================================================================
