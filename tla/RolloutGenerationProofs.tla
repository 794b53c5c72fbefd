---------------------- MODULE RolloutGenerationProofs ----------------------
(***************************************************************************)
(* Proofs about RolloutGeneration, for every value of its constants.  The  *)
(* inductive invariant IInv adds to the properties what each of them needs *)
(* of the others: the counters of the main coroutine (MainFlow), the tasks *)
(* that may be alive (TasksInRunning) and the read position of the data    *)
(* source (ReadPosition).  One lemma per action shows that the action      *)
(* preserves IInv; NextIInv puts them together.                            *)
(*                                                                         *)
(* The second part is about the samples.  SamplesInv says what each of     *)
(* them holds, by the progress of its group; it is inductive once IInv is  *)
(* known, with one lemma per action again (the names end in Keeps).        *)
(*                                                                         *)
(* The third part is the refinement of RolloutContract.                    *)
(***************************************************************************)
EXTENDS RolloutGeneration, RolloutDataSourceProofs

\* The helper that builds tokens and masks returns a sequence.
LEMMA RepeatSeq ==
  ASSUME NEW S, NEW x \in S, NEW n \in Nat
  PROVE  Repeat(x, n) \in Seq(S)
BY DEF Repeat

\* What a task or abort() does to a sample leaves a sample.
LEMMA SampleSteps ==
  ASSUME NEW s \in Sample, rollout_id \in Nat \cup {NoRollout}
  PROVE  /\ TagStart(s) \in Sample
         /\ MaskPrevious(s) \in Sample
         /\ [s EXCEPT !.status = "ABORTED"] \in Sample
         /\ [s EXCEPT !.rewarded = TRUE] \in Sample
<1>1. TagStart(s) \in Sample
  BY DEF TagStart, Sample
<1>2. MaskPrevious(s) \in Sample
  <2>1. Len(s.response) \in Nat
    BY LenProperties DEF Sample
  <2>2. Repeat(0, Len(s.response)) \in Seq({0, 1})
    BY <2>1, RepeatSeq
  <2> QED BY <2>2 DEF MaskPrevious, Sample
<1>3. [s EXCEPT !.status = "ABORTED"] \in Sample
  BY DEF Sample, Status
<1>4. [s EXCEPT !.rewarded = TRUE] \in Sample
  BY DEF Sample
<1> QED BY <1>1, <1>2, <1>3, <1>4

\* So does the answer of an engine.
LEMMA ExtendSample ==
  ASSUME NEW s \in Sample, NEW reply \in Replies, rollout_id \in Nat
  PROVE  Extend(s, reply) \in Sample
<1>1. reply.tokens \in Nat /\ reply.status \in Status
  BY GenerationAssumption DEF Replies, Status
<1>2. Repeat(rollout_id, reply.tokens) \in Seq(Nat) /\ Repeat(1, reply.tokens) \in Seq({0, 1})
  BY <1>1, RepeatSeq
<1>3. s.response \in Seq(Nat) /\ s.loss_mask \in Seq({0, 1})
  BY DEF Sample
<1>4. /\ s.response \o Repeat(rollout_id, reply.tokens) \in Seq(Nat)
      /\ s.loss_mask \o Repeat(1, reply.tokens) \in Seq({0, 1})
  BY <1>2, <1>3, ConcatProperties
<1> QED BY <1>1, <1>3, <1>4 DEF Extend, Sample

-----------------------------------------------------------------------------
(***************************************************************************)
(* The inductive invariant.                                                *)
(***************************************************************************)

\* Where the main coroutine is determines what its counters say.
MainFlow ==
  /\ pc = "idle" => /\ pendings = {} /\ remaining_batch_size = 0
                    /\ \A g \in Groups : gstate[g] # "kept"
  /\ pc # "idle" => rollout_id \in Nat
  /\ aborted <=> pc = "drain"
  /\ pc = "submit" => remaining_batch_size < TargetDataSize
  /\ pc = "wait" => remaining_batch_size >= TargetDataSize
  /\ pc \in {"submit", "wait"} => /\ Cardinality(data) < TargetDataSize
                                  /\ aborted_samples = <<>>

\* Only the samples of a running group have a live task.
TasksInRunning ==
  \A g \in Groups, i \in SampleIds :
    gstate[g] # "running" => tstate[g][i] \in {"idle", "returned"}

IInv ==
  /\ TypeOK
  /\ EpochCoverage
  /\ ReadPosition
  /\ MainFlow
  /\ TasksInRunning
  /\ OneOwner
  /\ Accounting
  /\ BacklogBounded
  /\ PermitsConserved

\* The sets that are counted are finite.
LEMMA FiniteParts ==
  ASSUME TypeOK
  PROVE  /\ IsFiniteSet(Groups)
         /\ IsFiniteSet(pendings) /\ Cardinality(pendings) \in Nat
         /\ IsFiniteSet(data) /\ Cardinality(data) \in Nat
         /\ IsFiniteSet(DonePendings) /\ Cardinality(DonePendings) \in Nat
         /\ IsFiniteSet(InFlight) /\ Cardinality(InFlight) \in Nat
<1>1. IsFiniteSet(Groups)
  <2>1. sample_group_index - 1 \in Int
    BY DEF TypeOK, SourceTypeOK
  <2> QED BY <2>1, FS_Interval DEF Groups
<1>2. IsFiniteSet(Groups \X SampleIds)
  BY <1>1, GenerationAssumption, FS_Product
<1>3. /\ pendings \subseteq Groups /\ data \subseteq Groups
      /\ DonePendings \subseteq Groups /\ InFlight \subseteq Groups \X SampleIds
  BY DEF TypeOK, DonePendings, InFlight
<1> QED BY <1>1, <1>2, <1>3, FS_Subset, FS_CardinalityType

\* A step of a sample's task disturbs nothing but the tasks and the permits.
LEMMA SampleTaskFrame ==
  ASSUME IInv,
         UNCHANGED <<sourceVars, rollout_id, pc, remaining_batch_size, pendings,
                     aborted, data, aborted_samples, gstate>>,
         permits' \in 0 .. Concurrency,
         tstate' \in [Groups -> [SampleIds -> TState]],
         samples' \in [Groups -> [SampleIds -> Sample]],
         TasksInRunning', PermitsConserved'
  PROVE  IInv'
<1>1. TypeOK'
  BY DEF IInv, TypeOK, SourceTypeOK, sourceVars, Groups
<1>2. EpochCoverage' /\ ReadPosition'
  BY DEF IInv, EpochCoverage, ReadPosition, sourceVars, Groups
<1>3. MainFlow' /\ Accounting'
  BY DEF IInv, MainFlow, Accounting, sourceVars, Groups
<1>4. OneOwner' /\ BacklogBounded'
  BY SMTT(30) DEF IInv, OneOwner, BacklogBounded, Queued, AbortedPending, Groups, sourceVars
<1> QED BY <1>1, <1>2, <1>3, <1>4 DEF IInv

\* Sample i of group g has a live task: its group is running, in a rollout.
LEMMA LiveTask ==
  ASSUME IInv, NEW g \in Groups, NEW i \in SampleIds,
         tstate[g][i] \notin {"idle", "returned"}
  PROVE  gstate[g] = "running" /\ g \in pendings /\ rollout_id \in Nat
<1>1. gstate[g] = "running"
  BY DEF IInv, TasksInRunning
<1>2. g \in pendings
  BY <1>1 DEF IInv, OneOwner, GLive
<1> QED BY <1>1, <1>2 DEF IInv, MainFlow

\* A task that moves to state s joins or leaves the requests in flight.
LEMMA InFlightAfter ==
  ASSUME IInv, NEW g \in Groups, NEW i \in SampleIds, NEW s,
         tstate' = [tstate EXCEPT ![g][i] = s], UNCHANGED sourceVars
  PROVE  InFlight' = IF s = "generate" THEN InFlight \cup {<<g, i>>}
                                       ELSE InFlight \ {<<g, i>>}
<1>1. Groups' = Groups
  BY DEF sourceVars, Groups
<1>2. tstate \in [Groups -> [SampleIds -> TState]]
  BY DEF IInv, TypeOK
<1>3. ASSUME NEW h \in Groups, NEW j \in SampleIds
      PROVE  tstate'[h][j] = IF h = g /\ j = i THEN s ELSE tstate[h][j]
  BY <1>2
<1>4. ASSUME NEW x \in Groups \X SampleIds
      PROVE  tstate'[x[1]][x[2]] = IF x = <<g, i>> THEN s ELSE tstate[x[1]][x[2]]
  BY <1>3
<1>5. InFlight' = {x \in Groups \X SampleIds : tstate'[x[1]][x[2]] = "generate"}
  BY <1>1 DEF InFlight
<1> QED BY <1>4, <1>5 DEF InFlight

\* A sample that starts moves to the semaphore, or returns if it is finished; its
\* group is still running and no permit changes hands (sglang_rollout.py:246-260).
LEMMA StartSampleStep ==
  ASSUME IInv, NEW g \in Groups, NEW i \in SampleIds, StartSample(g, i)
  PROVE  IInv'
<1>1. gstate[g] = "running" /\ rollout_id \in Nat
  BY LiveTask DEF StartSample
<1>2. samples[g][i] \in Sample
  BY DEF IInv, TypeOK
<1>3. MaskPrevious(samples[g][i]) \in Sample
  BY <1>1, <1>2, SampleSteps
<1>4. /\ tstate' \in [Groups -> [SampleIds -> TState]]
      /\ samples' \in [Groups -> [SampleIds -> Sample]]
  BY <1>3 DEF IInv, TypeOK, StartSample, TState
<1>5. TasksInRunning'
  BY <1>1 DEF IInv, TypeOK, TasksInRunning, StartSample, sourceVars, Groups
<1>6. InFlight' = InFlight
  BY DEF IInv, TypeOK, StartSample, InFlight, sourceVars, Groups
<1>7. PermitsConserved' /\ permits' \in 0 .. Concurrency
  BY <1>6 DEF IInv, TypeOK, PermitsConserved, StartSample, stateVars
<1> QED BY <1>4, <1>5, <1>7, SampleTaskFrame DEF StartSample, stateVars

\* A sample that gets a permit becomes a request in flight, or gives the permit
\* back at once because the rollout was aborted (sglang_rollout.py:260-265).
LEMMA AcquirePermitStep ==
  ASSUME IInv, NEW g \in Groups, NEW i \in SampleIds, AcquirePermit(g, i)
  PROVE  IInv'
<1>1. gstate[g] = "running" /\ rollout_id \in Nat
  BY LiveTask DEF AcquirePermit
<1>2. permits \in Nat /\ permits <= Concurrency /\ Concurrency \in Nat /\ permits > 0
  BY GenerationAssumption DEF IInv, TypeOK, AcquirePermit
<1>3. /\ permits + Cardinality(InFlight) = Concurrency
      /\ IsFiniteSet(InFlight) /\ Cardinality(InFlight) \in Nat
  BY FiniteParts DEF IInv, PermitsConserved
<1>4. UNCHANGED sourceVars /\ Groups' = Groups
  BY DEF AcquirePermit, sourceVars, Groups
<1>5. TasksInRunning'
  BY <1>1, <1>4 DEF IInv, TypeOK, TasksInRunning, AcquirePermit
<1>6. ASSUME NEW s \in {"returned", "generate"}, tstate' = [tstate EXCEPT ![g][i] = s]
      PROVE  tstate' \in [Groups -> [SampleIds -> TState]]
  BY <1>6 DEF IInv, TypeOK, TState
<1>7. CASE aborted
  <2>1. /\ tstate' = [tstate EXCEPT ![g][i] = "returned"]
        /\ samples' = [samples EXCEPT ![g][i].status = "ABORTED"]
        /\ permits' = permits
    BY <1>7 DEF AcquirePermit
  <2>2. samples' \in [Groups -> [SampleIds -> Sample]]
    <3>1. [samples[g][i] EXCEPT !.status = "ABORTED"] \in Sample
      BY <1>1, SampleSteps, ZenonT(30) DEF IInv, TypeOK
    <3>2. samples' = [samples EXCEPT ![g][i] = [samples[g][i] EXCEPT !.status = "ABORTED"]]
      BY <2>1
    <3> QED BY <3>1, <3>2 DEF IInv, TypeOK
  <2>3. InFlight' = InFlight
    BY <1>4, <2>1, InFlightAfter, SMTT(30) DEF InFlight, AcquirePermit
  <2>4. permits' \in 0 .. Concurrency /\ PermitsConserved'
    BY <1>2, <1>3, <2>1, <2>3 DEF PermitsConserved
  <2> QED BY <1>5, <1>6, <2>1, <2>2, <2>4, SampleTaskFrame DEF AcquirePermit
<1>8. CASE ~aborted
  <2>1. /\ tstate' = [tstate EXCEPT ![g][i] = "generate"]
        /\ samples' = samples
        /\ permits' = permits - 1
    BY <1>8 DEF AcquirePermit
  <2>2. samples' \in [Groups -> [SampleIds -> Sample]]
    BY <2>1 DEF IInv, TypeOK
  <2>3. InFlight' = InFlight \cup {<<g, i>>}
    BY <1>4, <2>1, InFlightAfter
  <2>4. <<g, i>> \notin InFlight
    BY DEF InFlight, AcquirePermit
  <2>5. Cardinality(InFlight \cup {<<g, i>>}) = Cardinality(InFlight) + 1
    BY <1>3, <2>4, FS_AddElement
  <2>6. permits - 1 \in 0 .. Concurrency
    BY <1>2
  <2>7. (permits - 1) + Cardinality(InFlight \cup {<<g, i>>}) = Concurrency
    BY <1>2, <1>3, <2>5
  <2>8. permits' \in 0 .. Concurrency /\ PermitsConserved'
    BY <2>1, <2>3, <2>6, <2>7, Zenon DEF PermitsConserved
  <2> QED BY <1>5, <1>6, <2>1, <2>2, <2>8, SampleTaskFrame DEF AcquirePermit
<1> QED BY <1>7, <1>8

\* An answered request gives back the one permit it held, whatever the answer
\* (sglang_rollout.py:165-236, 267-277).
LEMMA ReceiveReplyStep ==
  ASSUME IInv, NEW g \in Groups, NEW i \in SampleIds, ReceiveReply(g, i)
  PROVE  IInv'
<1>1. gstate[g] = "running" /\ rollout_id \in Nat
  BY LiveTask DEF ReceiveReply
<1>2. permits \in Nat /\ Concurrency \in Nat
  BY GenerationAssumption DEF IInv, TypeOK
<1>3. /\ permits + Cardinality(InFlight) = Concurrency
      /\ IsFiniteSet(InFlight) /\ Cardinality(InFlight) \in Nat
  BY FiniteParts DEF IInv, PermitsConserved
<1>4. UNCHANGED sourceVars /\ Groups' = Groups
  BY DEF ReceiveReply, sourceVars, Groups
<1>5. PICK reply \in Replies :
        /\ samples' = [samples EXCEPT ![g][i] = Extend(samples[g][i], reply)]
        /\ tstate' = [tstate EXCEPT ![g][i] = AfterReply(samples[g][i], reply)]
        /\ permits' = permits + 1
  BY DEF ReceiveReply, Released
<1>6. samples' \in [Groups -> [SampleIds -> Sample]]
  <2>1. Extend(samples[g][i], reply) \in Sample
    BY <1>1, ExtendSample DEF IInv, TypeOK
  <2> QED BY <1>5, <2>1 DEF IInv, TypeOK
<1>7. PICK s \in {"returned", "reward"} : tstate' = [tstate EXCEPT ![g][i] = s]
  BY <1>5 DEF AfterReply
<1>8. tstate' \in [Groups -> [SampleIds -> TState]]
  BY <1>7 DEF IInv, TypeOK, TState
<1>9. TasksInRunning'
  BY <1>1, <1>4, <1>7 DEF IInv, TypeOK, TasksInRunning, ReceiveReply
<1>10. InFlight' = InFlight \ {<<g, i>>}
  BY <1>4, <1>7, InFlightAfter
<1>11. <<g, i>> \in InFlight
  BY DEF InFlight, ReceiveReply
<1>12. Cardinality(InFlight \ {<<g, i>>}) = Cardinality(InFlight) - 1
  BY <1>3, <1>11, FS_RemoveElement
<1>13. Cardinality(InFlight \ {<<g, i>>}) \in Nat
  BY <1>3, FS_RemoveElement, FS_CardinalityType
<1>14. /\ permits + 1 \in 0 .. Concurrency
       /\ (permits + 1) + Cardinality(InFlight \ {<<g, i>>}) = Concurrency
  BY <1>2, <1>3, <1>12, <1>13
<1>15. permits' = permits + 1
  BY <1>5
<1>16. permits' \in 0 .. Concurrency /\ PermitsConserved'
  BY <1>10, <1>14, <1>15, Zenon DEF PermitsConserved
<1> QED BY <1>6, <1>8, <1>9, <1>16, SampleTaskFrame DEF ReceiveReply

\* A reward ends the task of its sample and touches no other
\* (sglang_rollout.py:297-302).
LEMMA ReceiveRewardStep ==
  ASSUME IInv, NEW g \in Groups, NEW i \in SampleIds, ReceiveReward(g, i)
  PROVE  IInv'
<1>1. gstate[g] = "running" /\ rollout_id \in Nat
  BY LiveTask DEF ReceiveReward
<1>2. UNCHANGED sourceVars /\ Groups' = Groups
  BY DEF ReceiveReward, sourceVars, Groups
<1>3. samples' \in [Groups -> [SampleIds -> Sample]]
  <2>1. [samples[g][i] EXCEPT !.rewarded = TRUE] \in Sample
    BY <1>1, SampleSteps, ZenonT(30) DEF IInv, TypeOK
  <2>2. samples' = [samples EXCEPT ![g][i] = [samples[g][i] EXCEPT !.rewarded = TRUE]]
    BY DEF ReceiveReward
  <2> QED BY <2>1, <2>2 DEF IInv, TypeOK
<1>4. tstate' \in [Groups -> [SampleIds -> TState]]
  BY DEF IInv, TypeOK, TState, ReceiveReward
<1>5. TasksInRunning'
  BY <1>1, <1>2 DEF IInv, TypeOK, TasksInRunning, ReceiveReward
<1>6. InFlight' = InFlight
  BY <1>2, InFlightAfter DEF InFlight, ReceiveReward
<1>7. PermitsConserved' /\ permits' \in 0 .. Concurrency
  BY <1>6 DEF IInv, TypeOK, PermitsConserved, ReceiveReward, stateVars
<1> QED BY <1>3, <1>4, <1>5, <1>7, SampleTaskFrame DEF ReceiveReward, stateVars

\* A step of a group's task changes the progress of a live group only.
LEMMA GroupTaskFrame ==
  ASSUME IInv, NEW g \in Groups, NEW t \in GLive, gstate[g] \in GLive,
         gstate' = [gstate EXCEPT ![g] = t],
         UNCHANGED <<sourceVars, stateVars>>,
         tstate' \in [Groups -> [SampleIds -> TState]],
         samples' \in [Groups -> [SampleIds -> Sample]],
         TasksInRunning', InFlight' = InFlight
  PROVE  IInv'
<1>1. UNCHANGED <<rollout_id, pc, remaining_batch_size, pendings, aborted, permits,
                  data, aborted_samples>>
  BY DEF stateVars
<1>2. UNCHANGED <<sample_offset, epoch_id, sample_group_index, prompt_of, buffer>>
      /\ Groups' = Groups
  BY DEF sourceVars, Groups
<1>3. gstate' \in [Groups -> GLive \cup GFate]
  BY DEF IInv, TypeOK
<1>4. TypeOK'
  BY <1>1, <1>2, <1>3 DEF IInv, TypeOK, SourceTypeOK, Prompt
<1>5. EpochCoverage' /\ ReadPosition'
  BY <1>2 DEF IInv, EpochCoverage, ReadPosition
<1>6. Accounting' /\ BacklogBounded' /\ PermitsConserved'
  BY <1>1, <1>2 DEF IInv, Accounting, BacklogBounded, AbortedPending, PermitsConserved
<1>7. \A h \in Groups : /\ gstate'[h] \in GLive <=> gstate[h] \in GLive
                        /\ gstate'[h] = "recycled" <=> gstate[h] = "recycled"
                        /\ gstate'[h] = "kept" <=> gstate[h] = "kept"
  BY DEF IInv, TypeOK, GLive
<1>8. Queued' = Queued
  BY <1>1, <1>2 DEF Queued
<1>9. OneOwner'
  BY <1>1, <1>2, <1>7, <1>8 DEF IInv, OneOwner
<1>10. MainFlow'
  BY <1>1, <1>2, <1>7 DEF IInv, MainFlow
<1> QED BY <1>4, <1>5, <1>6, <1>9, <1>10 DEF IInv

\* A group's task starts its samples' tasks, or returns untouched after the abort
\* (sglang_rollout.py:310-334).
LEMMA StartGroupStep ==
  ASSUME IInv, NEW g \in Groups, StartGroup(g)
  PROVE  IInv'
<1>1. /\ UNCHANGED <<sourceVars, stateVars>> /\ Groups' = Groups
      /\ samples' = samples /\ gstate[g] = "created"
  BY DEF StartGroup, sourceVars, Groups
<1>2. /\ samples' \in [Groups -> [SampleIds -> Sample]]
      /\ tstate \in [Groups -> [SampleIds -> TState]]
      /\ gstate \in [Groups -> GLive \cup GFate]
  BY <1>1 DEF IInv, TypeOK
<1>3. CASE aborted
  <2>1. gstate' = [gstate EXCEPT ![g] = "done"] /\ tstate' = tstate
    BY <1>3 DEF StartGroup
  <2>2. TasksInRunning' /\ InFlight' = InFlight
    BY <1>1, <1>2, <2>1 DEF IInv, TasksInRunning, InFlight
  <2> QED BY <1>1, <1>2, <2>1, <2>2, GroupTaskFrame DEF GLive
<1>4. CASE ~aborted
  <2>1. /\ gstate' = [gstate EXCEPT ![g] = "running"]
        /\ tstate' = [tstate EXCEPT ![g] = [i \in SampleIds |-> "start"]]
    BY <1>4 DEF StartGroup
  <2>2. tstate' \in [Groups -> [SampleIds -> TState]]
    BY <1>2, <2>1 DEF TState
  <2>3. TasksInRunning'
    BY <1>1, <1>2, <2>1 DEF IInv, TasksInRunning
  <2>4. \A h \in Groups, i \in SampleIds : tstate'[h][i] = "generate" <=> tstate[h][i] = "generate"
    BY <1>1, <1>2, <2>1 DEF IInv, TasksInRunning
  <2>5. InFlight' = InFlight
    BY <1>1, <2>4 DEF InFlight
  <2> QED BY <1>1, <1>2, <2>1, <2>2, <2>3, <2>5, GroupTaskFrame DEF GLive
<1> QED BY <1>3, <1>4

\* A group is gathered only when all its samples' tasks have returned
\* (sglang_rollout.py:336-343).
LEMMA GatherGroupStep ==
  ASSUME IInv, NEW g \in Groups, GatherGroup(g)
  PROVE  IInv'
<1>1. /\ UNCHANGED <<sourceVars, stateVars>> /\ Groups' = Groups
      /\ samples' = samples /\ tstate' = tstate /\ gstate[g] = "running"
      /\ \A i \in SampleIds : tstate[g][i] = "returned"
  BY DEF GatherGroup, sourceVars, Groups
<1>2. PICK t \in {"group_rm", "done"} : gstate' = [gstate EXCEPT ![g] = t]
  BY DEF GatherGroup, Gathered
<1>3. /\ samples' \in [Groups -> [SampleIds -> Sample]]
      /\ tstate' \in [Groups -> [SampleIds -> TState]]
      /\ gstate \in [Groups -> GLive \cup GFate]
  BY <1>1 DEF IInv, TypeOK
<1>4. TasksInRunning' /\ InFlight' = InFlight
  BY <1>1, <1>2, <1>3 DEF IInv, TasksInRunning, InFlight
<1> QED BY <1>1, <1>2, <1>3, <1>4, GroupTaskFrame DEF GLive

\* A group reward ends the group's task (sglang_rollout.py:343-347).
LEMMA ReceiveGroupRewardStep ==
  ASSUME IInv, NEW g \in Groups, ReceiveGroupReward(g)
  PROVE  IInv'
<1>1. /\ UNCHANGED <<sourceVars, stateVars>> /\ Groups' = Groups
      /\ tstate' = tstate /\ gstate[g] = "group_rm"
      /\ gstate' = [gstate EXCEPT ![g] = "done"]
  BY DEF ReceiveGroupReward, sourceVars, Groups
<1>2. rollout_id \in Nat \cup {NoRollout}
  BY DEF IInv, TypeOK
<1>3. \A i \in SampleIds : [samples[g][i] EXCEPT !.rewarded = TRUE] \in Sample
  BY <1>2, SampleSteps DEF IInv, TypeOK
<1>4. samples' \in [Groups -> [SampleIds -> Sample]]
  BY <1>3 DEF IInv, TypeOK, ReceiveGroupReward
<1>5. /\ tstate' \in [Groups -> [SampleIds -> TState]]
      /\ gstate \in [Groups -> GLive \cup GFate]
  BY <1>1 DEF IInv, TypeOK
<1>6. TasksInRunning' /\ InFlight' = InFlight
  BY <1>1, <1>5 DEF IInv, TasksInRunning, InFlight
<1> QED BY <1>1, <1>4, <1>5, <1>6, GroupTaskFrame DEF GLive

-----------------------------------------------------------------------------
(* The steps of the main coroutine *)

\* A rollout starts with no task and no group collected, so it begins by sampling
\* (sglang_rollout.py:413-429).
LEMMA StartRolloutStep ==
  ASSUME IInv, StartRollout
  PROVE  IInv'
<1>1. /\ pc = "idle" /\ pendings = {} /\ remaining_batch_size = 0
      /\ \A g \in Groups : gstate[g] # "kept"
  BY DEF IInv, MainFlow, StartRollout
<1>2. TargetDataSize \in Nat /\ TargetDataSize > 0
  BY GenerationAssumption
<1>3. Cardinality({}) = 0
  BY FS_EmptySet
<1>4. pc' = "submit"
  BY <1>1, <1>2, <1>3 DEF StartRollout, LoopPc
<1>5. /\ UNCHANGED <<sample_offset, epoch_id, sample_group_index, prompt_of, buffer,
                     remaining_batch_size, pendings, aborted, permits, gstate, tstate, samples>>
      /\ Groups' = Groups
      /\ data' = {} /\ aborted_samples' = <<>>
  BY DEF StartRollout, sourceVars, taskVars, Groups
<1>6. rollout_id' \in Nat
  <2>1. rollout_id + 1 \in Nat
    BY DEF IInv, TypeOK, NoRollout
  <2> QED BY <2>1 DEF StartRollout
<1>7. TypeOK'
  BY <1>4, <1>5, <1>6 DEF IInv, TypeOK, SourceTypeOK, Prompt
<1>8. EpochCoverage' /\ ReadPosition' /\ TasksInRunning' /\ PermitsConserved'
  BY <1>5 DEF IInv, EpochCoverage, ReadPosition, TasksInRunning, PermitsConserved, InFlight
<1>9. MainFlow'
  <2>1. 0 < TargetDataSize /\ ~aborted
    BY <1>1, <1>2 DEF IInv, MainFlow
  <2> QED BY <1>1, <1>3, <1>4, <1>5, <1>6, <2>1 DEF MainFlow
<1>10. OneOwner'
  <2>1. Queued = buffer \o <<>> /\ Queued' = buffer \o <<>>
    BY <1>1, <1>4, <1>5 DEF Queued
  <2> QED BY <1>1, <1>4, <1>5, <2>1 DEF IInv, OneOwner
<1>11. Accounting'
  <2>1. 0 = Cardinality({}) + Cardinality({})
    BY <1>3
  <2> QED BY <1>1, <1>4, <1>5, <2>1 DEF Accounting
<1>12. BacklogBounded'
  BY <1>1, <1>4, <1>5 DEF IInv, BacklogBounded, AbortedPending
<1> QED BY <1>7, <1>8, <1>9, <1>10, <1>11, <1>12 DEF IInv

\* With groups of the buffer first, the source keeps its reading order.
LEMMA GetSamplesCoverage ==
  ASSUME SourceTypeOK, EpochCoverage, ReadPosition, NEW num \in Nat, GetSamples(num)
  PROVE  EpochCoverage' /\ ReadPosition'
<1>1. CASE Popped(num) = num
  BY <1>1 DEF GetSamples, EpochCoverage, ReadPosition, Groups
<1>2. CASE Popped(num) # num
  <2>1. num - Popped(num) \in Nat
    <3>1. Len(buffer) \in Nat
      BY LenProperties DEF SourceTypeOK
    <3> QED BY <3>1 DEF Popped, Lesser
  <2>2. GetFromDataset(num - Popped(num))
    BY <1>2 DEF GetSamples
  <2> QED BY <2>1, <2>2, CoverageStep
<1> QED BY <1>1, <1>2

\* Between abort() and the next, what is queued is the buffer.
LEMMA BufferQueued ==
  ASSUME IInv, pc # "drain"
  PROVE  /\ Queued = buffer
         /\ Len(buffer) \in Nat /\ DOMAIN buffer = 1 .. Len(buffer)
         /\ \A j, k \in 1 .. Len(buffer) : buffer[j] = buffer[k] => j = k
         /\ {buffer[k] : k \in 1 .. Len(buffer)} = {g \in Groups : gstate[g] = "recycled"}
<1>1. buffer \in Seq(Groups)
  BY DEF IInv, TypeOK, SourceTypeOK
<1>2. Queued = buffer
  BY <1>1, ConcatEmptySeq DEF Queued
<1>3. Len(buffer) \in Nat /\ DOMAIN buffer = 1 .. Len(buffer)
  BY <1>1, LenProperties
<1> QED BY <1>2, <1>3 DEF IInv, OneOwner

\* submit_generate_tasks never submits a group that has a task or was kept.
LEMMA HandedOutIsFree ==
  ASSUME IInv, SubmitTasks
  PROVE  LET got == HandedOut(OverSamplingBatchSize)
         IN  /\ got \cap pendings = {} /\ got \cap data = {}
             /\ \A g \in Groups' : g \notin got => g \in Groups
             /\ \A g \in got : g \in Groups => gstate[g] = "recycled"
<1> DEFINE popped == {buffer[i] : i \in 1 .. Popped(OverSamplingBatchSize)}
           got == HandedOut(OverSamplingBatchSize)
           after == Groups'
<1>1. pc = "submit" /\ GetSamples(OverSamplingBatchSize) /\ OverSamplingBatchSize \in Nat
  BY GenerationAssumption DEF SubmitTasks
<1>2. SourceTypeOK
  BY DEF IInv, TypeOK
<1>3. Popped(OverSamplingBatchSize) \in 0 .. Len(buffer)
  BY <1>1, <1>2, GetSamplesStep
<1>4. popped \subseteq {g \in Groups : gstate[g] = "recycled"}
  BY <1>1, <1>3, BufferQueued
<1>5. got = popped \cup (after \ Groups)
  BY DEF HandedOut
<1>6. /\ pendings = {g \in Groups : gstate[g] \in GLive}
      /\ data = {g \in Groups : gstate[g] = "kept"}
  BY <1>1 DEF IInv, OneOwner
<1> HIDE DEF popped, got, after
<1>7. got \cap pendings = {} /\ got \cap data = {}
  BY <1>4, <1>5, <1>6 DEF GLive
<1>8. \A g \in after : g \notin got => g \in Groups
  BY <1>5
<1>9. \A g \in got : g \in Groups => gstate[g] = "recycled"
  BY <1>4, <1>5
<1> QED BY <1>7, <1>8, <1>9 DEF after, got

\* submit_generate_tasks adds to pendings and to the counter the same groups, none
\* of which has a task or is queued (sglang_rollout.py:136-149, 430-433).
LEMMA SubmitTasksStep ==
  ASSUME IInv, SubmitTasks
  PROVE  IInv'
<1> DEFINE n     == OverSamplingBatchSize
           got   == HandedOut(n)
           after == Groups'
           added == remaining_batch_size'
           taken == buffer'
<1>1. n \in Nat /\ TargetDataSize \in Nat
  BY GenerationAssumption
<1>2. SourceTypeOK /\ GetSamples(n) /\ pc = "submit"
  BY DEF IInv, TypeOK, SubmitTasks
<1>3. /\ SourceTypeOK' /\ Groups \subseteq after /\ got \subseteq after
      /\ IsFiniteSet(got) /\ Cardinality(got) <= n
      /\ Popped(n) \in 0 .. Len(buffer)
      /\ Len(taken) = Len(buffer) - Popped(n)
      /\ \A k \in 1 .. Len(taken) : taken[k] = buffer[Popped(n) + k]
      /\ after # Groups => taken = <<>>
      /\ after = Groups => Cardinality(got) <= Popped(n)
  BY <1>1, <1>2, GetSamplesStep
<1>4. /\ got \cap pendings = {} /\ got \cap data = {}
      /\ \A g \in after : g \notin got => g \in Groups
      /\ \A g \in got : g \in Groups => gstate[g] = "recycled"
  BY HandedOutIsFree
<1>5. /\ pendings' = pendings \cup got
      /\ added = remaining_batch_size + Cardinality(got)
      /\ pc' = LoopPc(data, added)
      /\ gstate' = [g \in after |-> IF g \in got THEN "created" ELSE gstate[g]]
      /\ tstate' = [g \in after |-> IF g \in got THEN [i \in SampleIds |-> "idle"]
                                                 ELSE tstate[g]]
      /\ samples' = [g \in after |-> IF g \in Groups THEN samples[g]
                                     ELSE [i \in SampleIds |-> FreshSample]]
      /\ UNCHANGED <<rollout_id, aborted, permits, data, aborted_samples>>
  BY DEF SubmitTasks
<1>6. got = {buffer[i] : i \in 1 .. Popped(n)} \cup (after \ Groups)
  BY DEF HandedOut
<1> HIDE DEF n, got, after, added, taken
<1>7. /\ Cardinality(got) \in Nat
      /\ IsFiniteSet(pendings) /\ Cardinality(pendings) \in Nat /\ Cardinality(data) \in Nat
      /\ remaining_batch_size \in Nat
      /\ remaining_batch_size = Cardinality(pendings) + Cardinality(data)
      /\ remaining_batch_size < TargetDataSize
      /\ Cardinality(data) < TargetDataSize
      /\ rollout_id \in Nat /\ ~aborted /\ aborted_samples = <<>>
  BY <1>2, <1>3, FiniteParts, FS_CardinalityType DEF IInv, TypeOK, Accounting, MainFlow
<1>8. Cardinality(pendings \cup got) = Cardinality(pendings) + Cardinality(got)
  BY <1>3, <1>4, <1>7, DisjointUnion
<1>9. pc' = IF added < TargetDataSize THEN "submit" ELSE "wait"
  BY <1>1, <1>5, <1>7 DEF LoopPc
<1>10. TypeOK'
  <2>1. gstate' \in [after -> GLive \cup GFate]
    BY <1>4, <1>5 DEF IInv, TypeOK, GLive
  <2>2. tstate' \in [after -> [SampleIds -> TState]]
    BY <1>4, <1>5 DEF IInv, TypeOK, TState
  <2>3. FreshSample \in Sample
    BY EmptySeq DEF FreshSample, Sample, Status
  <2>4. samples' \in [after -> [SampleIds -> Sample]]
    BY <1>5, <2>3 DEF IInv, TypeOK
  <2>5. aborted_samples' \in Seq(after) /\ data' \in SUBSET after
        /\ pendings' \in SUBSET after
    BY <1>3, <1>5, SeqMonotonic DEF IInv, TypeOK
  <2>6. added \in Nat
    BY <1>5, <1>7
  <2>7. pc' \in {"idle", "submit", "wait", "drain"}
    BY <1>9
  <2> QED BY <1>3, <1>5, <2>1, <2>2, <2>4, <2>5, <2>6, <2>7 DEF IInv, TypeOK, after, added
<1>11. EpochCoverage' /\ ReadPosition'
  BY <1>1, <1>2, GetSamplesCoverage DEF IInv
<1>12. MainFlow'
  <2>1. pc' \in {"submit", "wait"} /\ pc' # "idle" /\ pc' # "drain"
    BY <1>9
  <2>2. /\ pc' = "submit" => added < TargetDataSize
        /\ pc' = "wait" => added >= TargetDataSize
    BY <1>1, <1>5, <1>7, <1>9
  <2> QED BY <1>5, <1>7, <2>1, <2>2 DEF MainFlow, added
<1>13. TasksInRunning'
  <2>1. ASSUME NEW g \in after, NEW i \in SampleIds, gstate'[g] # "running"
        PROVE  tstate'[g][i] \in {"idle", "returned"}
    BY <1>4, <1>5, <2>1 DEF IInv, TasksInRunning
  <2> QED BY <2>1 DEF TasksInRunning, after
<1>14. PermitsConserved'
  <2>1. \A g \in after, i \in SampleIds :
          tstate'[g][i] = "generate" <=> g \in Groups /\ tstate[g][i] = "generate"
    BY <1>4, <1>5 DEF IInv, TasksInRunning
  <2>2. InFlight' = {x \in after \X SampleIds : tstate'[x[1]][x[2]] = "generate"}
    BY DEF InFlight, after
  <2>3. InFlight' = InFlight
    BY <1>3, <2>1, <2>2 DEF InFlight
  <2> QED BY <1>5, <2>3 DEF IInv, PermitsConserved
<1>15. OneOwner'
  <2>1. pendings' = {g \in after : gstate'[g] \in GLive}
    BY <1>3, <1>4, <1>5 DEF IInv, OneOwner, GLive
  <2>2. data' = {g \in after : gstate'[g] = "kept"}
    BY <1>2, <1>3, <1>4, <1>5 DEF IInv, OneOwner
  <2>3. /\ taken \in Seq(after) /\ Len(taken) \in Nat /\ DOMAIN taken = 1 .. Len(taken)
    BY <1>3, LenProperties DEF SourceTypeOK, taken, after
  <2>4. Queued' = taken
    <3>1. pc' # "drain"
      BY <1>9
    <3>2. Queued' = taken \o <<>>
      BY <3>1 DEF Queued, taken
    <3> QED BY <2>3, <3>2, ConcatEmptySeq
  <2>5. /\ Len(buffer) \in Nat
        /\ \A j, k \in 1 .. Len(buffer) : buffer[j] = buffer[k] => j = k
        /\ {buffer[k] : k \in 1 .. Len(buffer)} = {g \in Groups : gstate[g] = "recycled"}
    BY <1>2, BufferQueued
  <2>6. \A j, k \in 1 .. Len(taken) : taken[j] = taken[k] => j = k
    <3> SUFFICES ASSUME NEW j \in 1 .. Len(taken), NEW k \in 1 .. Len(taken),
                        taken[j] = taken[k]
                 PROVE  j = k
      OBVIOUS
    <3>1. buffer[Popped(n) + j] = buffer[Popped(n) + k]
      BY <1>3
    <3>2. Popped(n) + j \in 1 .. Len(buffer) /\ Popped(n) + k \in 1 .. Len(buffer)
      BY <1>3, <2>3, <2>5
    <3>3. Popped(n) + j = Popped(n) + k
      BY <2>5, <3>1, <3>2
    <3> QED BY <1>3, <2>5, <3>3
  <2>7. \A k \in 1 .. Len(taken) :
          taken[k] \in Groups /\ taken[k] \in after /\ taken[k] \notin got
          /\ gstate[taken[k]] = "recycled"
    <3> SUFFICES ASSUME NEW k \in 1 .. Len(taken)
                 PROVE  /\ taken[k] \in Groups /\ taken[k] \in after
                        /\ taken[k] \notin got /\ gstate[taken[k]] = "recycled"
      OBVIOUS
    <3>1. taken[k] = buffer[Popped(n) + k]
      BY <1>3
    <3>2. Popped(n) + k \in 1 .. Len(buffer) /\ Popped(n) + k \notin 1 .. Popped(n)
      BY <1>3, <2>3, <2>5
    <3>3. taken[k] \in Groups /\ gstate[taken[k]] = "recycled"
      BY <2>5, <3>1, <3>2
    <3>4. \A i \in 1 .. Popped(n) : buffer[i] # taken[k]
      <4>1. \A i \in 1 .. Popped(n) : i \in 1 .. Len(buffer) /\ i # Popped(n) + k
        BY <1>3, <2>5, <3>2
      <4> QED BY <2>5, <3>1, <3>2, <4>1
    <3> QED BY <1>3, <1>6, <3>3, <3>4
  <2>8. \A g \in Groups : gstate[g] = "recycled" /\ g \notin got =>
          \E k \in 1 .. Len(taken) : taken[k] = g
    <3> SUFFICES ASSUME NEW g \in Groups, gstate[g] = "recycled", g \notin got
                 PROVE  \E k \in 1 .. Len(taken) : taken[k] = g
      OBVIOUS
    <3>1. PICK m \in 1 .. Len(buffer) : buffer[m] = g
      BY <2>5
    <3>2. m \notin 1 .. Popped(n)
      BY <1>6, <3>1
    <3>3. m - Popped(n) \in 1 .. Len(taken) /\ Popped(n) + (m - Popped(n)) = m
      BY <1>3, <2>5, <3>1, <3>2
    <3> QED BY <1>3, <3>1, <3>3
  <2>9. {taken[k] : k \in 1 .. Len(taken)} = {g \in after : gstate'[g] = "recycled"}
    BY <1>4, <1>5, <2>7, <2>8
  <2> QED BY <2>1, <2>2, <2>3, <2>4, <2>6, <2>9 DEF OneOwner, after
<1>16. Accounting'
  <2>1. added = Cardinality(pendings \cup got) + Cardinality(data)
    BY <1>5, <1>7, <1>8
  <2>2. pc' = "wait" => pendings \cup got # {}
    <3>1. SUFFICES ASSUME pc' = "wait", pendings \cup got = {} PROVE FALSE
      OBVIOUS
    <3>2. Cardinality(pendings \cup got) = 0
      BY <3>1, FS_EmptySet
    <3> QED BY <1>1, <1>5, <1>7, <1>9, <2>1, <3>1, <3>2
  <2> QED BY <1>5, <2>1, <2>2 DEF Accounting, added
<1>17. BacklogBounded'
  <2>1. Len(buffer) \in Nat /\ Len(taken) \in Nat
    BY <1>2, <1>3, LenProperties DEF SourceTypeOK
  <2>2. Len(buffer) + Cardinality(pendings) + 0 <= TargetDataSize - 1 + n
    BY <1>2 DEF IInv, BacklogBounded, AbortedPending, n
  <2>3. Len(taken) + Cardinality(pendings \cup got) + 0 <= TargetDataSize - 1 + n
    <3>1. CASE after # Groups
      <4>1. Len(taken) = 0
        BY <1>3, <3>1, EmptySeq
      <4>2. Cardinality(pendings) <= TargetDataSize - 1
        BY <1>1, <1>7
      <4>3. /\ Cardinality(pendings) \in Nat /\ Cardinality(got) \in Nat
            /\ Cardinality(got) <= n
        BY <1>3, <1>7
      <4> QED BY <1>1, <1>8, <4>1, <4>2, <4>3
    <3>2. CASE after = Groups
      <4>1. Cardinality(got) <= Popped(n)
        BY <1>3, <3>2
      <4> QED BY <1>1, <1>3, <1>7, <1>8, <2>1, <2>2, <4>1, SMTT(30)
    <3> QED BY <3>1, <3>2
  <2>4. AbortedPending' = 0
    BY <1>9 DEF AbortedPending
  <2> QED BY <1>5, <2>3, <2>4 DEF BacklogBounded, taken, n
<1> QED BY <1>10, <1>11, <1>12, <1>13, <1>14, <1>15, <1>16, <1>17 DEF IInv

\* The order in which the finished tasks are visited lists each of them once.
LEMMA OrderProperties ==
  ASSUME NEW S, IsFiniteSet(S), NEW order \in Orders(S)
  PROVE  /\ order \in Seq(S) /\ Len(order) = Cardinality(S)
         /\ Cardinality(S) \in Nat
         /\ \A j, k \in 1 .. Len(order) : order[j] = order[k] => j = k
         /\ {order[k] : k \in 1 .. Len(order)} = S
<1> DEFINE n == Cardinality(S)
<1>1. n \in Nat
  BY FS_CardinalityType
<1>2. order \in [1 .. n -> S] /\ \A x \in S : \E k \in 1 .. n : order[k] = x
  BY DEF Orders
<1>3. IsFiniteSet(1 .. n) /\ Cardinality(1 .. n) = n
  BY <1>1, FS_Interval
<1>4. order \in Surjection(1 .. n, S)
  BY <1>2 DEF Surjection
<1>5. order \in Injection(1 .. n, S)
  BY <1>3, <1>4, FS_SurjSameCardinalityImpliesInj
<1> HIDE DEF n
<1>6. order \in Seq(S) /\ Len(order) = n
  BY <1>1, <1>2
<1>7. \A j, k \in 1 .. n : order[j] = order[k] => j = k
  BY <1>5 DEF Injection, IsInjective
<1> QED BY <1>1, <1>2, <1>6, <1>7 DEF n

\* The finished tasks leave pendings for data or for nothing, and the counter goes
\* down by the ones the filter dropped (sglang_rollout.py:435-466).
LEMMA CollectDoneStep ==
  ASSUME IInv, CollectDone
  PROVE  IInv'
<1> DEFINE D == DonePendings
           left == remaining_batch_size'
<1>0. PICK kept \in SUBSET D : \E chosen \in SUBSET kept :
        /\ Cardinality(chosen) = Lesser(Cardinality(kept), TargetDataSize - Cardinality(data))
        /\ pendings' = pendings \ D
        /\ left = remaining_batch_size - Cardinality(D \ kept)
        /\ data' = data \cup chosen
        /\ pc' = LoopPc(data \cup chosen, left)
        /\ aborted' = (pc' = "drain")
        /\ gstate' = [g \in Groups |-> IF g \in chosen THEN "kept"
                                       ELSE IF g \in kept THEN "surplus"
                                       ELSE IF g \in D \ kept THEN "filtered"
                                       ELSE gstate[g]]
  BY ZenonT(30) DEF CollectDone, Taken
<1>1. PICK chosen \in SUBSET kept :
        /\ Cardinality(chosen) = Lesser(Cardinality(kept), TargetDataSize - Cardinality(data))
        /\ pendings' = pendings \ D
        /\ left = remaining_batch_size - Cardinality(D \ kept)
        /\ data' = data \cup chosen
        /\ pc' = LoopPc(data \cup chosen, left)
        /\ aborted' = (pc' = "drain")
        /\ gstate' = [g \in Groups |-> IF g \in chosen THEN "kept"
                                       ELSE IF g \in kept THEN "surplus"
                                       ELSE IF g \in D \ kept THEN "filtered"
                                       ELSE gstate[g]]
  BY <1>0
<1>2. /\ pc = "wait" /\ D # {}
      /\ UNCHANGED <<sample_offset, epoch_id, sample_group_index, prompt_of, buffer,
                     rollout_id, permits, aborted_samples, tstate, samples>>
      /\ Groups' = Groups
  BY DEF CollectDone, sourceVars, Groups
<1>3. /\ D \subseteq pendings /\ pendings \subseteq Groups
      /\ pendings = {g \in Groups : gstate[g] \in GLive}
      /\ data = {g \in Groups : gstate[g] = "kept"}
      /\ gstate \in [Groups -> GLive \cup GFate]
      /\ \A g \in D : gstate[g] = "done"
      /\ aborted_samples = <<>> /\ rollout_id \in Nat
  BY <1>2 DEF IInv, OneOwner, TypeOK, MainFlow, DonePendings
<1> HIDE DEF D, left
<1>4. /\ TargetDataSize \in Nat
      /\ IsFiniteSet(pendings) /\ IsFiniteSet(data)
      /\ Cardinality(data) \in Nat /\ Cardinality(data) < TargetDataSize
      /\ remaining_batch_size = Cardinality(pendings) + Cardinality(data)
  BY <1>2, GenerationAssumption, FiniteParts DEF IInv, Accounting, MainFlow
<1>5. /\ IsFiniteSet(D) /\ Cardinality(pendings \ D) \in Nat
      /\ Cardinality(pendings) = Cardinality(D) + Cardinality(pendings \ D)
  BY <1>3, <1>4, SubsetDifference
<1>6. /\ IsFiniteSet(kept) /\ Cardinality(kept) \in Nat /\ Cardinality(D \ kept) \in Nat
      /\ Cardinality(D) = Cardinality(kept) + Cardinality(D \ kept)
  BY <1>5, SubsetDifference
<1>7. /\ IsFiniteSet(chosen) /\ Cardinality(chosen) \in Nat /\ Cardinality(kept \ chosen) \in Nat
      /\ Cardinality(kept) = Cardinality(chosen) + Cardinality(kept \ chosen)
  BY <1>6, SubsetDifference
<1>8. Cardinality(data \cup chosen) = Cardinality(data) + Cardinality(chosen)
  <2>1. data \cap chosen = {}
    BY <1>3
  <2> QED BY <1>4, <1>7, <2>1, DisjointUnion
<1>9. left \in Nat
  BY <1>1, <1>4, <1>5, <1>6
<1>10. Cardinality(data \cup chosen) < TargetDataSize =>
         left = Cardinality(pendings \ D) + Cardinality(data \cup chosen)
  <2> SUFFICES ASSUME Cardinality(data \cup chosen) < TargetDataSize
               PROVE  left = Cardinality(pendings \ D) + Cardinality(data \cup chosen)
    OBVIOUS
  <2>1. Cardinality(chosen) = Cardinality(kept)
    BY <1>1, <1>4, <1>6, <1>7, <1>8 DEF Lesser
  <2>2. left = remaining_batch_size - Cardinality(D \ kept)
    BY <1>1
  <2> QED BY <1>4, <1>5, <1>6, <1>8, <2>1, <2>2
<1>11. /\ pc' = "drain" \/ Cardinality(data \cup chosen) < TargetDataSize
       /\ pc' \in {"submit", "wait", "drain"}
       /\ pc' # "drain" => Cardinality(data \cup chosen) < TargetDataSize
       /\ pc' = "submit" => left < TargetDataSize
       /\ pc' = "wait" => left >= TargetDataSize
  <2>1. Cardinality(data \cup chosen) \in Nat
    BY <1>4, <1>7, <1>8
  <2> QED BY <1>1, <1>4, <1>9, <2>1 DEF LoopPc
<1>12. gstate' \in [Groups -> GLive \cup GFate]
  BY <1>1, <1>3 DEF GFate
<1>13. TypeOK'
  <2>1. pendings' \in SUBSET Groups /\ data' \in SUBSET Groups
    BY <1>1, <1>3
  <2>2. pc' \in {"idle", "submit", "wait", "drain"} /\ aborted' \in BOOLEAN
    BY <1>1, <1>11
  <2> QED BY <1>2, <1>9, <1>12, <2>1, <2>2 DEF IInv, TypeOK, SourceTypeOK, Prompt, left
<1>14. EpochCoverage' /\ ReadPosition' /\ PermitsConserved'
  BY <1>2 DEF IInv, EpochCoverage, ReadPosition, PermitsConserved, InFlight
<1>15. TasksInRunning'
  BY <1>1, <1>2, <1>3 DEF IInv, TasksInRunning
<1>16. MainFlow'
  <2>1. /\ pc' # "idle"
        /\ pc' \in {"submit", "wait"} => Cardinality(data') < TargetDataSize
    BY <1>1, <1>11
  <2> QED BY <1>1, <1>2, <1>3, <1>11, <2>1 DEF MainFlow, left
<1>17. OneOwner'
  <2>1. pendings' = {g \in Groups : gstate'[g] \in GLive}
    BY <1>1, <1>3 DEF GLive
  <2>2. data' = {g \in Groups : gstate'[g] = "kept"}
    BY <1>1, <1>3
  <2>3. \A g \in Groups : gstate'[g] = "recycled" <=> gstate[g] = "recycled"
    BY <1>1, <1>3
  <2>4. Queued' = Queued
    <3>1. Queued' = buffer \o <<>> /\ Queued = buffer \o <<>>
      BY <1>2, <1>3 DEF Queued
    <3> QED BY <3>1
  <2> QED BY <1>2, <2>1, <2>2, <2>3, <2>4 DEF IInv, OneOwner
<1>18. Accounting'
  <2>1. pc' # "drain" => left = Cardinality(pendings \ D) + Cardinality(data \cup chosen)
    BY <1>10, <1>11
  <2>2. pc' = "wait" => pendings \ D # {}
    <3> SUFFICES ASSUME pc' = "wait", pendings \ D = {} PROVE FALSE
      OBVIOUS
    <3>1. Cardinality(pendings \ D) = 0
      BY FS_EmptySet
    <3>2. /\ left = Cardinality(pendings \ D) + Cardinality(data \cup chosen)
          /\ Cardinality(data \cup chosen) < TargetDataSize /\ left >= TargetDataSize
      BY <1>11, <2>1
    <3>3. Cardinality(data \cup chosen) \in Nat
      BY <1>4, <1>7, <1>8
    <3> QED BY <1>4, <3>1, <3>2, <3>3
  <2> QED BY <1>1, <2>1, <2>2 DEF Accounting, left
<1>19. BacklogBounded'
  <2> DEFINE most == TargetDataSize - 1 + OverSamplingBatchSize
  <2>1. Len(buffer) + Cardinality(pendings) + 0 <= most /\ most \in Int
    BY <1>2, GenerationAssumption DEF IInv, BacklogBounded, AbortedPending
  <2>2. Len(buffer) \in Nat
    BY LenProperties DEF IInv, TypeOK, SourceTypeOK
  <2>3. AbortedPending' = 0
    <3>1. Len(<<>>) = 0
      OBVIOUS
    <3> QED BY <1>2, <1>3, <3>1 DEF AbortedPending
  <2> HIDE DEF most
  <2>4. Len(buffer) + Cardinality(pendings \ D) + 0 <= most
    <3>1. Cardinality(pendings) \in Nat /\ Cardinality(D) \in Nat
      BY <1>4, <1>5, FS_CardinalityType
    <3> QED BY <1>5, <2>1, <2>2, <3>1
  <2> QED BY <1>1, <1>2, <2>3, <2>4 DEF BacklogBounded, most
<1> QED BY <1>13, <1>14, <1>15, <1>16, <1>17, <1>18, <1>19 DEF IInv

\* While abort() waits: the buffer, then what it has collected.
LEMMA DrainQueued ==
  ASSUME IInv, pc = "drain"
  PROVE  /\ Queued = buffer \o aborted_samples /\ Queued \in Seq(Groups)
         /\ Len(buffer) \in Nat /\ Len(aborted_samples) \in Nat
         /\ Len(Queued) = Len(buffer) + Len(aborted_samples)
         /\ DOMAIN Queued = 1 .. Len(Queued)
<1>1. buffer \in Seq(Groups) /\ aborted_samples \in Seq(Groups)
  BY DEF IInv, TypeOK, SourceTypeOK
<1>2. Queued = buffer \o aborted_samples
  BY DEF Queued
<1> QED BY <1>1, <1>2, ConcatProperties, LenProperties

\* abort() moves the finished groups from pendings to its list, each of them once
\* (sglang_rollout.py:373-393).
LEMMA DrainPendingsStep ==
  ASSUME IInv, DrainPendings
  PROVE  IInv'
<1> DEFINE D == DonePendings
<1>1. /\ pc = "drain" /\ pendings' = pendings \ D
      /\ UNCHANGED <<sample_offset, epoch_id, sample_group_index, prompt_of, buffer, rollout_id,
                     pc, remaining_batch_size, aborted, permits, data, tstate>>
      /\ Groups' = Groups
  BY DEF DrainPendings, sourceVars, Groups
<1>2. /\ D \subseteq pendings /\ pendings \subseteq Groups
      /\ pendings = {g \in Groups : gstate[g] \in GLive}
      /\ data = {g \in Groups : gstate[g] = "kept"}
      /\ gstate \in [Groups -> GLive \cup GFate]
      /\ samples \in [Groups -> [SampleIds -> Sample]]
      /\ aborted_samples \in Seq(Groups)
      /\ \A g \in D : gstate[g] = "done"
      /\ rollout_id \in Nat
      /\ IsFiniteSet(pendings) /\ IsFiniteSet(D)
  BY <1>1, FiniteParts DEF IInv, OneOwner, TypeOK, MainFlow, DonePendings
<1>3. \E fate \in {"recycled", "discarded"} :
        gstate' = [g \in Groups |-> IF g \in D THEN fate ELSE gstate[g]]
  BY DEF DrainPendings
<1> HIDE DEF D
<1>4. /\ gstate' \in [Groups -> GLive \cup GFate]
      /\ \A g \in Groups : g \notin D => gstate'[g] = gstate[g]
      /\ \A g \in D : gstate'[g] \in {"recycled", "discarded"}
  BY <1>2, <1>3 DEF GFate
<1>5. pendings' = {g \in Groups : gstate'[g] \in GLive}
  BY <1>1, <1>2, <1>4 DEF GLive
<1>6. data' = {g \in Groups : gstate'[g] = "kept"}
  BY <1>1, <1>2, <1>4
<1>7. EpochCoverage' /\ ReadPosition' /\ PermitsConserved'
  BY <1>1 DEF IInv, EpochCoverage, ReadPosition, PermitsConserved, InFlight
<1>8. MainFlow' /\ Accounting'
  BY <1>1 DEF IInv, MainFlow, Accounting
<1>9. TasksInRunning'
  BY <1>1, <1>2, <1>4 DEF IInv, TasksInRunning
<1>10. /\ Queued = buffer \o aborted_samples /\ Queued \in Seq(Groups)
       /\ buffer \in Seq(Groups)
       /\ Len(buffer) \in Nat /\ Len(aborted_samples) \in Nat
       /\ \A j, k \in 1 .. Len(Queued) : Queued[j] = Queued[k] => j = k
       /\ {Queued[k] : k \in 1 .. Len(Queued)} = {g \in Groups : gstate[g] = "recycled"}
       /\ Queued' = buffer \o aborted_samples'
  BY <1>1, DrainQueued DEF IInv, OneOwner, TypeOK, SourceTypeOK, Queued
<1>11. /\ Cardinality(D) \in Nat /\ Cardinality(pendings \ D) \in Nat
       /\ Cardinality(pendings) = Cardinality(D) + Cardinality(pendings \ D)
  BY <1>2, SubsetDifference
<1>12. Len(buffer) + Cardinality(pendings) + Len(aborted_samples)
         <= TargetDataSize - 1 + OverSamplingBatchSize
  BY <1>1 DEF IInv, BacklogBounded, AbortedPending
<1>13. TargetDataSize \in Nat /\ OverSamplingBatchSize \in Nat
  BY GenerationAssumption
<1>14. SUFFICES /\ aborted_samples' \in Seq(Groups)
                /\ samples' \in [Groups -> [SampleIds -> Sample]]
                /\ \A j, k \in DOMAIN Queued' : Queued'[j] = Queued'[k] => j = k
                /\ {Queued'[k] : k \in DOMAIN Queued'} = {g \in Groups : gstate'[g] = "recycled"}
                /\ BacklogBounded'
  <2>1. TypeOK'
    BY <1>1, <1>2, <1>4, <1>14 DEF IInv, TypeOK, SourceTypeOK, Prompt
  <2>2. OneOwner'
    BY <1>1, <1>5, <1>6, <1>14 DEF OneOwner
  <2> QED BY <1>7, <1>8, <1>9, <1>14, <2>1, <2>2 DEF IInv
<1>15. CASE PartialRollout
  <2>1. PICK order \in Orders(D) : aborted_samples' = aborted_samples \o order
    BY <1>15 DEF DrainPendings, D
  <2>2. /\ gstate' = [g \in Groups |-> IF g \in D THEN "recycled" ELSE gstate[g]]
        /\ samples' = [g \in Groups |-> IF g \in D
                                        THEN [i \in SampleIds |-> TagStart(samples[g][i])]
                                        ELSE samples[g]]
    BY <1>15 DEF DrainPendings, D
  <2>3. /\ order \in Seq(D) /\ Len(order) = Cardinality(D)
        /\ \A j, k \in 1 .. Len(order) : order[j] = order[k] => j = k
        /\ {order[k] : k \in 1 .. Len(order)} = D
    BY <1>2, OrderProperties
  <2>4. order \in Seq(Groups)
    BY <1>2, <2>3, SeqMonotonic
  <2>5. /\ aborted_samples' \in Seq(Groups)
        /\ Len(aborted_samples') = Len(aborted_samples) + Cardinality(D)
    <3>1. /\ aborted_samples \o order \in Seq(Groups)
          /\ Len(aborted_samples \o order) = Len(aborted_samples) + Len(order)
      BY <1>2, <2>4, ConcatProperties
    <3> QED BY <2>1, <2>3, <3>1
  <2>6. samples' \in [Groups -> [SampleIds -> Sample]]
    <3>1. ASSUME NEW g \in Groups, NEW i \in SampleIds
          PROVE  TagStart(samples[g][i]) \in Sample
      BY <1>2, SampleSteps
    <3> QED BY <1>2, <2>2, <3>1
  <2>7. Queued' = Queued \o order
    <3>1. (buffer \o aborted_samples) \o order = buffer \o (aborted_samples \o order)
      <4>1. buffer \in Seq(Groups) /\ aborted_samples \in Seq(Groups)
        BY <1>2, <1>10
      <4> QED BY <2>4, <4>1, ConcatAssociative
    <3> QED BY <1>10, <2>1, <3>1
  <2> DEFINE queue == Queued \o order
  <2>8. /\ Members(Queued) = {g \in Groups : gstate[g] = "recycled"} /\ Members(order) = D
        /\ NoRepeat(Queued) /\ NoRepeat(order)
        /\ Members(Queued) \cap Members(order) = {}
    BY <1>2, <1>10, <2>3 DEF Members, NoRepeat
  <2>9. /\ queue \in Seq(Groups)
        /\ NoRepeat(queue) /\ Members(queue) = Members(Queued) \cup Members(order)
    <3>1. Queued \in Seq(Groups)
      BY <1>10
    <3> QED BY <2>4, <2>8, <3>1, QueuesJoined
  <2> HIDE DEF queue
  <2>10. DOMAIN queue = 1 .. Len(queue)
    BY <2>9, LenProperties
  <2>11. {g \in Groups : gstate[g] = "recycled"} \cup D = {g \in Groups : gstate'[g] = "recycled"}
    BY <1>2, <2>2
  <2>12. BacklogBounded'
    <3> DEFINE collected == Len(aborted_samples')
    <3>1. collected = Len(aborted_samples) + Cardinality(D)
      BY <2>5
    <3> HIDE DEF collected
    <3>2. Len(buffer) + Cardinality(pendings \ D) + collected
            <= TargetDataSize - 1 + OverSamplingBatchSize
      BY <1>10, <1>11, <1>12, <1>13, <3>1
    <3> QED BY <1>1, <3>2 DEF BacklogBounded, AbortedPending, collected
  <2>13. Queued' = queue
    BY <2>7 DEF queue
  <2>14. {queue[k] : k \in DOMAIN queue} = {g \in Groups : gstate'[g] = "recycled"}
    BY <2>8, <2>9, <2>10, <2>11 DEF Members
  <2> QED BY <2>5, <2>6, <2>9, <2>10, <2>12, <2>13, <2>14 DEF NoRepeat
<1>16. CASE ~PartialRollout
  <2>1. /\ gstate' = [g \in Groups |-> IF g \in D THEN "discarded" ELSE gstate[g]]
        /\ UNCHANGED <<aborted_samples, samples>>
    BY <1>16 DEF DrainPendings, D
  <2>2. Queued' = Queued
    BY <1>10, <2>1
  <2>3. {g \in Groups : gstate'[g] = "recycled"} = {g \in Groups : gstate[g] = "recycled"}
    BY <1>2, <2>1
  <2>4. BacklogBounded'
    <3>1. Len(buffer) + Cardinality(pendings \ D) + Len(aborted_samples)
            <= TargetDataSize - 1 + OverSamplingBatchSize
      BY <1>10, <1>11, <1>12, <1>13
    <3> QED BY <1>1, <2>1, <3>1 DEF BacklogBounded, AbortedPending
  <2> QED BY <1>2, <2>1, <2>2, <2>3, <2>4 DEF IInv, OneOwner
<1> QED BY <1>15, <1>16

\* The list of abort() becomes the tail of the buffer and the singleton is reset
\* (sglang_rollout.py:476-487, 630).
LEMMA FinishRolloutStep ==
  ASSUME IInv, FinishRollout
  PROVE  IInv'
<1>1. /\ pc = "drain" /\ pendings = {} /\ pc' = "idle" /\ remaining_batch_size' = 0
      /\ aborted' = FALSE /\ buffer' = buffer \o aborted_samples
      /\ gstate' = [g \in Groups |-> IF g \in data THEN "delivered" ELSE gstate[g]]
      /\ UNCHANGED <<sample_offset, epoch_id, sample_group_index, prompt_of, rollout_id,
                     pendings, permits, data, aborted_samples, tstate, samples>>
      /\ Groups' = Groups
  BY DEF FinishRollout, AddSamples, Groups
<1>2. /\ pendings = {g \in Groups : gstate[g] \in GLive}
      /\ data = {g \in Groups : gstate[g] = "kept"}
      /\ gstate \in [Groups -> GLive \cup GFate]
  BY <1>1 DEF IInv, OneOwner, TypeOK
<1>3. buffer' = Queued /\ Queued \in Seq(Groups)
  BY <1>1, DrainQueued
<1>4. Queued' = Queued
  <2>1. Queued' = Queued \o <<>>
    BY <1>1, <1>3 DEF Queued
  <2> QED BY <1>3, <2>1, ConcatEmptySeq
<1>5. TypeOK'
  <2>1. gstate' \in [Groups -> GLive \cup GFate]
    BY <1>1, <1>2 DEF GFate
  <2> QED BY <1>1, <1>3, <2>1 DEF IInv, TypeOK, SourceTypeOK, Prompt
<1>6. EpochCoverage' /\ ReadPosition' /\ PermitsConserved'
  BY <1>1 DEF IInv, EpochCoverage, ReadPosition, PermitsConserved, InFlight
<1>7. MainFlow'
  <2>1. \A g \in Groups : gstate'[g] # "kept"
    BY <1>1, <1>2
  <2> QED BY <1>1, <2>1 DEF MainFlow
<1>8. TasksInRunning'
  BY <1>1, <1>2 DEF IInv, TasksInRunning
<1>9. OneOwner'
  <2>1. pendings' = {g \in Groups : gstate'[g] \in GLive}
    BY <1>1, <1>2 DEF GLive
  <2>2. {g \in Groups : gstate'[g] = "recycled"} = {g \in Groups : gstate[g] = "recycled"}
    BY <1>1, <1>2
  <2>3. /\ \A j, k \in DOMAIN Queued : Queued[j] = Queued[k] => j = k
        /\ {Queued[k] : k \in DOMAIN Queued} = {g \in Groups : gstate[g] = "recycled"}
    BY DEF IInv, OneOwner
  <2> DEFINE queue == Queued'
  <2>4. queue = Queued
    BY <1>4
  <2> HIDE DEF queue
  <2>5. /\ \A j, k \in DOMAIN queue : queue[j] = queue[k] => j = k
        /\ {queue[k] : k \in DOMAIN queue} = {g \in Groups : gstate'[g] = "recycled"}
    BY <2>2, <2>3, <2>4
  <2> QED BY <1>1, <2>1, <2>5 DEF OneOwner, queue
<1>10. Accounting'
  BY <1>1 DEF Accounting
<1>11. BacklogBounded'
  <2> DEFINE most == TargetDataSize - 1 + OverSamplingBatchSize
             size == Len(buffer')
  <2>1. Len(buffer) + Cardinality(pendings) + Len(aborted_samples) <= most
    BY <1>1 DEF IInv, BacklogBounded, AbortedPending
  <2>2. /\ Len(buffer) \in Nat /\ Len(aborted_samples) \in Nat
        /\ size = Len(buffer) + Len(aborted_samples)
    BY <1>1, <1>3, DrainQueued
  <2>3. Cardinality(pendings) = 0
    BY <1>1, FS_EmptySet
  <2> HIDE DEF size, most
  <2>4. size + Cardinality(pendings) + 0 <= most
    BY <2>1, <2>2, <2>3
  <2> QED BY <1>1, <2>4 DEF BacklogBounded, AbortedPending, size, most
<1> QED BY <1>5, <1>6, <1>7, <1>8, <1>9, <1>10, <1>11 DEF IInv

-----------------------------------------------------------------------------
(* The theorems *)

\* A new GenerateState and a new data source satisfy the invariant
\* (sglang_rollout.py:94-134, data_source.py:51-88).
LEMMA InitIInv ==
  ASSUME Init
  PROVE  IInv
<1>1. /\ sample_group_index = 0 /\ Groups = {} /\ sample_offset = 0 /\ epoch_id = 0
      /\ buffer = <<>> /\ pc = "idle" /\ pendings = {} /\ data = {} /\ aborted = FALSE
      /\ aborted_samples = <<>> /\ remaining_batch_size = 0 /\ permits = Concurrency
      /\ rollout_id = NoRollout
  BY DEF Init, SourceInit, Groups
<1>2. /\ TargetDataSize \in Nat \ {0} /\ OverSamplingBatchSize \in Nat
      /\ Concurrency \in Nat \ {0} /\ DatasetSize \in Nat \ {0}
  BY GenerationAssumption, DatasetAssumption
<1>3. TypeOK
  <2>1. /\ prompt_of \in [Groups -> Prompt]
        /\ gstate \in [Groups -> GLive \cup GFate]
        /\ tstate \in [Groups -> [SampleIds -> TState]]
        /\ samples \in [Groups -> [SampleIds -> Sample]]
    BY <1>1 DEF Init, SourceInit
  <2>2. buffer \in Seq(Groups) /\ aborted_samples \in Seq(Groups)
    BY <1>1, EmptySeq
  <2>3. SourceTypeOK
    BY <1>1, <2>1, <2>2 DEF SourceTypeOK
  <2>4. permits \in 0 .. Concurrency /\ remaining_batch_size \in Nat
    BY <1>1, <1>2
  <2>5. /\ rollout_id \in Nat \cup {NoRollout} /\ aborted \in BOOLEAN
        /\ pc \in {"idle", "submit", "wait", "drain"}
        /\ pendings \in SUBSET Groups /\ data \in SUBSET Groups
    BY <1>1
  <2> QED BY <2>1, <2>2, <2>3, <2>4, <2>5 DEF TypeOK
<1>4. EpochCoverage /\ ReadPosition
  BY <1>1, <1>2 DEF EpochCoverage, ReadPosition, Lesser
<1>5. MainFlow /\ TasksInRunning
  BY <1>1 DEF MainFlow, TasksInRunning
<1>6. Queued = <<>> /\ Len(<<>>) = 0 /\ DOMAIN Queued = {}
  <2>1. Queued = <<>> \o <<>>
    BY <1>1 DEF Queued
  <2> QED BY <2>1
<1>7. OneOwner
  BY <1>1, <1>6 DEF OneOwner
<1>8. Accounting
  BY <1>1 DEF Accounting
<1>9. Cardinality({}) = 0
  BY FS_EmptySet
<1>10. BacklogBounded
  BY <1>1, <1>2, <1>6, <1>9 DEF BacklogBounded, AbortedPending
<1>11. InFlight = {}
  BY <1>1 DEF InFlight
<1>12. PermitsConserved
  BY <1>1, <1>2, <1>9, <1>11 DEF PermitsConserved
<1> QED BY <1>3, <1>4, <1>5, <1>7, <1>8, <1>10, <1>12 DEF IInv

\* Nothing is lost by a step that changes no variable.
LEMMA StutterStep ==
  ASSUME IInv, UNCHANGED vars
  PROVE  IInv'
<1>1. UNCHANGED <<sourceVars, stateVars>> /\ UNCHANGED taskVars /\ Groups' = Groups
  BY DEF vars, sourceVars, Groups
<1>2. UNCHANGED <<sample_offset, epoch_id, sample_group_index, prompt_of, buffer, rollout_id, pc,
                  remaining_batch_size, pendings, aborted, permits, data, aborted_samples,
                  gstate, tstate, samples>>
  BY <1>1 DEF sourceVars, stateVars, taskVars
<1>3. TasksInRunning' /\ PermitsConserved'
  BY <1>1, <1>2 DEF IInv, TasksInRunning, PermitsConserved, InFlight
<1> QED BY <1>1, <1>2, <1>3, SampleTaskFrame DEF IInv, TypeOK

\* Every step of the rollout, of its tasks and of the engines keeps the invariant.
LEMMA NextIInv ==
  ASSUME IInv, [Next]_vars
  PROVE  IInv'
<1>1. CASE StartRollout           BY <1>1, StartRolloutStep
<1>2. CASE SubmitTasks            BY <1>2, SubmitTasksStep
<1>3. CASE CollectDone            BY <1>3, CollectDoneStep
<1>4. CASE DrainPendings          BY <1>4, DrainPendingsStep
<1>5. CASE FinishRollout          BY <1>5, FinishRolloutStep
<1>6. CASE \E g \in Groups : StartGroup(g)
  BY <1>6, StartGroupStep
<1>7. CASE \E g \in Groups, i \in SampleIds : StartSample(g, i)
  BY <1>7, StartSampleStep
<1>8. CASE \E g \in Groups, i \in SampleIds : AcquirePermit(g, i)
  BY <1>8, AcquirePermitStep
<1>9. CASE \E g \in Groups, i \in SampleIds : ReceiveReply(g, i)
  BY <1>9, ReceiveReplyStep
<1>10. CASE \E g \in Groups, i \in SampleIds : ReceiveReward(g, i)
  BY <1>10, ReceiveRewardStep
<1>11. CASE \E g \in Groups : GatherGroup(g)
  BY <1>11, GatherGroupStep
<1>12. CASE \E g \in Groups : ReceiveGroupReward(g)
  BY <1>12, ReceiveGroupRewardStep
<1>13. CASE Terminating \/ UNCHANGED vars
  BY <1>13, StutterStep DEF Terminating
<1> QED BY <1>1, <1>2, <1>3, <1>4, <1>5, <1>6, <1>7, <1>8, <1>9, <1>10, <1>11, <1>12, <1>13
        DEF Next

\* The invariant of the whole of RolloutGeneration, for every batch size, group
\* size, number of permits, response length and number of rollouts.
THEOREM Inductive == Spec => []IInv
BY InitIInv, NextIInv, PTL DEF Spec

\* Every variable keeps its type, the permits of the semaphore included.
THEOREM TypeCorrect == Spec => []TypeOK
<1>1. IInv => TypeOK
  BY DEF IInv
<1> QED BY <1>1, Inductive, PTL

\* get_samples hands out every prompt of every epoch once and in order, with
\* groups recycled, resumed and dropped in between (data_source.py:90-118).
THEOREM EpochCoverageCorrect == Spec => []EpochCoverage
<1>1. IInv => EpochCoverage
  BY DEF IInv
<1> QED BY <1>1, Inductive, PTL

\* The counter that decides when to sample more agrees with the tasks, so the
\* main loop never waits for an empty set of tasks (sglang_rollout.py:429-452).
THEOREM AccountingCorrect == Spec => []Accounting
<1>1. IInv => Accounting
  BY DEF IInv
<1> QED BY <1>1, Inductive, PTL

\* Partial rollout never accumulates more unfinished groups than a target and
\* one sampling batch (sglang_rollout.py:430-433, data_source.py:177-189).
THEOREM BacklogCorrect == Spec => []BacklogBounded
<1>1. IInv => BacklogBounded
  BY DEF IInv
<1> QED BY <1>1, Inductive, PTL

\* A group is never owned twice: no task for a queued group, no group queued
\* twice, none trained on and queued (sglang_rollout.py:136-149, 373-393, 630).
THEOREM OneOwnerCorrect == Spec => []OneOwner
<1>1. IInv => OneOwner
  BY DEF IInv
<1> QED BY <1>1, Inductive, PTL

\* No permit is lost or made up, aborts included (sglang_rollout.py:260-277).
THEOREM PermitsCorrect == Spec => []PermitsConserved
<1>1. IInv => PermitsConserved
  BY DEF IInv
<1> QED BY <1>1, Inductive, PTL

\* generate_rollout returns with no task alive and every permit free
\* (sglang_rollout.py:373-376, 476-477).
THEOREM QuietCorrect == Spec => []QuietBetweenRollouts
<1>1. ASSUME IInv PROVE QuietBetweenRollouts
  <2> SUFFICES ASSUME pc = "idle"
               PROVE  /\ pendings = {} /\ remaining_batch_size = 0 /\ ~aborted
                      /\ \A g \in Groups : gstate[g] \notin GLive
                      /\ \A g \in Groups, i \in SampleIds : tstate[g][i] \in {"idle", "returned"}
                      /\ permits = Concurrency
    BY DEF QuietBetweenRollouts
  <2>1. pendings = {} /\ remaining_batch_size = 0 /\ ~aborted
    BY <1>1 DEF IInv, MainFlow
  <2>2. \A g \in Groups : gstate[g] \notin GLive
    BY <1>1, <2>1 DEF IInv, OneOwner
  <2>3. \A g \in Groups, i \in SampleIds : tstate[g][i] \in {"idle", "returned"}
    BY <1>1, <2>2 DEF IInv, TasksInRunning, GLive
  <2>4. InFlight = {}
    BY <2>3 DEF InFlight
  <2>5. permits = Concurrency
    <3>1. permits \in Int /\ permits + Cardinality(InFlight) = Concurrency
      BY <1>1, GenerationAssumption DEF IInv, TypeOK, PermitsConserved
    <3>2. Cardinality(InFlight) = 0
      BY <2>4, FS_EmptySet
    <3> QED BY <3>1, <3>2
  <2> QED BY <2>1, <2>2, <2>3, <2>5
<1> QED BY <1>1, Inductive, PTL

-----------------------------------------------------------------------------
(***************************************************************************)
(* The samples.  SamplesInv says of every sample what the rollouts before  *)
(* and this one left in it; it rests on IInv, which says which groups have *)
(* a task.                                                                 *)
(***************************************************************************)

\* The tokens of a sample come from rollouts before r, or up to r.
TokensBefore(s, r) == \A k \in DOMAIN s.response : s.response[k] < r
TokensUpTo(s, r)   == \A k \in DOMAIN s.response : s.response[k] <= r

\* What partial rollout records of a sample.
Recorded(s) ==
  /\ s.masked => Len(s.loss_mask) = Len(s.response)
  /\ s.start_rollout_id # NoRollout => s.response # <<>> /\ s.start_rollout_id = s.response[1]

\* A sample that was recycled with a response has its start; another one is of this rollout.
Tagged(s)        == s.response # <<>> => s.start_rollout_id # NoRollout
TaggedIfOld(s, r) == s.start_rollout_id = NoRollout => \A k \in DOMAIN s.response : s.response[k] = r

\* The mask selects the tokens of rollout r.
MaskSelects(s, r) ==
  PartialRollout /\ MaskOffpolicy =>
    \A k \in 1 .. Len(s.response) : (~s.masked \/ s.loss_mask[k] = 1) <=> s.response[k] = r

\* What a sample task has done by the time it returns.
TaskSound(g, i) ==
  LET s == samples[g][i]
      t == tstate[g][i]
  IN  /\ t = "reward" => Finished(s)
      /\ t # "reward" /\ Finished(s) /\ ~GroupRm => s.rewarded
      /\ gstate[g] = "created" \/ t = "start" => TokensBefore(s, rollout_id)
      /\ gstate[g] \in GLive => TaggedIfOld(s, rollout_id)
      /\ ~aborted /\ gstate[g] \in GLive \ {"created"} /\ t # "start" => MaskSelects(s, rollout_id)
      /\ ~aborted /\ gstate[g] = "running" /\ t = "returned" => Finished(s)
      /\ ~aborted /\ gstate[g] \in {"group_rm", "done"} => Finished(s)
      /\ ~aborted /\ gstate[g] = "done" => s.rewarded

\* What a group holds that has no task.
FateSound(g, i) ==
  LET s == samples[g][i]
  IN  /\ gstate[g] = "recycled" => Tagged(s)
      /\ g \in data =>
           /\ gstate[g] \in {"kept", "delivered"}
           /\ Finished(s) /\ s.rewarded /\ MaskSelects(s, rollout_id)
      /\ PartialRollout /\ gstate[g] \in GFate \ {"recycled"} => Finished(s)

BufferPast ==
  pc # "idle" => \A k \in DOMAIN buffer, i \in SampleIds : TokensBefore(samples[buffer[k]][i], rollout_id)

SampleInv(g, i) ==
  /\ Recorded(samples[g][i]) /\ TokensUpTo(samples[g][i], rollout_id)
  /\ TaskSound(g, i)
  /\ FateSound(g, i)

SamplesInv == BufferPast /\ \A g \in Groups, i \in SampleIds : SampleInv(g, i)

\* Before a sample is resumed, its old tokens are masked out.
LEMMA MaskedPast ==
  ASSUME NEW s \in Sample, NEW r \in Nat, Recorded(s), TokensBefore(s, r)
  PROVE  LET m == MaskPrevious(s)
         IN  /\ m.response = s.response /\ m.status = s.status /\ m.rewarded = s.rewarded
             /\ m.start_rollout_id = s.start_rollout_id
             /\ Recorded(m) /\ MaskSelects(m, r)
<1> DEFINE m == MaskPrevious(s)
           n == Len(s.response)
<1>1. n \in Nat /\ DOMAIN s.response = 1 .. n /\ (s.response # <<>> <=> n # 0) /\ s.response \in Seq(Nat)
  BY LenProperties, EmptySeq DEF Sample
<1>2. m.response = s.response /\ m.status = s.status /\ m.rewarded = s.rewarded
      /\ m.start_rollout_id = s.start_rollout_id
  BY DEF MaskPrevious, Sample
<1>3. \/ ~(PartialRollout /\ MaskOffpolicy /\ s.response # <<>>) /\ m = s
      \/ PartialRollout /\ MaskOffpolicy /\ m.masked /\ m.loss_mask = Repeat(0, n)
  BY DEF MaskPrevious, Sample
<1>4. Repeat(0, n) \in Seq({0}) /\ Len(Repeat(0, n)) = n /\ \A k \in 1 .. n : Repeat(0, n)[k] = 0
  BY <1>1 DEF Repeat
<1> HIDE DEF m
<1>5. Recorded(m)
  BY <1>1, <1>2, <1>3, <1>4 DEF Recorded
<1>6. MaskSelects(m, r)
  <2> SUFFICES ASSUME PartialRollout, MaskOffpolicy, NEW k \in 1 .. n
               PROVE  (~m.masked \/ m.loss_mask[k] = 1) <=> m.response[k] = r
    BY <1>2 DEF MaskSelects
  <2>1. s.response # <<>> /\ s.response[k] < r /\ s.response[k] \in Nat
    BY <1>1 DEF TokensBefore
  <2>2. m.masked /\ m.loss_mask[k] = 0
    BY <1>3, <1>4, <2>1
  <2>3. m.response[k] # r
    BY <1>2, <2>1
  <2> QED BY <2>2, <2>3
<1> QED BY <1>2, <1>5, <1>6 DEF m

\* e is x with c times v after it.
Grows(x, v, c, e) ==
  /\ Len(e) = Len(x) + c
  /\ \A k \in 1 .. Len(x) : e[k] = x[k]
  /\ \A k \in 1 .. Len(x) + c : k > Len(x) => e[k] = v

\* So does a response that gets new tokens, or a mask.
LEMMA Grown ==
  ASSUME NEW S, NEW x \in Seq(S), NEW v \in S, NEW c \in Nat
  PROVE  Grows(x, v, c, x \o Repeat(v, c))
<1> DEFINE y == Repeat(v, c)
           n == Len(x)
           e == x \o y
<1>1. y \in Seq(S) /\ Len(y) = c /\ n \in Nat /\ \A k \in 1 .. c : y[k] = v
  BY DEF Repeat
<1>2. Len(e) = n + c /\ \A k \in 1 .. n + c : e[k] = IF k <= n THEN x[k] ELSE y[k - n]
  BY <1>1, ConcatProperties
<1> HIDE DEF n, y, e
<1>3. \A k \in 1 .. n : e[k] = x[k]
  BY <1>1, <1>2
<1>4. \A k \in 1 .. n + c : k > n => k - n \in 1 .. c
  BY <1>1
<1>5. \A k \in 1 .. n + c : k > n => e[k] = v
  BY <1>1, <1>2, <1>4
<1>6. Grows(x, v, c, e)
  BY <1>2, <1>3, <1>5 DEF n, Grows
<1> QED BY <1>6 DEF e, y

\* The answer of an engine adds tokens of this rollout, which the mask selects.
LEMMA ExtendedRecord ==
  ASSUME NEW s \in Sample, NEW reply \in Replies, rollout_id \in Nat, Recorded(s),
         TokensUpTo(s, rollout_id), TaggedIfOld(s, rollout_id)
  PROVE  LET e == Extend(s, reply)
         IN  /\ e.status = reply.status /\ e.rewarded = s.rewarded
             /\ Recorded(e) /\ TokensUpTo(e, rollout_id) /\ TaggedIfOld(e, rollout_id)
             /\ MaskSelects(s, rollout_id) => MaskSelects(e, rollout_id)
<1> DEFINE e == Extend(s, reply)
           n == Len(s.response)
           c == reply.tokens
           r == rollout_id
<1>1. c \in Nat /\ n \in Nat /\ s.response \in Seq(Nat) /\ s.loss_mask \in Seq({0, 1}) /\ Len(s.loss_mask) \in Nat
      /\ DOMAIN s.response = 1 .. n
  BY GenerationAssumption, LenProperties DEF Replies, Sample
<1>2. /\ e.status = reply.status /\ e.rewarded = s.rewarded /\ e.masked = s.masked
      /\ e.start_rollout_id = s.start_rollout_id
      /\ e.response = s.response \o Repeat(r, c)
      /\ e.loss_mask = IF s.masked THEN s.loss_mask \o Repeat(1, c) ELSE s.loss_mask
  BY DEF Extend, Sample
<1> HIDE DEF e, c
<1>3. r \in Nat /\ 1 \in {0, 1}
  OBVIOUS
<1>4. /\ e.response \in Seq(Nat) /\ Len(e.response) = n + c /\ DOMAIN e.response = 1 .. n + c
      /\ \A k \in 1 .. n : e.response[k] = s.response[k]
      /\ \A k \in 1 .. n + c : k > n => e.response[k] = r
  <2>1. s.response \in Seq(Nat) /\ r \in Nat /\ c \in Nat /\ e.response = s.response \o Repeat(r, c)
    BY <1>1, <1>2, <1>3
  <2>2. Grows(s.response, r, c, e.response)
    BY <2>1, Grown
  <2>3. Len(e.response) = n + c
    BY <2>2 DEF Grows
  <2>4. /\ \A k \in 1 .. n : e.response[k] = s.response[k]
        /\ \A k \in 1 .. n + c : k > n => e.response[k] = r
    BY <2>2, Zenon DEF Grows
  <2>5. e.response \in Seq(Nat) /\ DOMAIN e.response = 1 .. n + c
    <3>1. e \in Sample
      BY ExtendSample DEF e
    <3>2. e.response \in Seq(Nat)
      BY <3>1 DEF Sample
    <3> QED BY <2>3, <3>2, LenProperties
  <2> QED BY <2>3, <2>4, <2>5
<1>5. s.masked => /\ Len(e.loss_mask) = Len(s.loss_mask) + c
                  /\ \A k \in 1 .. Len(s.loss_mask) : e.loss_mask[k] = s.loss_mask[k]
                  /\ \A k \in 1 .. Len(s.loss_mask) + c : k > Len(s.loss_mask) => e.loss_mask[k] = 1
  <2> SUFFICES ASSUME s.masked
               PROVE  /\ Len(e.loss_mask) = Len(s.loss_mask) + c
                      /\ \A k \in 1 .. Len(s.loss_mask) : e.loss_mask[k] = s.loss_mask[k]
                      /\ \A k \in 1 .. Len(s.loss_mask) + c : k > Len(s.loss_mask) => e.loss_mask[k] = 1
    OBVIOUS
  <2>1. s.loss_mask \in Seq({0, 1}) /\ 1 \in {0, 1} /\ c \in Nat /\ e.loss_mask = s.loss_mask \o Repeat(1, c)
    BY <1>1, <1>2, <1>3
  <2>2. Grows(s.loss_mask, 1, c, e.loss_mask)
    BY <2>1, Grown
  <2> QED BY <2>2, Zenon DEF Grows
<1>6. Recorded(e)
  <2>1. e.masked => Len(e.loss_mask) = Len(e.response)
    BY <1>1, <1>2, <1>4, <1>5 DEF Recorded
  <2>2. s.response # <<>> => e.response # <<>> /\ e.response[1] = s.response[1]
    <3>1. s.response # <<>> => n >= 1
      BY <1>1
    <3> QED BY <1>1, <1>4, <3>1
  <2> QED BY <1>2, <2>1, <2>2 DEF Recorded
<1>7. TokensUpTo(e, r)
  <2> SUFFICES ASSUME NEW k \in DOMAIN e.response PROVE e.response[k] <= r
    BY DEF TokensUpTo
  <2>1. k \in 1 .. n + c
    BY <1>4
  <2>2. CASE k <= n
    <3>1. k \in 1 .. n
      BY <1>1, <2>1, <2>2
    <3>2. s.response[k] <= r
      BY <1>1, <3>1 DEF TokensUpTo
    <3> QED BY <1>4, <3>1, <3>2
  <2>3. CASE k > n
    BY <1>3, <1>4, <2>1, <2>3
  <2> QED BY <1>1, <2>1, <2>2, <2>3
<1>8. TaggedIfOld(e, r)
  BY <1>1, <1>2, <1>4 DEF TaggedIfOld
<1>9. MaskSelects(s, r) => MaskSelects(e, r)
  <2> SUFFICES ASSUME MaskSelects(s, r), PartialRollout, MaskOffpolicy, NEW k \in 1 .. n + c
               PROVE  (~e.masked \/ e.loss_mask[k] = 1) <=> e.response[k] = r
    BY <1>4 DEF MaskSelects
  <2>1. CASE k <= n
    <3>1. k \in 1 .. n /\ (s.masked => k \in 1 .. Len(s.loss_mask))
      BY <1>1, <2>1 DEF Recorded
    <3> QED BY <1>2, <1>4, <1>5, <3>1 DEF MaskSelects
  <2>2. CASE k > n
    <3>1. s.masked => k \in 1 .. Len(s.loss_mask) + c /\ k > Len(s.loss_mask)
      BY <1>1, <2>2 DEF Recorded
    <3> QED BY <1>2, <1>4, <1>5, <2>2, <3>1
  <2> QED BY <1>1, <2>1, <2>2
<1> QED BY <1>2, <1>6, <1>7, <1>8, <1>9 DEF e

\* abort() tags a sample with its first rollout, which is this one if it had none.
LEMMA TaggedRecord ==
  ASSUME NEW s \in Sample, rollout_id \in Nat, Recorded(s), TaggedIfOld(s, rollout_id)
  PROVE  LET m == TagStart(s)
         IN  /\ m.response = s.response /\ m.status = s.status /\ m.rewarded = s.rewarded
             /\ Recorded(m) /\ Tagged(m)
<1> DEFINE m == TagStart(s)
<1>1. m.response = s.response /\ m.status = s.status /\ m.rewarded = s.rewarded
      /\ m.masked = s.masked /\ m.loss_mask = s.loss_mask
  BY DEF TagStart, Sample
<1>2. s.response # <<>> => 1 \in DOMAIN s.response
  BY DEF Sample
<1>3. rollout_id # NoRollout
  BY DEF NoRollout
<1>4. IF s.response # <<>> /\ s.start_rollout_id = NoRollout
      THEN m.start_rollout_id = rollout_id ELSE m.start_rollout_id = s.start_rollout_id
  BY DEF TagStart, Sample
<1> HIDE DEF m
<1>5. Recorded(m) /\ Tagged(m)
  BY <1>1, <1>2, <1>3, <1>4 DEF Recorded, Tagged, TaggedIfOld
<1> QED BY <1>1, <1>5 DEF m

\* A new sample has nothing to record.
LEMMA FreshRecord ==
  ASSUME NEW r
  PROVE  /\ FreshSample \in Sample /\ Recorded(FreshSample) /\ Tagged(FreshSample) /\ ~Finished(FreshSample)
         /\ TokensBefore(FreshSample, r) /\ TokensUpTo(FreshSample, r)
<1>1. DOMAIN FreshSample.response = {} /\ FreshSample.response = <<>>
  BY DEF FreshSample
<1>2. FreshSample \in Sample
  BY EmptySeq DEF FreshSample, Sample, Status
<1> QED BY <1>1, <1>2 DEF FreshSample, Recorded, Tagged, Finished, TokensBefore, TokensUpTo

-----------------------------------------------------------------------------
(* The steps of the tasks keep SamplesInv. *)

\* A group with a task is neither queued nor collected.
LEMMA LiveGroup ==
  ASSUME IInv, SamplesInv, NEW g \in Groups, gstate[g] \in GLive
  PROVE  /\ g \notin data /\ \A k \in DOMAIN buffer : buffer[k] # g
         /\ gstate[g] \notin GFate /\ pc # "idle" /\ rollout_id \in Nat
<1>1. gstate[g] \notin GFate
  BY DEF GLive, GFate
<1>2. ASSUME g \in data PROVE FALSE
  <2>1. PICK i \in SampleIds : TRUE
    BY GenerationAssumption
  <2>2. FateSound(g, i)
    BY <2>1 DEF SamplesInv, SampleInv
  <2> QED BY <1>1, <1>2, <2>2 DEF FateSound, GFate
<1>3. pc # "idle" /\ rollout_id \in Nat
  BY DEF IInv, OneOwner, MainFlow
<1>4. ASSUME NEW k \in DOMAIN buffer, buffer[k] = g PROVE FALSE
  <2>1. buffer \in Seq(Groups) /\ aborted_samples \in Seq(Groups)
    BY DEF IInv, TypeOK, SourceTypeOK
  <2>2. k \in DOMAIN Queued /\ Queued[k] = g
    BY <1>4, <2>1 DEF Queued
  <2>3. gstate[g] = "recycled"
    BY <2>2 DEF IInv, OneOwner
  <2> QED BY <2>3 DEF GLive
<1> QED BY <1>1, <1>2, <1>3, <1>4

\* A step of one group's tasks leaves the other samples.
LEMMA GroupFrame ==
  ASSUME IInv, SamplesInv, NEW g \in Groups, gstate[g] \in GLive,
         UNCHANGED <<sourceVars, rollout_id, pc, aborted, data>>,
         \A h \in Groups : h # g => gstate'[h] = gstate[h] /\ tstate'[h] = tstate[h] /\ samples'[h] = samples[h],
         gstate'[g] \in GLive,
         \A i \in SampleIds : /\ Recorded(samples'[g][i]) /\ TokensUpTo(samples'[g][i], rollout_id)
                              /\ TaskSound(g, i)'
  PROVE  SamplesInv'
<1>1. g \notin data /\ \A k \in DOMAIN buffer : buffer[k] # g
  BY LiveGroup
<1>2. gstate'[g] \notin GFate
  BY DEF GLive, GFate
<1>3. UNCHANGED <<buffer, rollout_id, pc, aborted, data, sample_group_index>> /\ Groups' = Groups
  BY DEF sourceVars, Groups
<1>4. BufferPast'
  <2>1. \A k \in DOMAIN buffer : buffer[k] \in Groups
    BY DEF IInv, TypeOK, SourceTypeOK
  <2> QED BY <1>1, <1>3, <2>1 DEF SamplesInv, BufferPast
<1>5. ASSUME NEW i \in SampleIds PROVE FateSound(g, i)'
  BY <1>1, <1>2, <1>3 DEF FateSound, GFate
<1>6. ASSUME NEW h \in Groups, NEW i \in SampleIds, h # g PROVE SampleInv(h, i)'
  <2>1. SampleInv(h, i)
    BY DEF SamplesInv
  <2> QED BY <1>3, <1>6, <2>1 DEF SampleInv, TaskSound, FateSound
<1> QED BY <1>3, <1>4, <1>5, <1>6 DEF SamplesInv, SampleInv

\* A step of one sample's task in a running group leaves the other samples of the group, too.
LEMMA OneSample ==
  ASSUME IInv, SamplesInv, NEW g \in Groups, NEW i \in SampleIds, gstate[g] = "running", NEW s, NEW t,
         UNCHANGED <<sourceVars, rollout_id, pc, aborted, data, gstate>>,
         samples' = [samples EXCEPT ![g][i] = s],
         tstate' = [tstate EXCEPT ![g][i] = t], t # "start",
         Recorded(s), TokensUpTo(s, rollout_id), TaggedIfOld(s, rollout_id),
         t = "reward" => Finished(s),
         t # "reward" /\ Finished(s) /\ ~GroupRm => s.rewarded,
         ~aborted => MaskSelects(s, rollout_id),
         ~aborted /\ t = "returned" => Finished(s)
  PROVE  SamplesInv'
<1>1. /\ samples'[g][i] = s /\ tstate'[g][i] = t
      /\ \A h \in Groups : h # g => tstate'[h] = tstate[h] /\ samples'[h] = samples[h]
      /\ \A j \in SampleIds : j # i => tstate'[g][j] = tstate[g][j] /\ samples'[g][j] = samples[g][j]
  BY DEF IInv, TypeOK
<1>2. gstate[g] \in GLive /\ gstate'[g] = "running"
  BY DEF GLive
<1>3. ASSUME NEW j \in SampleIds
      PROVE  Recorded(samples'[g][j]) /\ TokensUpTo(samples'[g][j], rollout_id) /\ TaskSound(g, j)'
  <2>1. CASE j = i
    <3>1. TaskSound(g, i)'
      BY <1>1, <1>2 DEF TaskSound
    <3> QED BY <1>1, <2>1, <3>1
  <2>2. CASE j # i
    <3>1. SampleInv(g, j)
      BY DEF SamplesInv
    <3> QED BY <1>1, <2>2, <3>1 DEF SampleInv, TaskSound
  <2> QED BY <2>1, <2>2
<1> QED BY <1>1, <1>2, <1>3, GroupFrame

\* What is known of a sample with a task.
LEMMA OfLiveSample ==
  ASSUME IInv, SamplesInv, NEW g \in Groups, NEW i \in SampleIds,
         tstate[g][i] \notin {"idle", "returned"}
  PROVE  /\ gstate[g] = "running" /\ rollout_id \in Nat /\ samples[g][i] \in Sample
         /\ Recorded(samples[g][i]) /\ TokensUpTo(samples[g][i], rollout_id)
         /\ TaggedIfOld(samples[g][i], rollout_id) /\ TaskSound(g, i)
         /\ samples = [samples EXCEPT ![g][i] = samples[g][i]]
<1>1. gstate[g] = "running" /\ rollout_id \in Nat
  BY LiveTask
<1>2. SampleInv(g, i)
  BY DEF SamplesInv
<1>3. samples \in [Groups -> [SampleIds -> Sample]]
  BY DEF IInv, TypeOK
<1>4. samples = [samples EXCEPT ![g][i] = samples[g][i]]
  BY <1>3
<1> QED BY <1>1, <1>2, <1>3, <1>4 DEF SampleInv, TaskSound, GLive

\* A sample that is resumed first has its old tokens masked; a finished one goes on
\* with the reward it has (sglang_rollout.py:246-254).
LEMMA StartSampleKeeps ==
  ASSUME IInv, SamplesInv, NEW g \in Groups, NEW i \in SampleIds, StartSample(g, i)
  PROVE  SamplesInv'
<1> DEFINE s == samples[g][i]
           m == MaskPrevious(s)
           t == IF Finished(s) THEN "returned" ELSE "acquire"
<1>1. tstate[g][i] = "start" /\ samples' = [samples EXCEPT ![g][i] = m] /\ tstate' = [tstate EXCEPT ![g][i] = t]
      /\ UNCHANGED <<sourceVars, rollout_id, pc, aborted, data, gstate>>
  BY DEF StartSample, stateVars
<1>2. /\ gstate[g] = "running" /\ rollout_id \in Nat /\ s \in Sample
      /\ Recorded(s) /\ TokensUpTo(s, rollout_id) /\ TaggedIfOld(s, rollout_id)
      /\ TaskSound(g, i)
  BY <1>1, OfLiveSample
<1>3. TokensBefore(s, rollout_id) /\ (Finished(s) /\ ~GroupRm => s.rewarded)
  BY <1>1, <1>2 DEF TaskSound
<1>4. /\ m.response = s.response /\ m.status = s.status /\ m.rewarded = s.rewarded
      /\ m.start_rollout_id = s.start_rollout_id
      /\ Recorded(m) /\ MaskSelects(m, rollout_id)
  BY <1>2, <1>3, MaskedPast
<1>5. TokensUpTo(m, rollout_id) /\ TaggedIfOld(m, rollout_id) /\ (Finished(m) <=> Finished(s))
  BY <1>2, <1>4 DEF TokensUpTo, TaggedIfOld, Finished
<1>6. t # "start" /\ t # "reward" /\ (t = "returned" => Finished(s))
  OBVIOUS
<1> HIDE DEF m, t
<1> QED BY <1>1, <1>2, <1>3, <1>4, <1>5, <1>6, OneSample

\* At the semaphore the response stays; after an abort the sample is marked as
\* unfinished (sglang_rollout.py:260-265).
LEMMA AcquirePermitKeeps ==
  ASSUME IInv, SamplesInv, NEW g \in Groups, NEW i \in SampleIds, AcquirePermit(g, i)
  PROVE  SamplesInv'
<1> DEFINE s == samples[g][i]
           m == [s EXCEPT !.status = "ABORTED"]
<1>1. tstate[g][i] = "acquire" /\ UNCHANGED <<sourceVars, rollout_id, pc, aborted, data, gstate>>
  BY DEF AcquirePermit
<1>2. /\ gstate[g] = "running" /\ rollout_id \in Nat /\ s \in Sample
      /\ Recorded(s) /\ TokensUpTo(s, rollout_id) /\ TaggedIfOld(s, rollout_id)
      /\ TaskSound(g, i) /\ samples = [samples EXCEPT ![g][i] = s]
  BY <1>1, OfLiveSample
<1>3. CASE aborted
  <2> DEFINE t == "returned"
  <2>1. samples' = [samples EXCEPT ![g][i] = m] /\ tstate' = [tstate EXCEPT ![g][i] = t]
    BY <1>3 DEF AcquirePermit
  <2>2. /\ m.response = s.response /\ m.masked = s.masked /\ m.loss_mask = s.loss_mask
        /\ m.start_rollout_id = s.start_rollout_id /\ m.status = "ABORTED"
    BY <1>2 DEF Sample
  <2>3. Recorded(m) /\ TokensUpTo(m, rollout_id) /\ TaggedIfOld(m, rollout_id) /\ ~Finished(m)
    BY <1>2, <2>2 DEF Recorded, TokensUpTo, TaggedIfOld, Finished
  <2>4. t # "start" /\ t # "reward"
    OBVIOUS
  <2> HIDE DEF m, t, s
  <2> QED BY <1>1, <1>2, <1>3, <2>1, <2>3, <2>4, OneSample
<1>4. CASE ~aborted
  <2> DEFINE t == "generate"
  <2>1. samples' = [samples EXCEPT ![g][i] = s] /\ tstate' = [tstate EXCEPT ![g][i] = t]
    BY <1>2, <1>4 DEF AcquirePermit
  <2>2. MaskSelects(s, rollout_id) /\ (Finished(s) /\ ~GroupRm => s.rewarded)
    BY <1>1, <1>2, <1>4 DEF TaskSound, GLive
  <2>3. t # "start" /\ t # "reward" /\ t # "returned"
    OBVIOUS
  <2> HIDE DEF s, t
  <2> QED BY <1>1, <1>2, <2>1, <2>2, <2>3, OneSample
<1> QED BY <1>3, <1>4

\* An answer adds tokens of this rollout, and leaves a sample unfinished only after an
\* abort (sglang_rollout.py:179-236, 267-302).
LEMMA ReceiveReplyKeeps ==
  ASSUME IInv, SamplesInv, NEW g \in Groups, NEW i \in SampleIds, ReceiveReply(g, i)
  PROVE  SamplesInv'
<1> DEFINE s == samples[g][i]
<1>1. tstate[g][i] = "generate" /\ UNCHANGED <<sourceVars, rollout_id, pc, aborted, data, gstate>>
  BY DEF ReceiveReply
<1>2. /\ gstate[g] = "running" /\ rollout_id \in Nat /\ s \in Sample
      /\ Recorded(s) /\ TokensUpTo(s, rollout_id) /\ TaggedIfOld(s, rollout_id)
      /\ TaskSound(g, i)
  BY <1>1, OfLiveSample
<1>3. ~aborted => MaskSelects(s, rollout_id)
  BY <1>1, <1>2 DEF TaskSound, GLive
<1>4. PICK reply \in Replies :
        /\ reply.status = "ABORTED" => aborted
        /\ samples' = [samples EXCEPT ![g][i] = Extend(s, reply)]
        /\ tstate' = [tstate EXCEPT ![g][i] = AfterReply(s, reply)]
  BY DEF ReceiveReply
<1> DEFINE e == Extend(s, reply)
           t == AfterReply(s, reply)
<1>5. /\ e.status = reply.status /\ e.rewarded = s.rewarded
      /\ Recorded(e) /\ TokensUpTo(e, rollout_id) /\ TaggedIfOld(e, rollout_id)
      /\ MaskSelects(s, rollout_id) => MaskSelects(e, rollout_id)
  BY <1>2, ExtendedRecord
<1>6. Finished(e) <=> reply.status # "ABORTED"
  BY <1>5 DEF Finished, Replies
<1>7. /\ t # "start" /\ (t = "reward" => Finished(e))
      /\ t # "reward" /\ Finished(e) /\ ~GroupRm => e.rewarded
  BY <1>5, <1>6 DEF AfterReply
<1> HIDE DEF e, t, s
<1> QED BY <1>1, <1>2, <1>3, <1>4, <1>5, <1>6, <1>7, OneSample DEF e, t

\* A reward is for a finished sample (sglang_rollout.py:297-302).
LEMMA ReceiveRewardKeeps ==
  ASSUME IInv, SamplesInv, NEW g \in Groups, NEW i \in SampleIds, ReceiveReward(g, i)
  PROVE  SamplesInv'
<1> DEFINE s == samples[g][i]
           m == [s EXCEPT !.rewarded = TRUE]
<1>1. /\ tstate[g][i] = "reward" /\ UNCHANGED <<sourceVars, rollout_id, pc, aborted, data, gstate>>
      /\ samples' = [samples EXCEPT ![g][i] = m] /\ tstate' = [tstate EXCEPT ![g][i] = "returned"]
  BY DEF ReceiveReward, stateVars
<1>2. /\ gstate[g] = "running" /\ rollout_id \in Nat /\ s \in Sample
      /\ Recorded(s) /\ TokensUpTo(s, rollout_id) /\ TaggedIfOld(s, rollout_id)
      /\ TaskSound(g, i)
  BY <1>1, OfLiveSample
<1>3. /\ m.response = s.response /\ m.masked = s.masked /\ m.loss_mask = s.loss_mask
      /\ m.start_rollout_id = s.start_rollout_id /\ m.status = s.status /\ m.rewarded
  BY <1>2 DEF Sample
<1>4. Finished(s) /\ (~aborted => MaskSelects(s, rollout_id))
  BY <1>1, <1>2 DEF TaskSound, GLive
<1> HIDE DEF m
<1>5. /\ Recorded(m) /\ TokensUpTo(m, rollout_id) /\ TaggedIfOld(m, rollout_id) /\ Finished(m)
      /\ MaskSelects(s, rollout_id) => MaskSelects(m, rollout_id)
  BY <1>2, <1>3, <1>4 DEF Recorded, TokensUpTo, TaggedIfOld, Finished, MaskSelects
<1> QED BY <1>1, <1>2, <1>3, <1>4, <1>5, OneSample

\* A group's task that first runs after the abort leaves its samples as they were
\* resumed (sglang_rollout.py:310-334).
LEMMA StartGroupKeeps ==
  ASSUME IInv, SamplesInv, NEW g \in Groups, StartGroup(g)
  PROVE  SamplesInv'
<1>1. /\ UNCHANGED <<sourceVars, rollout_id, pc, aborted, data>> /\ samples' = samples
      /\ gstate[g] = "created" /\ gstate[g] \in GLive
  BY DEF StartGroup, stateVars, GLive
<1>2. gstate \in [Groups -> GLive \cup GFate] /\ tstate \in [Groups -> [SampleIds -> TState]]
  BY DEF IInv, TypeOK
<1>3. /\ gstate'[g] = IF aborted THEN "done" ELSE "running"
      /\ \A i \in SampleIds : IF aborted THEN tstate'[g][i] = tstate[g][i] ELSE tstate'[g][i] = "start"
      /\ \A h \in Groups : h # g => gstate'[h] = gstate[h] /\ tstate'[h] = tstate[h] /\ samples'[h] = samples[h]
  BY <1>1, <1>2 DEF StartGroup
<1>4. gstate'[g] \in GLive
  BY <1>3 DEF GLive
<1>5. ASSUME NEW i \in SampleIds
      PROVE  Recorded(samples'[g][i]) /\ TokensUpTo(samples'[g][i], rollout_id) /\ TaskSound(g, i)'
  <2>1. SampleInv(g, i)
    BY DEF SamplesInv
  <2>2. tstate[g][i] \in {"idle", "returned"}
    BY <1>1 DEF IInv, TasksInRunning
  <2>3. TaskSound(g, i)'
    BY <1>1, <1>3, <2>1, <2>2 DEF SampleInv, TaskSound
  <2> QED BY <1>1, <2>1, <2>3 DEF SampleInv
<1> QED BY <1>1, <1>3, <1>4, <1>5, GroupFrame

\* A group that is gathered in a rollout that goes on has finished samples, with their
\* rewards unless the group reward comes (sglang_rollout.py:336-343).
LEMMA GatherGroupKeeps ==
  ASSUME IInv, SamplesInv, NEW g \in Groups, GatherGroup(g)
  PROVE  SamplesInv'
<1>1. /\ UNCHANGED <<sourceVars, rollout_id, pc, aborted, data, tstate, samples>>
      /\ gstate[g] = "running" /\ gstate[g] \in GLive
      /\ \A i \in SampleIds : tstate[g][i] = "returned"
  BY DEF GatherGroup, stateVars, GLive
<1>2. gstate \in [Groups -> GLive \cup GFate]
  BY DEF IInv, TypeOK
<1>3. /\ gstate'[g] = IF ~aborted /\ GroupRm THEN "group_rm" ELSE "done"
      /\ \A h \in Groups : h # g => gstate'[h] = gstate[h] /\ tstate'[h] = tstate[h] /\ samples'[h] = samples[h]
  BY <1>1, <1>2 DEF GatherGroup, Gathered
<1>4. gstate'[g] \in GLive
  BY <1>3 DEF GLive
<1>5. ASSUME NEW i \in SampleIds
      PROVE  Recorded(samples'[g][i]) /\ TokensUpTo(samples'[g][i], rollout_id) /\ TaskSound(g, i)'
  <2>1. SampleInv(g, i)
    BY DEF SamplesInv
  <2>2. TaskSound(g, i)'
    BY <1>1, <1>3, <1>4, <2>1 DEF SampleInv, TaskSound, GLive
  <2> QED BY <1>1, <2>1, <2>2 DEF SampleInv
<1> QED BY <1>1, <1>3, <1>4, <1>5, GroupFrame

\* A group reward is for all samples of the group (sglang_rollout.py:343-347).
LEMMA ReceiveGroupRewardKeeps ==
  ASSUME IInv, SamplesInv, NEW g \in Groups, ReceiveGroupReward(g)
  PROVE  SamplesInv'
<1>1. /\ UNCHANGED <<sourceVars, rollout_id, pc, aborted, data, tstate>>
      /\ gstate[g] = "group_rm" /\ gstate[g] \in GLive
  BY DEF ReceiveGroupReward, stateVars, GLive
<1>2. gstate \in [Groups -> GLive \cup GFate] /\ samples \in [Groups -> [SampleIds -> Sample]]
  BY DEF IInv, TypeOK
<1>3. /\ gstate'[g] = "done"
      /\ \A i \in SampleIds : samples'[g][i] = [samples[g][i] EXCEPT !.rewarded = TRUE]
      /\ \A h \in Groups : h # g => gstate'[h] = gstate[h] /\ tstate'[h] = tstate[h] /\ samples'[h] = samples[h]
  BY <1>1, <1>2 DEF ReceiveGroupReward
<1>4. gstate'[g] \in GLive
  BY <1>3 DEF GLive
<1>5. ASSUME NEW i \in SampleIds
      PROVE  Recorded(samples'[g][i]) /\ TokensUpTo(samples'[g][i], rollout_id) /\ TaskSound(g, i)'
  <2> DEFINE s == samples[g][i]
             m == [s EXCEPT !.rewarded = TRUE]
  <2>1. SampleInv(g, i) /\ s \in Sample
    BY <1>2 DEF SamplesInv
  <2>2. tstate[g][i] \in {"idle", "returned"}
    BY <1>1 DEF IInv, TasksInRunning
  <2>3. /\ m.response = s.response /\ m.masked = s.masked /\ m.loss_mask = s.loss_mask
        /\ m.start_rollout_id = s.start_rollout_id /\ m.status = s.status /\ m.rewarded
    BY <2>1 DEF Sample
  <2>4. samples'[g][i] = m
    BY <1>3
  <2> HIDE DEF m
  <2>5. /\ Recorded(m) /\ TokensUpTo(m, rollout_id)
        /\ TaggedIfOld(s, rollout_id) => TaggedIfOld(m, rollout_id)
        /\ MaskSelects(s, rollout_id) => MaskSelects(m, rollout_id)
        /\ Finished(m) <=> Finished(s)
    BY <2>1, <2>3 DEF SampleInv, Recorded, TokensUpTo, TaggedIfOld, Finished, MaskSelects
  <2>6. TaskSound(g, i)'
    BY <1>1, <1>3, <2>1, <2>2, <2>3, <2>4, <2>5 DEF SampleInv, TaskSound, GLive
  <2> QED BY <2>4, <2>5, <2>6
<1> QED BY <1>1, <1>3, <1>4, <1>5, GroupFrame

-----------------------------------------------------------------------------
(* The steps of the main coroutine keep SamplesInv. *)

\* Outside its rollout no group has a task.
LEMMA NoTask ==
  ASSUME IInv, pendings = {}, NEW g \in Groups, NEW i \in SampleIds
  PROVE  gstate[g] \notin GLive /\ tstate[g][i] \in {"idle", "returned"}
<1>1. gstate[g] \notin GLive
  BY DEF IInv, OneOwner
<1> QED BY <1>1 DEF IInv, TasksInRunning, GLive

\* What a rollout leaves behind is the past of the next (sglang_rollout.py:413-429).
LEMMA StartRolloutKeeps ==
  ASSUME IInv, SamplesInv, StartRollout
  PROVE  SamplesInv'
<1>1. /\ rollout_id' = rollout_id + 1 /\ data' = {} /\ pc = "idle" /\ pendings = {} /\ Groups' = Groups
      /\ UNCHANGED <<buffer, aborted, gstate, tstate, samples>>
  BY DEF StartRollout, IInv, MainFlow, sourceVars, taskVars, Groups
<1>2. rollout_id \in Int /\ samples \in [Groups -> [SampleIds -> Sample]] /\ buffer \in Seq(Groups)
  BY DEF IInv, TypeOK, SourceTypeOK, NoRollout
<1> DEFINE r == rollout_id + 1
<1>3. ASSUME NEW g \in Groups, NEW i \in SampleIds
      PROVE  TokensUpTo(samples[g][i], rollout_id + 1) /\ TokensBefore(samples[g][i], rollout_id + 1)
  <2>1. TokensUpTo(samples[g][i], rollout_id)
    BY DEF SamplesInv, SampleInv
  <2>2. \A k \in DOMAIN samples[g][i].response : samples[g][i].response[k] \in Nat
    BY <1>2 DEF Sample
  <2> QED BY <1>2, <2>1, <2>2 DEF TokensUpTo, TokensBefore
<1>4. BufferPast'
  <2>1. \A k \in DOMAIN buffer : buffer[k] \in Groups
    BY <1>2
  <2> QED BY <1>1, <1>3, <2>1 DEF BufferPast
<1>5. ASSUME NEW g \in Groups, NEW i \in SampleIds
      PROVE  SampleInv(g, i)'
  <2>1. gstate[g] \notin GLive /\ tstate[g][i] \in {"idle", "returned"}
    BY <1>1, NoTask
  <2>2. SampleInv(g, i)
    BY DEF SamplesInv
  <2>3. TaskSound(g, i)'
    BY <1>1, <2>1, <2>2 DEF SampleInv, TaskSound, GLive
  <2>4. FateSound(g, i)'
    BY <1>1, <2>2 DEF SampleInv, FateSound
  <2> QED BY <1>1, <1>3, <2>2, <2>3, <2>4 DEF SampleInv
<1> QED BY <1>1, <1>4, <1>5 DEF SamplesInv

\* A group that is submitted is new, or was recycled by an earlier rollout
\* (sglang_rollout.py:136-149, 430-433).
LEMMA SubmitTasksKeeps ==
  ASSUME IInv, SamplesInv, SubmitTasks
  PROVE  SamplesInv'
<1> DEFINE n     == OverSamplingBatchSize
           got   == HandedOut(n)
           after == Groups'
<1>1. n \in Nat /\ SourceTypeOK /\ GetSamples(n) /\ pc = "submit"
  BY GenerationAssumption DEF IInv, TypeOK, SubmitTasks
<1>2. /\ UNCHANGED <<rollout_id, aborted, data>> /\ pc' # "idle"
      /\ gstate' = [g \in after |-> IF g \in got THEN "created" ELSE gstate[g]]
      /\ tstate' = [g \in after |-> IF g \in got THEN [i \in SampleIds |-> "idle"] ELSE tstate[g]]
      /\ samples' = [g \in after |-> IF g \in Groups THEN samples[g] ELSE [i \in SampleIds |-> FreshSample]]
  BY DEF SubmitTasks, LoopPc
<1>3. /\ got \cap data = {}
      /\ \A g \in after : g \notin got => g \in Groups
      /\ \A g \in got : g \in Groups => gstate[g] = "recycled"
  BY HandedOutIsFree
<1>4. /\ Groups \subseteq after /\ Popped(n) \in 0 .. Len(buffer)
      /\ Len(buffer') = Len(buffer) - Popped(n)
      /\ \A k \in 1 .. Len(buffer') : buffer'[k] = buffer[Popped(n) + k]
      /\ buffer' \in Seq(after)
  BY <1>1, GetSamplesStep DEF SourceTypeOK
<1>5. Len(buffer) \in Nat /\ DOMAIN buffer = 1 .. Len(buffer) /\ DOMAIN buffer' = 1 .. Len(buffer')
      /\ \A k \in DOMAIN buffer : buffer[k] \in Groups
  BY <1>1, <1>4, LenProperties DEF SourceTypeOK
<1>6. \A k \in DOMAIN buffer, i \in SampleIds : TokensBefore(samples[buffer[k]][i], rollout_id)
  BY <1>1 DEF SamplesInv, BufferPast
<1>7. \A g \in got : g \in Groups => \E k \in DOMAIN buffer : g = buffer[k]
  BY <1>4, <1>5 DEF HandedOut
<1> HIDE DEF got, after, n
<1>8. BufferPast'
  <2>1. ASSUME NEW k \in DOMAIN buffer', NEW i \in SampleIds
        PROVE  TokensBefore(samples'[buffer'[k]][i], rollout_id)
    <3>1. Popped(n) + k \in DOMAIN buffer /\ buffer'[k] = buffer[Popped(n) + k]
      BY <1>4, <1>5
    <3>2. buffer'[k] \in Groups /\ samples'[buffer'[k]] = samples[buffer'[k]]
      BY <1>2, <1>4, <1>5, <3>1
    <3> QED BY <1>6, <3>1, <3>2
  <2> QED BY <1>2, <2>1 DEF BufferPast
<1>9. ASSUME NEW g \in after, NEW i \in SampleIds
      PROVE  SampleInv(g, i)'
  <2>1. CASE g \notin got
    <3>1. g \in Groups /\ SampleInv(g, i) /\ samples'[g] = samples[g] /\ tstate'[g] = tstate[g] /\ gstate'[g] = gstate[g]
      BY <1>2, <1>3, <1>4, <2>1 DEF SamplesInv
    <3> QED BY <1>2, <3>1 DEF SampleInv, TaskSound, FateSound
  <2>2. CASE g \in got
    <3>1. gstate'[g] = "created" /\ tstate'[g][i] = "idle" /\ g \notin data
      BY <1>2, <1>3, <2>2
    <3>2. CASE g \in Groups
      <4> DEFINE s == samples[g][i]
      <4>1. SampleInv(g, i) /\ gstate[g] = "recycled" /\ samples'[g][i] = s
        BY <1>2, <1>3, <2>2, <3>2 DEF SamplesInv
      <4>2. tstate[g][i] \in {"idle", "returned"}
        BY <3>2, <4>1 DEF IInv, TasksInRunning
      <4>3. Finished(s) /\ ~GroupRm => s.rewarded
        BY <4>1, <4>2 DEF SampleInv, TaskSound
      <4>4. TokensBefore(s, rollout_id)
        BY <1>6, <1>7, <2>2, <3>2
      <4>5. TaggedIfOld(s, rollout_id)
        <5>1. Tagged(s)
          BY <4>1 DEF SampleInv, FateSound
        <5>2. DOMAIN <<>> = {}
          OBVIOUS
        <5> QED BY <5>1, <5>2 DEF Tagged, TaggedIfOld
      <4> HIDE DEF s
      <4>6. TaskSound(g, i)'
        BY <1>2, <3>1, <4>1, <4>3, <4>4, <4>5 DEF TaskSound, GLive
      <4>7. FateSound(g, i)'
        BY <1>2, <3>1 DEF FateSound, GFate
      <4>8. Recorded(s) /\ TokensUpTo(s, rollout_id)
        BY <4>1 DEF SampleInv, s
      <4> QED BY <1>2, <4>1, <4>6, <4>7, <4>8 DEF SampleInv
    <3>3. CASE g \notin Groups
      <4> DEFINE s == FreshSample
      <4>1. samples'[g][i] = s
        BY <1>2, <3>3
      <4>2. /\ Recorded(s) /\ Tagged(s) /\ ~Finished(s)
            /\ TokensBefore(s, rollout_id) /\ TokensUpTo(s, rollout_id) /\ s.response = <<>>
        BY FreshRecord DEF FreshSample
      <4>3. TaggedIfOld(s, rollout_id)
        BY <4>2 DEF TaggedIfOld
      <4> HIDE DEF s
      <4>4. TaskSound(g, i)'
        BY <1>2, <3>1, <4>1, <4>2, <4>3 DEF TaskSound, GLive
      <4>5. FateSound(g, i)'
        BY <1>2, <3>1 DEF FateSound, GFate
      <4> QED BY <1>2, <4>1, <4>2, <4>4, <4>5 DEF SampleInv
    <3> QED BY <3>2, <3>3
  <2> QED BY <2>1, <2>2
<1> QED BY <1>8, <1>9 DEF SamplesInv, after

\* A collected group was done before the abort, so it is finished and rewarded
\* (sglang_rollout.py:436-467).
LEMMA CollectDoneKeeps ==
  ASSUME IInv, SamplesInv, CollectDone
  PROVE  SamplesInv'
<1>1. pc = "wait" /\ ~aborted /\ pc # "idle"
  BY DEF CollectDone, IInv, MainFlow
<1>2. PICK kept \in SUBSET DonePendings : \E chosen \in SUBSET kept :
        /\ data' = data \cup chosen
        /\ gstate' = [g \in Groups |-> IF g \in chosen THEN "kept"
                                       ELSE IF g \in kept THEN "surplus"
                                       ELSE IF g \in DonePendings \ kept THEN "filtered"
                                       ELSE gstate[g]]
  BY DEF CollectDone
<1>3. PICK chosen \in SUBSET kept :
        /\ data' = data \cup chosen
        /\ gstate' = [g \in Groups |-> IF g \in chosen THEN "kept"
                                       ELSE IF g \in kept THEN "surplus"
                                       ELSE IF g \in DonePendings \ kept THEN "filtered"
                                       ELSE gstate[g]]
  BY <1>2
<1>4. /\ pc' # "idle" /\ Groups' = Groups
      /\ UNCHANGED <<buffer, rollout_id, tstate, samples>>
  BY DEF CollectDone, LoopPc, sourceVars, Groups
<1>5. BufferPast'
  BY <1>1, <1>4 DEF SamplesInv, BufferPast
<1>6. ASSUME NEW g \in Groups, NEW i \in SampleIds
      PROVE  SampleInv(g, i)'
  <2>1. SampleInv(g, i)
    BY DEF SamplesInv
  <2>2. CASE g \notin DonePendings
    <3>1. gstate'[g] = gstate[g] /\ (g \in data' <=> g \in data)
      BY <1>3, <2>2
    <3> QED BY <1>1, <1>4, <2>1, <3>1 DEF SampleInv, TaskSound, FateSound
  <2>3. CASE g \in DonePendings
    <3>1. gstate[g] = "done" /\ gstate[g] \in GLive
      BY <2>3 DEF DonePendings, GLive
    <3>2. tstate[g][i] \in {"idle", "returned"} /\ g \notin data
      BY <3>1, LiveGroup DEF IInv, TasksInRunning
    <3>3. /\ Finished(samples[g][i]) /\ samples[g][i].rewarded
          /\ MaskSelects(samples[g][i], rollout_id)
      BY <1>1, <2>1, <3>1, <3>2 DEF SampleInv, TaskSound
    <3>4. /\ gstate'[g] \in {"kept", "surplus", "filtered"}
          /\ g \in data' => gstate'[g] = "kept"
      BY <1>3, <2>3, <3>2
    <3>5. TaskSound(g, i)'
      BY <1>4, <2>1, <3>2, <3>3, <3>4 DEF SampleInv, TaskSound, GLive
    <3>6. FateSound(g, i)'
      BY <1>4, <3>3, <3>4 DEF FateSound
    <3> QED BY <1>4, <2>1, <3>5, <3>6 DEF SampleInv
  <2> QED BY <2>2, <2>3
<1> QED BY <1>4, <1>5, <1>6 DEF SamplesInv

\* abort() recycles a group with the rollout of its first token in every sample that
\* has one, or discards it where nothing is recycled (sglang_rollout.py:373-393).
LEMMA DrainPendingsKeeps ==
  ASSUME IInv, SamplesInv, DrainPendings
  PROVE  SamplesInv'
<1>1. pc = "drain" /\ aborted /\ rollout_id \in Nat
  BY DEF DrainPendings, IInv, MainFlow
<1>2. /\ pc' = pc /\ aborted' = aborted /\ data' = data /\ Groups' = Groups
      /\ UNCHANGED <<buffer, rollout_id, tstate>>
  BY DEF DrainPendings, sourceVars, Groups
<1>3. \/ /\ PartialRollout
         /\ gstate' = [g \in Groups |-> IF g \in DonePendings THEN "recycled" ELSE gstate[g]]
         /\ samples' = [g \in Groups |-> IF g \in DonePendings
                                         THEN [i \in SampleIds |-> TagStart(samples[g][i])]
                                         ELSE samples[g]]
      \/ /\ ~PartialRollout
         /\ gstate' = [g \in Groups |-> IF g \in DonePendings THEN "discarded" ELSE gstate[g]]
         /\ samples' = samples
  BY DEF DrainPendings
<1>4. samples \in [Groups -> [SampleIds -> Sample]] /\ buffer \in Seq(Groups)
  BY DEF IInv, TypeOK, SourceTypeOK
<1>5. \A g \in DonePendings : gstate[g] = "done" /\ gstate[g] \in GLive /\ g \in Groups
  BY DEF DonePendings, GLive, IInv, TypeOK
<1>6. \A g \in Groups : g \notin DonePendings => gstate'[g] = gstate[g] /\ samples'[g] = samples[g]
  BY <1>3
<1>7. \A g \in DonePendings : g \notin data /\ \A k \in DOMAIN buffer : buffer[k] # g
  BY <1>5, LiveGroup
<1>8. BufferPast'
  <2>1. \A k \in DOMAIN buffer : buffer[k] \in Groups /\ samples'[buffer[k]] = samples[buffer[k]]
    BY <1>4, <1>6, <1>7
  <2> QED BY <1>1, <1>2, <2>1 DEF SamplesInv, BufferPast
<1>9. ASSUME NEW g \in Groups, NEW i \in SampleIds
      PROVE  SampleInv(g, i)'
  <2>1. SampleInv(g, i)
    BY DEF SamplesInv
  <2>2. CASE g \notin DonePendings
    <3>1. gstate'[g] = gstate[g] /\ samples'[g] = samples[g]
      BY <1>6, <2>2
    <3> QED BY <1>2, <2>1, <3>1 DEF SampleInv, TaskSound, FateSound
  <2>3. CASE g \in DonePendings
    <3> DEFINE s == samples[g][i]
               m == TagStart(s)
    <3>1. gstate[g] = "done" /\ tstate[g][i] \in {"idle", "returned"} /\ g \notin data /\ s \in Sample
      BY <1>4, <1>5, <1>7, <2>3 DEF IInv, TasksInRunning
    <3>2. TaggedIfOld(s, rollout_id) /\ Recorded(s)
      BY <2>1, <3>1 DEF SampleInv, TaskSound, GLive
    <3>3. /\ m.response = s.response /\ m.status = s.status /\ m.rewarded = s.rewarded
          /\ Recorded(m) /\ Tagged(m)
      BY <1>1, <3>1, <3>2, TaggedRecord
    <3> HIDE DEF m
    <3>4. TokensUpTo(m, rollout_id) /\ (Finished(m) <=> Finished(s))
      BY <2>1, <3>3 DEF SampleInv, TokensUpTo, Finished
    <3>5. CASE PartialRollout
      <4>1. gstate'[g] = "recycled" /\ samples'[g][i] = m
        BY <1>3, <2>3, <3>5 DEF m
      <4>2. TaskSound(g, i)'
        BY <1>2, <2>1, <3>1, <3>3, <3>4, <4>1 DEF SampleInv, TaskSound, GLive
      <4>3. FateSound(g, i)'
        BY <1>2, <3>1, <3>3, <4>1 DEF FateSound
      <4> QED BY <1>2, <3>3, <3>4, <4>1, <4>2, <4>3 DEF SampleInv
    <3>6. CASE ~PartialRollout
      <4>1. gstate'[g] = "discarded" /\ samples'[g] = samples[g]
        BY <1>3, <2>3, <3>6
      <4>2. TaskSound(g, i)'
        BY <1>2, <2>1, <3>1, <4>1 DEF SampleInv, TaskSound, GLive
      <4>3. FateSound(g, i)'
        BY <1>2, <3>1, <3>6, <4>1 DEF FateSound
      <4> QED BY <1>2, <2>1, <4>1, <4>2, <4>3 DEF SampleInv
    <3> QED BY <3>5, <3>6
  <2> QED BY <2>2, <2>3
<1> QED BY <1>2, <1>8, <1>9 DEF SamplesInv

\* When the rollout returns no task is left, and the collected groups are handed out as
\* they are (sglang_rollout.py:469-487, 609-631).
LEMMA FinishRolloutKeeps ==
  ASSUME IInv, SamplesInv, FinishRollout
  PROVE  SamplesInv'
<1>1. /\ pc = "drain" /\ pc' = "idle" /\ pendings = {} /\ Groups' = Groups
      /\ UNCHANGED <<rollout_id, data, tstate, samples>>
      /\ gstate' = [g \in Groups |-> IF g \in data THEN "delivered" ELSE gstate[g]]
  BY DEF FinishRollout, AddSamples, Groups
<1>2. BufferPast'
  BY <1>1 DEF BufferPast
<1>3. ASSUME NEW g \in Groups, NEW i \in SampleIds
      PROVE  SampleInv(g, i)'
  <2>1. SampleInv(g, i) /\ gstate[g] \notin GLive /\ tstate[g][i] \in {"idle", "returned"}
    BY <1>1, NoTask DEF SamplesInv
  <2>2. /\ gstate'[g] = IF g \in data THEN "delivered" ELSE gstate[g]
        /\ gstate'[g] \notin GLive
    BY <1>1, <2>1 DEF GLive
  <2>3. TaskSound(g, i)'
    BY <1>1, <2>1, <2>2 DEF SampleInv, TaskSound, GLive
  <2>4. FateSound(g, i)'
    BY <1>1, <2>1, <2>2 DEF SampleInv, FateSound
  <2> QED BY <1>1, <2>1, <2>3, <2>4 DEF SampleInv
<1> QED BY <1>1, <1>2, <1>3 DEF SamplesInv

\* Before the first rollout there is no sample.
LEMMA InitSamples ==
  ASSUME Init
  PROVE  SamplesInv
BY DEF Init, SourceInit, SamplesInv, BufferPast, Groups

\* Every step of the rollout, of its tasks and of the engines keeps the samples sound.
LEMMA NextSamples ==
  ASSUME IInv, SamplesInv, [Next]_vars
  PROVE  SamplesInv'
<1>1. CASE StartRollout           BY <1>1, StartRolloutKeeps
<1>2. CASE SubmitTasks            BY <1>2, SubmitTasksKeeps
<1>3. CASE CollectDone            BY <1>3, CollectDoneKeeps
<1>4. CASE DrainPendings          BY <1>4, DrainPendingsKeeps
<1>5. CASE FinishRollout          BY <1>5, FinishRolloutKeeps
<1>6. CASE \E g \in Groups : StartGroup(g)
  BY <1>6, StartGroupKeeps
<1>7. CASE \E g \in Groups, i \in SampleIds : StartSample(g, i)
  BY <1>7, StartSampleKeeps
<1>8. CASE \E g \in Groups, i \in SampleIds : AcquirePermit(g, i)
  BY <1>8, AcquirePermitKeeps
<1>9. CASE \E g \in Groups, i \in SampleIds : ReceiveReply(g, i)
  BY <1>9, ReceiveReplyKeeps
<1>10. CASE \E g \in Groups, i \in SampleIds : ReceiveReward(g, i)
  BY <1>10, ReceiveRewardKeeps
<1>11. CASE \E g \in Groups : GatherGroup(g)
  BY <1>11, GatherGroupKeeps
<1>12. CASE \E g \in Groups : ReceiveGroupReward(g)
  BY <1>12, ReceiveGroupRewardKeeps
<1>13. CASE Terminating \/ UNCHANGED vars
  <2>1. UNCHANGED <<buffer, sample_group_index, rollout_id, pc, aborted, data, gstate, tstate, samples>>
    BY <1>13 DEF Terminating, vars, sourceVars, stateVars, taskVars
  <2> QED BY <2>1 DEF SamplesInv, BufferPast, SampleInv, TaskSound, FateSound, Groups
<1> QED BY <1>1, <1>2, <1>3, <1>4, <1>5, <1>6, <1>7, <1>8, <1>9, <1>10, <1>11, <1>12, <1>13
        DEF Next

\* Both invariants together.
THEOREM SamplesCorrect == Spec => [](IInv /\ SamplesInv)
<1>1. Init => IInv /\ SamplesInv
  BY InitIInv, InitSamples
<1>2. IInv /\ SamplesInv /\ [Next]_vars => IInv' /\ SamplesInv'
  BY NextIInv, NextSamples
<1> QED BY <1>1, <1>2, PTL DEF Spec

\* A group that is handed to training is finished and rewarded in every sample, whatever
\* rollouts its samples finished in, and a finished sample that runs again has its reward
\* (sglang_rollout.py:250-302, 343-347, 457-467).
THEOREM DataFinalCorrect == Spec => []DataFinal
<1>1. ASSUME IInv, SamplesInv PROVE DataFinal
  <2>1. data \subseteq Groups
    BY <1>1 DEF IInv, TypeOK
  <2> QED BY <1>1, <2>1 DEF SamplesInv, SampleInv, TaskSound, FateSound, DataFinal
<1> QED BY <1>1, SamplesCorrect, PTL

\* Under --partial-rollout a group with an unfinished sample has a task or is queued: it
\* is never lost (arguments.py:425-429, sglang_rollout.py:373-393, 630).
THEOREM UnfinishedRecycledCorrect == Spec => []UnfinishedRecycled
<1>1. ASSUME IInv, SamplesInv, PartialRollout, NEW g \in Groups, NEW i \in SampleIds, ~Finished(samples[g][i])
      PROVE  g \in pendings \/ \E k \in DOMAIN Queued : Queued[k] = g
  <2>1. gstate[g] \in GLive \/ gstate[g] = "recycled"
    <3>1. FateSound(g, i)
      BY <1>1 DEF SamplesInv, SampleInv
    <3>2. gstate[g] \in GLive \cup GFate
      BY <1>1 DEF IInv, TypeOK
    <3> QED BY <1>1, <3>1, <3>2 DEF FateSound
  <2>2. OneOwner
    BY <1>1 DEF IInv
  <2>3. CASE gstate[g] \in GLive
    BY <2>2, <2>3 DEF OneOwner
  <2>4. CASE gstate[g] = "recycled"
    <3>1. g \in {Queued[k] : k \in DOMAIN Queued}
      BY <2>2, <2>4 DEF OneOwner
    <3> QED BY <3>1
  <2> QED BY <2>1, <2>3, <2>4
<1>2. IInv /\ SamplesInv => UnfinishedRecycled
  BY <1>1 DEF UnfinishedRecycled
<1> QED BY <1>2, SamplesCorrect, PTL

\* In the data of a rollout the loss mask selects the tokens of that rollout, and the tag
\* of a recycled sample is the rollout of its first token, however often it was recycled
\* (arguments.py:435-438, sglang_rollout.py:246-248, 384-386).
THEOREM OffPolicyRecordedCorrect == Spec => []OffPolicyRecorded
<1>1. ASSUME IInv, SamplesInv PROVE OffPolicyRecorded
  <2>1. ASSUME PartialRollout, MaskOffpolicy, NEW g \in data, NEW i \in SampleIds
        PROVE  /\ samples[g][i].masked => Len(samples[g][i].loss_mask) = Len(samples[g][i].response)
               /\ \A k \in 1 .. Len(samples[g][i].response) :
                    (~samples[g][i].masked \/ samples[g][i].loss_mask[k] = 1)
                      <=> samples[g][i].response[k] = rollout_id
    <3>1. g \in Groups
      BY <1>1 DEF IInv, TypeOK
    <3>2. SampleInv(g, i)
      BY <1>1, <3>1 DEF SamplesInv
    <3>3. MaskSelects(samples[g][i], rollout_id) /\ Recorded(samples[g][i])
      BY <3>2 DEF SampleInv, FateSound
    <3> QED BY <2>1, <3>3 DEF MaskSelects, Recorded
  <2>2. ASSUME NEW k \in DOMAIN Queued, NEW i \in SampleIds, samples[Queued[k]][i].response # <<>>
        PROVE  samples[Queued[k]][i].start_rollout_id = samples[Queued[k]][i].response[1]
    <3>1. PICK g \in Groups : g = Queued[k] /\ gstate[g] = "recycled"
      BY <1>1 DEF IInv, OneOwner
    <3>2. SampleInv(g, i)
      BY <1>1, <3>1 DEF SamplesInv
    <3>3. Tagged(samples[g][i]) /\ Recorded(samples[g][i])
      BY <3>1, <3>2 DEF SampleInv, FateSound
    <3> QED BY <2>2, <3>1, <3>3 DEF Tagged, Recorded
  <2> QED BY <2>1, <2>2 DEF OffPolicyRecorded
<1> QED BY <1>1, SamplesCorrect, PTL

-----------------------------------------------------------------------------
(* RolloutGeneration implements RolloutContract.  The mapping reads the    *)
(* fate of every group off gstate; each step of the rollout is a Read, a   *)
(* GiveUp, a Deliver or a stutter of the contract.  Besides IInv this      *)
(* needs that data is exactly full when abort() is entered (DataFull).     *)


ContractStep == [Contract!ContractNext]_(Contract!contractVars)

\* The contract counts with its own instance of the standard module.
LEMMA SameCardinality ==
  ASSUME NEW S
  PROVE  Contract!Cardinality(S) = Cardinality(S)
BY DEF Cardinality, Contract!Cardinality

DataFull == pc = "drain" => Cardinality(data) = TargetDataSize

\* A step that moves live groups among live states changes nothing that the
\* contract sees.
LEMMA LiveStepStutters ==
  ASSUME IInv, UNCHANGED <<sample_group_index, rollout_id, pc>>, gstate' \in [Groups -> GLive \cup GFate],
         \A g \in Groups : gstate'[g] = gstate[g] \/ (gstate[g] \in GLive /\ gstate'[g] \in GLive)
  PROVE  ContractStep
<1>1. Groups' = Groups
  BY DEF Groups
<1>2. Trained' = Trained
  BY <1>1 DEF Trained, GLive
<1>3. Dropped' = Dropped
  BY <1>1 DEF Dropped, GLive
<1>4. Returned' = Returned
  BY DEF Returned
<1> QED BY <1>1, <1>2, <1>3, <1>4 DEF ContractStep, Contract!contractVars

\* The steps of the tasks (sglang_rollout.py:240-349) do not end a group.
LEMMA TaskStepStutters ==
  ASSUME IInv, NEW g \in Groups,
         \/ StartGroup(g) \/ GatherGroup(g) \/ ReceiveGroupReward(g)
         \/ \E i \in SampleIds : StartSample(g, i) \/ AcquirePermit(g, i)
                                 \/ ReceiveReply(g, i) \/ ReceiveReward(g, i)
  PROVE  ContractStep
<1>1. gstate \in [Groups -> GLive \cup GFate]
  BY DEF IInv, TypeOK
<1>2. CASE \E i \in SampleIds : StartSample(g, i) \/ AcquirePermit(g, i)
                                \/ ReceiveReply(g, i) \/ ReceiveReward(g, i)
  <2>1. UNCHANGED <<sample_group_index, rollout_id, pc, gstate>>
    BY <1>2 DEF StartSample, AcquirePermit, ReceiveReply, ReceiveReward, sourceVars, stateVars
  <2> QED BY <1>1, <2>1, LiveStepStutters
<1>3. CASE StartGroup(g) \/ GatherGroup(g) \/ ReceiveGroupReward(g)
  <2>1. UNCHANGED <<sample_group_index, rollout_id, pc>> /\ gstate[g] \in GLive
    BY <1>3 DEF StartGroup, GatherGroup, ReceiveGroupReward, sourceVars, stateVars, GLive
  <2>2. \E t \in GLive : gstate' = [gstate EXCEPT ![g] = t]
    BY <1>3 DEF StartGroup, GatherGroup, ReceiveGroupReward, Gathered, GLive
  <2>3. /\ gstate' \in [Groups -> GLive \cup GFate]
        /\ \A h \in Groups : gstate'[h] = gstate[h] \/ (gstate[h] \in GLive /\ gstate'[h] \in GLive)
    BY <1>1, <2>1, <2>2
  <2> QED BY <2>1, <2>3, LiveStepStutters
<1> QED BY <1>2, <1>3

-----------------------------------------------------------------------------
\* asyncio.wait's round fills data up to the target and not beyond it
\* (sglang_rollout.py:455-458).
LEMMA CollectDoneFills ==
  ASSUME IInv, CollectDone
  PROVE  DataFull'
<1>1. PICK kept \in SUBSET DonePendings : \E chosen \in SUBSET kept :
        /\ Cardinality(chosen) = Lesser(Cardinality(kept), TargetDataSize - Cardinality(data))
        /\ data' = data \cup chosen
        /\ pc' = LoopPc(data \cup chosen, remaining_batch_size')
  BY DEF CollectDone, Taken
<1>2. PICK chosen \in SUBSET kept :
        /\ Cardinality(chosen) = Lesser(Cardinality(kept), TargetDataSize - Cardinality(data))
        /\ data' = data \cup chosen
        /\ pc' = LoopPc(data \cup chosen, remaining_batch_size')
  BY <1>1
<1>3. /\ pc = "wait" /\ kept \subseteq pendings
      /\ pendings = {g \in Groups : gstate[g] \in GLive}
      /\ data = {g \in Groups : gstate[g] = "kept"}
      /\ \A g \in kept : gstate[g] = "done"
  BY DEF CollectDone, IInv, OneOwner, DonePendings
<1>4. /\ TargetDataSize \in Nat
      /\ IsFiniteSet(pendings) /\ IsFiniteSet(data)
      /\ Cardinality(data) \in Nat /\ Cardinality(data) < TargetDataSize
  BY <1>3, GenerationAssumption, FiniteParts DEF IInv, MainFlow
<1>5. IsFiniteSet(kept) /\ Cardinality(kept) \in Nat
  BY <1>3, <1>4, SubsetDifference
<1>6. IsFiniteSet(chosen) /\ Cardinality(chosen) \in Nat
  BY <1>5, SubsetDifference
<1>7. Cardinality(data \cup chosen) = Cardinality(data) + Cardinality(chosen)
  <2>1. data \cap chosen = {}
    BY <1>3
  <2> QED BY <1>4, <1>6, <2>1, DisjointUnion
<1>8. Cardinality(data \cup chosen) <= TargetDataSize
  BY <1>2, <1>4, <1>5, <1>6, <1>7 DEF Lesser
<1>9. pc' = "drain" => Cardinality(data \cup chosen) >= TargetDataSize
  BY <1>2 DEF LoopPc
<1>10. Cardinality(data \cup chosen) \in Nat
  BY <1>4, <1>6, <1>7
<1> QED BY <1>2, <1>4, <1>8, <1>9, <1>10 DEF DataFull

\* No other step enters abort(), and abort() leaves data alone.
LEMMA DataFullStep ==
  ASSUME IInv, DataFull, [Next]_vars
  PROVE  DataFull'
<1>1. CASE StartRollout
  <2>1. pc' = LoopPc({}, remaining_batch_size) /\ Cardinality({}) = 0
    BY <1>1, FS_EmptySet DEF StartRollout
  <2>2. ~(0 >= TargetDataSize)
    BY GenerationAssumption
  <2> QED BY <2>1, <2>2 DEF LoopPc, DataFull
<1>2. CASE SubmitTasks
  <2>1. pc' = LoopPc(data, remaining_batch_size') /\ data' = data
    BY <1>2 DEF SubmitTasks
  <2>2. Cardinality(data) < TargetDataSize /\ Cardinality(data) \in Nat
    BY <1>2, FiniteParts DEF SubmitTasks, IInv, MainFlow
  <2>3. ~(Cardinality(data) >= TargetDataSize)
    BY <2>2, GenerationAssumption
  <2> QED BY <2>1, <2>3 DEF LoopPc, DataFull
<1>3. CASE CollectDone
  BY <1>3, CollectDoneFills
<1>4. CASE FinishRollout
  BY <1>4 DEF FinishRollout, DataFull
<1>5. CASE UNCHANGED <<pc, data>>
  BY <1>5 DEF DataFull
<1>6. CASE \/ DrainPendings \/ Terminating \/ UNCHANGED vars
           \/ \E g \in Groups : StartGroup(g) \/ GatherGroup(g) \/ ReceiveGroupReward(g)
           \/ \E g \in Groups, i \in SampleIds : StartSample(g, i) \/ AcquirePermit(g, i)
                                                 \/ ReceiveReply(g, i) \/ ReceiveReward(g, i)
  <2>1. UNCHANGED <<pc, data>>
    BY <1>6, ZenonT(30) DEF DrainPendings, Terminating, StartGroup, GatherGroup, ReceiveGroupReward,
                StartSample, AcquirePermit, ReceiveReply, ReceiveReward, vars, stateVars
  <2> QED BY <1>5, <2>1
<1> QED BY <1>1, <1>2, <1>3, <1>4, <1>6 DEF Next

-----------------------------------------------------------------------------
\* submit_generate_tasks is a Read: the groups it resubmits were recycled, so
\* none of them was delivered or given up (sglang_rollout.py:430-433).
LEMMA SubmitTasksReads ==
  ASSUME IInv, SubmitTasks
  PROVE  ContractStep
<1> DEFINE got == HandedOut(OverSamplingBatchSize)
           after == Groups'
<1>1. /\ got \cap pendings = {} /\ got \cap data = {}
      /\ \A g \in after : g \notin got => g \in Groups
      /\ \A g \in got : g \in Groups => gstate[g] = "recycled"
  BY HandedOutIsFree
<1>2. gstate' = [g \in after |-> IF g \in got THEN "created" ELSE gstate[g]]
  BY DEF SubmitTasks
<1>3. Groups \subseteq after
  <2>1. /\ GetSamples(OverSamplingBatchSize) /\ OverSamplingBatchSize \in Nat /\ SourceTypeOK
    BY GenerationAssumption DEF SubmitTasks, IInv, TypeOK
  <2> QED BY <2>1, GetSamplesStep
<1>4. pc = "submit" /\ rollout_id' = rollout_id
  BY DEF SubmitTasks
<1>5. pc' # "idle"
  BY DEF SubmitTasks, LoopPc
<1> HIDE DEF got, after
<1>6. {g \in after : gstate'[g] = "delivered"} = {g \in Groups : gstate[g] = "delivered"}
  BY <1>1, <1>2, <1>3
<1>7. {g \in after : gstate'[g] \in {"filtered", "surplus", "discarded"}} =
        {g \in Groups : gstate[g] \in {"filtered", "surplus", "discarded"}}
  BY <1>1, <1>2, <1>3
<1>8. Trained' = Trained /\ Dropped' = Dropped
  BY <1>6, <1>7 DEF Trained, Dropped, after
<1>9. Returned' = Returned
  BY <1>4, <1>5 DEF Returned
<1> QED BY <1>3, <1>8, <1>9 DEF ContractStep, Contract!ContractNext, Contract!Read, after

\* A round of the main loop or of abort() gives finished groups up, or keeps or
\* recycles them (sglang_rollout.py:435-466, 373-393).
LEMMA RoundGivesUp ==
  ASSUME IInv, CollectDone \/ DrainPendings
  PROVE  ContractStep
<1>1. /\ Groups' = Groups /\ rollout_id' = rollout_id
      /\ pc # "idle" /\ pc' # "idle"
  BY DEF CollectDone, DrainPendings, LoopPc, sourceVars, Groups
<1>2. \A g \in DonePendings : g \in Groups /\ gstate[g] = "done"
  BY DEF IInv, TypeOK, DonePendings
<1>3. gstate \in [Groups -> GLive \cup GFate]
  BY DEF IInv, TypeOK
<1>4. \A g \in Groups :
        \/ gstate'[g] = gstate[g]
        \/ /\ gstate[g] = "done"
           /\ gstate'[g] \in {"kept", "surplus", "filtered", "recycled", "discarded"}
  <2>1. CASE CollectDone
    <3>1. PICK kept \in SUBSET DonePendings : \E chosen \in SUBSET kept :
            gstate' = [g \in Groups |-> IF g \in chosen THEN "kept"
                                        ELSE IF g \in kept THEN "surplus"
                                        ELSE IF g \in DonePendings \ kept THEN "filtered"
                                        ELSE gstate[g]]
      BY <2>1 DEF CollectDone
    <3> QED BY <1>2, <3>1
  <2>2. CASE DrainPendings
    BY <1>2, <2>2 DEF DrainPendings
  <2> QED BY <2>1, <2>2
<1>5. Trained' = Trained
  BY <1>1, <1>4 DEF Trained
<1>6. Dropped \subseteq Dropped' /\ Dropped' \subseteq Groups \ Trained
  BY <1>1, <1>4 DEF Trained, Dropped
<1>7. Returned' = Returned
  BY <1>1 DEF Returned
<1> QED BY <1>1, <1>5, <1>6, <1>7 DEF ContractStep, Contract!ContractNext, Contract!GiveUp

\* The end of a rollout delivers data: as many groups as asked for, none of which
\* was delivered before (sglang_rollout.py:470-487, 628-631).
LEMMA FinishRolloutDelivers ==
  ASSUME IInv, DataFull, FinishRollout
  PROVE  ContractStep
<1>1. /\ pc = "drain" /\ pc' = "idle" /\ Groups' = Groups /\ rollout_id' = rollout_id
      /\ gstate' = [g \in Groups |-> IF g \in data THEN "delivered" ELSE gstate[g]]
  BY DEF FinishRollout, AddSamples, Groups
<1>2. data = {g \in Groups : gstate[g] = "kept"} /\ rollout_id \in Nat
  BY <1>1 DEF IInv, OneOwner, MainFlow
<1>3. Trained' = Trained \cup data /\ Trained \cap data = {}
  BY <1>1, <1>2 DEF Trained
<1>4. Trained' \ Trained = data
  BY <1>3
<1>5. Cardinality(Trained' \ Trained) = TargetDataSize
  BY <1>1, <1>4 DEF DataFull
<1>6. Dropped' = Dropped
  BY <1>1, <1>2 DEF Dropped
<1>7. Trained' \subseteq Groups \ Dropped' /\ Dropped' \subseteq Groups
  BY <1>1, <1>2, <1>6 DEF Trained, Dropped
<1>8. Returned' = Returned + 1
  BY <1>1, <1>2 DEF Returned
<1>9. Trained \subseteq Trained' /\ Dropped \subseteq Dropped' /\ UNCHANGED Groups
  BY <1>1, <1>3, <1>6
<1>10. Contract!Deliver
  BY <1>5, <1>7, <1>8, <1>9, SameCardinality DEF Contract!Deliver
<1> QED BY <1>10 DEF ContractStep, Contract!ContractNext

\* A rollout that starts is not one that has returned.
LEMMA StartRolloutStutters ==
  ASSUME IInv, StartRollout
  PROVE  ContractStep
<1>1. /\ pc = "idle" /\ pc' # "idle" /\ rollout_id' = rollout_id + 1
      /\ UNCHANGED <<sample_group_index, gstate>>
  BY DEF StartRollout, LoopPc, sourceVars, taskVars
<1>2. Trained' = Trained /\ Dropped' = Dropped /\ Groups' = Groups
  BY <1>1 DEF Trained, Dropped, Groups
<1>3. Returned' = Returned
  <2>1. rollout_id \in Int
    BY DEF IInv, TypeOK, NoRollout
  <2> QED BY <1>1, <2>1 DEF Returned
<1> QED BY <1>2, <1>3 DEF ContractStep, Contract!contractVars

\* Every step of the rollout is a step of the contract.
LEMMA NextContract ==
  ASSUME IInv, DataFull, [Next]_vars
  PROVE  ContractStep
<1>1. CASE Terminating \/ UNCHANGED vars
  <2>1. UNCHANGED <<sample_group_index, rollout_id, pc, gstate>>
    BY <1>1 DEF Terminating, vars, sourceVars, stateVars, taskVars
  <2>2. gstate \in [Groups -> GLive \cup GFate]
    BY DEF IInv, TypeOK
  <2> QED BY <2>1, <2>2, LiveStepStutters
<1>2. CASE \/ \E g \in Groups : StartGroup(g) \/ GatherGroup(g) \/ ReceiveGroupReward(g)
           \/ \E g \in Groups, i \in SampleIds : StartSample(g, i) \/ AcquirePermit(g, i)
                                                 \/ ReceiveReply(g, i) \/ ReceiveReward(g, i)
  BY <1>2, TaskStepStutters
<1> QED BY <1>1, <1>2, StartRolloutStutters, SubmitTasksReads, RoundGivesUp,
           FinishRolloutDelivers DEF Next

-----------------------------------------------------------------------------
\* With abort() entered, the batch is exactly full, for every target and every
\* over-sampling (the assertion of sglang_rollout.py:470).
THEOREM DataFullCorrect == Spec => []DataFull
<1>1. Init => DataFull
  BY DEF Init, DataFull
<1>2. IInv /\ DataFull /\ [Next]_vars => DataFull'
  BY DataFullStep
<1> QED BY <1>1, <1>2, Inductive, PTL DEF Spec

\* generate_rollout implements the contract of a rollout function: full batches,
\* no group delivered twice, no group back from the dead, for all values of the
\* constants (sglang_rollout.py:396-487, 609-631).
THEOREM ContractKept == Spec => KeepsContract
<1>1. Init => Contract!ContractInit
  <2> SUFFICES ASSUME Init PROVE Contract!ContractInit
    OBVIOUS
  <2>1. Groups = {}
    BY DEF Init, SourceInit, Groups
  <2>2. Returned = 0
    BY DEF Init, NoRollout, Returned
  <2> QED BY <2>1, <2>2 DEF Contract!ContractInit, Trained, Dropped
<1>2. IInv /\ DataFull /\ [Next]_vars => [Contract!ContractNext]_(Contract!contractVars)
  BY NextContract DEF ContractStep
<1> QED BY <1>1, <1>2, Inductive, DataFullCorrect, PTL
        DEF Spec, KeepsContract, Contract!ContractSpec
=============================================================================
