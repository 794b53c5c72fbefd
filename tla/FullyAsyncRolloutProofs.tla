---------------------- MODULE FullyAsyncRolloutProofs ----------------------
(***************************************************************************)
(* Proofs about FullyAsyncRollout, for every value of its constants.  The  *)
(* inductive invariant IInv is TypeOK and OneOwner, which a step of one    *)
(* thread keeps whatever the other did, with what the collector and the    *)
(* callbacks leave behind them (CollectorFlow, EndedWithOutcome).          *)
(***************************************************************************)
EXTENDS FullyAsyncRollout, RolloutDataSourceProofs

\* A sequence as the community modules see it and as the queue lemmas do.
LEMMA QueueIsSet ==
  ASSUME NEW S, NEW s \in Seq(S)
  PROVE  /\ IsInjective(s) <=> NoRepeat(s)
         /\ ToSet(s) = Members(s)
<1>1. DOMAIN s = 1 .. Len(s)
  BY LenProperties
<1> QED BY <1>1 DEF IsInjective, NoRepeat, ToSet, Members

\* As many elements as asked for come first in a finite set of numbers.
LEMMA FirstOnes ==
  ASSUME NEW S \in SUBSET Int, IsFiniteSet(S), NEW n \in Nat, n <= Cardinality(S)
  PROVE  LET first == {g \in S : Cardinality({h \in S : h < g}) < n}
         IN  Cardinality(first) = n
<1> DEFINE below(g) == {h \in S : h < g}
           rank == [g \in S |-> Cardinality(below(g))]
           size == Cardinality(S)
           first == {g \in S : Cardinality(below(g)) < n}
<1>1. size \in Nat
  BY FS_CardinalityType
<1>2. ASSUME NEW g \in S
      PROVE  IsFiniteSet(below(g)) /\ Cardinality(below(g)) \in Nat
  BY SubsetDifference
<1>3. ASSUME NEW g \in S, NEW h \in S, g < h
      PROVE  Cardinality(below(g)) < Cardinality(below(h))
  <2>1. below(g) \subseteq below(h) \ {g} /\ g \in below(h)
    <3>1. \A x \in S : x < g => x < h /\ x # g
      BY <1>3
    <3> QED BY <1>3, <3>1, Zenon
  <2>2. /\ IsFiniteSet(below(h) \ {g})
        /\ Cardinality(below(h) \ {g}) = Cardinality(below(h)) - 1
    BY <1>2, <2>1, FS_RemoveElement
  <2>3. Cardinality(below(g)) <= Cardinality(below(h) \ {g})
    BY <2>1, <2>2, FS_Subset
  <2> HIDE DEF below
  <2> QED BY <1>2, <2>2, <2>3
<1>4. ASSUME NEW g \in S
      PROVE  Cardinality(below(g)) < size
  <2>1. below(g) \subseteq S \ {g}
    OBVIOUS
  <2>2. IsFiniteSet(S \ {g}) /\ Cardinality(S \ {g}) = size - 1
    BY FS_RemoveElement
  <2>3. Cardinality(below(g)) <= Cardinality(S \ {g})
    BY <2>1, <2>2, FS_Subset
  <2> HIDE DEF below
  <2> QED BY <1>1, <1>2, <2>2, <2>3
<1> HIDE DEF below
<1>5. rank \in [S -> 0 .. size - 1]
  <2> SUFFICES ASSUME NEW g \in S PROVE Cardinality(below(g)) \in 0 .. size - 1
    OBVIOUS
  <2> HIDE DEF size
  <2> QED BY <1>1, <1>2, <1>4
<1>6. ASSUME NEW g \in S, NEW h \in S, rank[g] = rank[h]
      PROVE  g = h
  <2>1. ~(g < h) /\ ~(h < g)
    BY <1>2, <1>3, <1>6
  <2> QED BY <2>1
<1>7. rank \in Injection(S, 0 .. size - 1)
  <2> HIDE DEF rank, size
  <2> QED BY <1>5, <1>6 DEF Injection, IsInjective
<1>8. rank \in Surjection(S, 0 .. size - 1)
  <2>1. IsFiniteSet(0 .. size - 1) /\ Cardinality(0 .. size - 1) = size
    <3> HIDE DEF size
    <3> QED BY <1>1, FS_Interval
  <2> HIDE DEF rank
  <2> QED BY <1>7, <2>1, FS_Injection
<1> DEFINE pick == [g \in first |-> rank[g]]
<1>9. n <= size
  OBVIOUS
<1> HIDE DEF size
<1>10. pick \in Surjection(first, 0 .. n - 1)
  <2>1. \A g \in first : rank[g] \in 0 .. n - 1
    BY <1>2
  <2>2. ASSUME NEW r \in 0 .. n - 1
        PROVE  \E g \in first : pick[g] = r
    <3>1. r \in 0 .. size - 1
      BY <1>1, <1>9
    <3>2. PICK g \in S : rank[g] = r
      <4> HIDE DEF rank
      <4> QED BY <1>8, <3>1 DEF Surjection
    <3>3. g \in first
      BY <3>2
    <3> QED BY <3>2, <3>3
  <2>3. pick \in [first -> 0 .. n - 1]
    BY <2>1
  <2> HIDE DEF pick, first
  <2> QED BY <2>2, <2>3 DEF Surjection
<1>11. \A g \in first, h \in first : pick[g] = pick[h] => g = h
  BY <1>6
<1>12. IsFiniteSet(first)
  BY FS_Subset
<1>13. pick \in Injection(first, 0 .. n - 1)
  <2> HIDE DEF pick, first
  <2> QED BY <1>10, <1>11 DEF Surjection, Injection, IsInjective
<1>14. Cardinality(first) = Cardinality(0 .. n - 1)
  <2> HIDE DEF pick, first
  <2> QED BY <1>10, <1>12, <1>13, FS_Surjection
<1>15. Cardinality(0 .. n - 1) = n
  BY FS_Interval
<1> QED BY <1>14, <1>15 DEF below

-----------------------------------------------------------------------------
(***************************************************************************)
(* The inductive invariant.                                                *)
(***************************************************************************)

\* What the two threads leave behind when one of them is not running.
CollectorFlow ==
  /\ collector = "idle" => collected = {}
  /\ collector # "idle" => rollout_id \in Nat
  /\ worker = "off" => active_tasks = Running

\* A callback finds the result or the exception of its task.
EndedWithOutcome == \A g \in Groups : gstate[g] = "done" => outcome[g] # "none"

IInv ==
  /\ TypeOK
  /\ OneOwner
  /\ CollectorFlow
  /\ EndedWithOutcome

\* The buffer and the queue as sets of groups without repetition.
LEMMA OwnersOfQueues ==
  ASSUME IInv
  PROVE  /\ buffer \in Seq(Groups) /\ NoRepeat(buffer)
         /\ Members(buffer) = {g \in Groups : gstate[g] = "recycled"}
         /\ output_queue \in Seq(Groups) /\ NoRepeat(output_queue)
         /\ Members(output_queue) = {g \in Groups : gstate[g] = "queued"}
<1>1. buffer \in Seq(Groups) /\ output_queue \in Seq(Groups)
  BY DEF IInv, TypeOK, SourceTypeOK
<1>2. /\ IsInjective(buffer) <=> NoRepeat(buffer)
      /\ ToSet(buffer) = Members(buffer)
  BY <1>1, QueueIsSet
<1>3. /\ IsInjective(output_queue) <=> NoRepeat(output_queue)
      /\ ToSet(output_queue) = Members(output_queue)
  BY <1>1, QueueIsSet
<1> QED BY <1>1, <1>2, <1>3 DEF IInv, OneOwner

\* A step of the loop that moves group g on, leaving both queues alone.
LEMMA GroupMoves ==
  ASSUME IInv, NEW g \in Groups, LoopFree,
         UNCHANGED <<sourceVars, rollout_id, collector, collected, output_queue,
                     active_tasks, weight_version>>,
         worker' \in {"sleep", "blocked"},
         gstate[g] \in {"created", "posted", "done"},
         NEW t \in {"posted", "done", "putting", "crashed"},
         gstate' = [gstate EXCEPT ![g] = t],
         t = "posted" => gstate[g] = "created",
         outcome' \in [Groups -> {"none", "completed", "aborted", "crashed"}],
         \A h \in Groups : h # g => outcome'[h] = outcome[h],
         t = "done" => outcome'[g] # "none",
         posted_at' \in [Groups -> Nat],
         response' \in [Groups -> Seq(Nat)],
         queued_in' \in [Groups -> Nat \cup {NoRollout}]
  PROVE  IInv'
<1>1. /\ Groups' = Groups
      /\ UNCHANGED <<sample_offset, epoch_id, sample_group_index, prompt_of, buffer>>
  BY DEF sourceVars, Groups
<1>2. /\ gstate \in [Groups -> GState]
      /\ worker = "sleep"
  BY DEF IInv, TypeOK, LoopFree
<1>3. /\ gstate' \in [Groups -> GState]
      /\ gstate'[g] = t
      /\ \A h \in Groups : h # g => gstate'[h] = gstate[h]
  BY <1>2 DEF GState
<1>4. TypeOK'
  BY <1>1, <1>3 DEF IInv, TypeOK, SourceTypeOK, Prompt
<1>5. OneOwner'
  <2>1. /\ {h \in Groups : gstate'[h] = "recycled"} = {h \in Groups : gstate[h] = "recycled"}
        /\ {h \in Groups : gstate'[h] = "queued"} = {h \in Groups : gstate[h] = "queued"}
        /\ {h \in Groups : gstate'[h] = "collected"} = {h \in Groups : gstate[h] = "collected"}
    BY <1>3
  <2>2. Running' \subseteq Running
    BY <1>1, <1>3 DEF Running
  <2> QED BY <1>1, <2>1, <2>2 DEF IInv, OneOwner
<1>6. CollectorFlow' /\ EndedWithOutcome'
  BY <1>1, <1>3 DEF IInv, CollectorFlow, EndedWithOutcome
<1> QED BY <1>4, <1>5, <1>6 DEF IInv

\* The task of a group posts its request, and ends (fully_async_rollout.py:173-
\* 176, sglang_rollout.py:305-349).
LEMMA TaskStep ==
  ASSUME IInv, NEW g \in Groups, Post(g) \/ EndTask(g) \/ DropCrashed(g)
  PROVE  IInv'
<1>1. /\ outcome \in [Groups -> {"none", "completed", "aborted", "crashed"}]
      /\ posted_at \in [Groups -> Nat] /\ response \in [Groups -> Seq(Nat)]
      /\ queued_in \in [Groups -> Nat \cup {NoRollout}]
      /\ weight_version \in Nat
  BY DEF IInv, TypeOK
<1>2. LoopFree /\ UNCHANGED <<sourceVars, threadVars>>
  BY DEF Post, EndTask, DropCrashed
<1>3. /\ UNCHANGED <<sourceVars, rollout_id, collector, collected, output_queue,
                     active_tasks, weight_version>>
      /\ worker' \in {"sleep", "blocked"}
  BY <1>2 DEF threadVars, LoopFree
<1>4. CASE Post(g)
  BY <1>1, <1>2, <1>3, <1>4, GroupMoves DEF Post
<1>5. CASE EndTask(g)
  <2>1. PICK how \in {"completed", "aborted", "crashed"}, extended \in BOOLEAN :
          /\ outcome' = [outcome EXCEPT ![g] = how]
          /\ response' = IF extended
                         THEN [response EXCEPT ![g] = Append(@, posted_at[g])]
                         ELSE response
    BY <1>5 DEF EndTask
  <2>2. Append(response[g], posted_at[g]) \in Seq(Nat)
    BY <1>1
  <2>3. response' \in [Groups -> Seq(Nat)]
    BY <1>1, <2>1, <2>2
  <2>4. /\ outcome' \in [Groups -> {"none", "completed", "aborted", "crashed"}]
        /\ \A h \in Groups : h # g => outcome'[h] = outcome[h]
        /\ outcome'[g] # "none"
    BY <1>1, <2>1
  <2>5. /\ gstate[g] = "posted" /\ gstate' = [gstate EXCEPT ![g] = "done"]
        /\ UNCHANGED <<posted_at, queued_in>>
    BY <1>5 DEF EndTask
  <2> QED BY <1>1, <1>2, <1>3, <2>3, <2>4, <2>5, GroupMoves
<1>6. CASE DropCrashed(g)
  BY <1>1, <1>2, <1>3, <1>6, GroupMoves DEF DropCrashed
<1> QED BY <1>4, <1>5, <1>6

\* A group that is put on the queue was in the hands of its callback only.
LEMMA EnqueueStep ==
  ASSUME IInv, NEW g \in Groups, gstate[g] \in {"done", "putting"}, Enqueue(g),
         worker \in {"sleep", "blocked"}, worker' \in {"sleep", "blocked"},
         UNCHANGED <<sourceVars, rollout_id, collector, collected, active_tasks,
                     weight_version, outcome, posted_at, response>>
  PROVE  IInv'
<1>1. /\ Groups' = Groups
      /\ UNCHANGED <<sample_offset, epoch_id, sample_group_index, prompt_of, buffer>>
  BY DEF sourceVars, Groups
<1>2. /\ gstate' \in [Groups -> GState] /\ gstate'[g] = "queued"
      /\ \A h \in Groups : h # g => gstate'[h] = gstate[h]
      /\ queued_in' \in [Groups -> Nat \cup {NoRollout}]
  BY DEF IInv, TypeOK, Enqueue, GState
<1>3. /\ output_queue \in Seq(Groups) /\ NoRepeat(output_queue)
      /\ Members(output_queue) = {h \in Groups : gstate[h] = "queued"}
  BY OwnersOfQueues
<1>4. /\ Append(output_queue, g) \in Seq(Groups) /\ NoRepeat(Append(output_queue, g))
      /\ Members(Append(output_queue, g)) = Members(output_queue) \cup {g}
  <2>1. g \notin Members(output_queue)
    BY <1>3
  <2> QED BY <1>3, <2>1, QueueAppend
<1>5. /\ output_queue' \in Seq(Groups)
      /\ IsInjective(output_queue')
      /\ ToSet(output_queue') = Members(output_queue) \cup {g}
  <2>1. output_queue' = Append(output_queue, g)
    BY DEF Enqueue
  <2>2. /\ IsInjective(Append(output_queue, g)) <=> NoRepeat(Append(output_queue, g))
        /\ ToSet(Append(output_queue, g)) = Members(Append(output_queue, g))
    BY <1>4, QueueIsSet
  <2> QED BY <1>4, <2>1, <2>2
<1>6. TypeOK'
  BY <1>1, <1>2, <1>5 DEF IInv, TypeOK, SourceTypeOK, Prompt
<1>7. OneOwner'
  <2>1. /\ {h \in Groups : gstate'[h] = "recycled"} = {h \in Groups : gstate[h] = "recycled"}
        /\ {h \in Groups : gstate'[h] = "queued"}
             = {h \in Groups : gstate[h] = "queued"} \cup {g}
        /\ {h \in Groups : gstate'[h] = "collected"} = {h \in Groups : gstate[h] = "collected"}
    BY <1>2
  <2>2. Running' \subseteq Running
    BY <1>1, <1>2 DEF Running
  <2> QED BY <1>1, <1>3, <1>5, <2>1, <2>2 DEF IInv, OneOwner
<1>8. CollectorFlow' /\ EndedWithOutcome'
  BY <1>1, <1>2 DEF IInv, CollectorFlow, EndedWithOutcome
<1> QED BY <1>6, <1>7, <1>8 DEF IInv

\* The callback of a finished group queues it, or blocks the loop with it
\* (fully_async_rollout.py:139-153).
LEMMA ShipStep ==
  ASSUME IInv, NEW g \in Groups, Ship(g) \/ Unblock(g)
  PROVE  IInv'
<1>1. /\ UNCHANGED <<sourceVars, rollout_id, collector, collected, active_tasks,
                     weight_version, outcome, posted_at, response>>
      /\ rollout_id \in Nat \cup {NoRollout}
      /\ outcome \in [Groups -> {"none", "completed", "aborted", "crashed"}]
      /\ posted_at \in [Groups -> Nat] /\ response \in [Groups -> Seq(Nat)]
      /\ queued_in \in [Groups -> Nat \cup {NoRollout}]
  BY DEF Ship, Unblock, IInv, TypeOK
<1>2. CASE Ship(g) /\ Room
  BY <1>1, <1>2, EnqueueStep DEF Ship, LoopFree
<1>3. CASE Ship(g) /\ ~Room
  <2>1. /\ LoopFree /\ gstate[g] = "done" /\ worker' = "blocked"
        /\ gstate' = [gstate EXCEPT ![g] = "putting"]
        /\ UNCHANGED <<output_queue, queued_in>>
    BY <1>3 DEF Ship
  <2> QED BY <1>1, <2>1, GroupMoves
<1>4. CASE Unblock(g)
  BY <1>1, <1>4, EnqueueStep DEF Unblock
<1> QED BY <1>2, <1>3, <1>4

\* An aborted group goes back to the buffer, which does not hold it
\* (fully_async_rollout.py:128-138).
LEMMA RequeueStep ==
  ASSUME IInv, NEW g \in Groups, Requeue(g)
  PROVE  IInv'
<1>1. /\ gstate[g] = "done" /\ gstate' = [gstate EXCEPT ![g] = "recycled"]
      /\ buffer' = buffer \o <<g>>
      /\ UNCHANGED <<sample_offset, epoch_id, sample_group_index, prompt_of>>
      /\ UNCHANGED <<rollout_id, collector, collected, output_queue, worker, active_tasks,
                     weight_version, outcome, posted_at, response, queued_in>>
      /\ Groups' = Groups
  BY DEF Requeue, AddSamples, threadVars, Groups
<1>2. /\ gstate' \in [Groups -> GState] /\ gstate'[g] = "recycled"
      /\ \A h \in Groups : h # g => gstate'[h] = gstate[h]
  BY <1>1 DEF IInv, TypeOK, GState
<1>3. /\ buffer \in Seq(Groups) /\ NoRepeat(buffer)
      /\ Members(buffer) = {h \in Groups : gstate[h] = "recycled"}
  BY OwnersOfQueues
<1>4. /\ Append(buffer, g) \in Seq(Groups) /\ NoRepeat(Append(buffer, g))
      /\ Members(Append(buffer, g)) = Members(buffer) \cup {g}
  <2>1. g \notin Members(buffer)
    BY <1>1, <1>3
  <2> QED BY <1>3, <2>1, QueueAppend
<1>5. /\ buffer' \in Seq(Groups)
      /\ IsInjective(buffer')
      /\ ToSet(buffer') = Members(buffer) \cup {g}
  <2>1. buffer' = Append(buffer, g)
    BY <1>1, <1>3, AppendIsConcat
  <2>2. /\ IsInjective(Append(buffer, g)) <=> NoRepeat(Append(buffer, g))
        /\ ToSet(Append(buffer, g)) = Members(Append(buffer, g))
    BY <1>4, QueueIsSet
  <2> QED BY <1>4, <2>1, <2>2
<1>6. TypeOK'
  BY <1>1, <1>2, <1>5 DEF IInv, TypeOK, SourceTypeOK, Prompt
<1>7. OneOwner'
  <2>1. /\ {h \in Groups : gstate'[h] = "recycled"}
             = {h \in Groups : gstate[h] = "recycled"} \cup {g}
        /\ {h \in Groups : gstate'[h] = "queued"} = {h \in Groups : gstate[h] = "queued"}
        /\ {h \in Groups : gstate'[h] = "collected"} = {h \in Groups : gstate[h] = "collected"}
    BY <1>1, <1>2
  <2>2. Running' = Running
    BY <1>1, <1>2 DEF Running
  <2> QED BY <1>1, <1>3, <1>5, <2>1, <2>2 DEF IInv, OneOwner
<1>8. CollectorFlow' /\ EndedWithOutcome'
  <2>1. Running' = Running
    BY <1>1, <1>2 DEF Running
  <2> QED BY <1>1, <1>2, <2>1 DEF IInv, CollectorFlow, EndedWithOutcome
<1> QED BY <1>6, <1>7, <1>8 DEF IInv

\* The worker submits a group that is new or that the buffer gave away, and that
\* has no task (fully_async_rollout.py:169-191).
LEMMA TopUpStep ==
  ASSUME IInv, TopUp
  PROVE  IInv'
<1> DEFINE got   == HandedOut(1)
           after == Groups'
           taken == buffer'
<1>1. /\ SourceTypeOK /\ GetSamples(1) /\ NoRepeat(buffer)
      /\ Members(buffer) = {g \in Groups : gstate[g] = "recycled"}
      /\ worker = "top_up" /\ active_tasks = Running
  BY OwnersOfQueues DEF IInv, TypeOK, OneOwner, TopUp
<1>2. SourceTypeOK' /\ Groups \subseteq after /\ got \subseteq after
  BY <1>1, GetSamplesStep
<1>3. /\ NoRepeat(taken) /\ Members(taken) = Members(buffer) \ got
      /\ \A g \in got : g \in Members(buffer) \/ g \notin Groups
      /\ \A g \in after : g \in Groups \/ g \in got
  BY <1>1, BufferTaken
<1>4. /\ active_tasks' = active_tasks \cup got
      /\ gstate' = [g \in after |-> IF g \in got THEN "created" ELSE gstate[g]]
      /\ outcome' = [g \in after |-> IF g \in got THEN "none" ELSE outcome[g]]
      /\ posted_at' = [g \in after |-> IF g \in got THEN 0 ELSE posted_at[g]]
      /\ response' = [g \in after |-> IF g \in Groups THEN response[g] ELSE <<>>]
      /\ queued_in' = [g \in after |-> IF g \in got THEN NoRollout ELSE queued_in[g]]
      /\ worker' \in {"top_up", "sleep"}
      /\ UNCHANGED <<rollout_id, collector, collected, output_queue, weight_version>>
  BY DEF TopUp
<1>5. /\ gstate \in [Groups -> GState]
      /\ outcome \in [Groups -> {"none", "completed", "aborted", "crashed"}]
      /\ posted_at \in [Groups -> Nat] /\ response \in [Groups -> Seq(Nat)]
      /\ queued_in \in [Groups -> Nat \cup {NoRollout}]
      /\ output_queue \in Seq(Groups) /\ collected \subseteq Groups
      /\ active_tasks \subseteq Groups
      /\ rollout_id \in Nat \cup {NoRollout} /\ weight_version \in Nat
      /\ collector \in {"idle", "drain", "failed"}
  BY DEF IInv, TypeOK
<1>6. /\ taken \in Seq(after)
      /\ IsInjective(taken) /\ ToSet(taken) = Members(buffer) \ got
  <2>1. taken \in Seq(after)
    BY <1>2 DEF SourceTypeOK
  <2> HIDE DEF taken, got, after
  <2>2. (IsInjective(taken) <=> NoRepeat(taken)) /\ ToSet(taken) = Members(taken)
    BY <2>1, QueueIsSet
  <2> QED BY <1>3, <2>1, <2>2
<1> HIDE DEF got, after, taken
<1>7. \A g \in got : g \in Groups => gstate[g] = "recycled"
  BY <1>1, <1>3
<1>8. TypeOK'
  <2>1. gstate' \in [after -> GState]
    BY <1>3, <1>4, <1>5 DEF GState
  <2>2. outcome' \in [after -> {"none", "completed", "aborted", "crashed"}]
    BY <1>3, <1>4, <1>5
  <2>3. posted_at' \in [after -> Nat] /\ response' \in [after -> Seq(Nat)]
    BY <1>3, <1>4, <1>5
  <2>4. queued_in' \in [after -> Nat \cup {NoRollout}]
    BY <1>3, <1>4, <1>5
  <2>5. /\ output_queue' \in Seq(after) /\ collected' \in SUBSET after
        /\ active_tasks' \in SUBSET after
    BY <1>2, <1>4, <1>5, SeqMonotonic
  <2> QED BY <1>2, <1>4, <1>5, <2>1, <2>2, <2>3, <2>4, <2>5 DEF TypeOK, after
<1>9. {g \in after : gstate'[g] \in {"created", "posted"}} = Running \cup got
  BY <1>2, <1>3, <1>4 DEF Running
<1>10. OneOwner'
  <2>1. {g \in after : gstate'[g] = "recycled"} = Members(buffer) \ got
    BY <1>1, <1>2, <1>3, <1>4
  <2>2. {g \in after : gstate'[g] = "queued"} = {g \in Groups : gstate[g] = "queued"}
    BY <1>2, <1>3, <1>4, <1>7
  <2>3. {g \in after : gstate'[g] = "collected"} = {g \in Groups : gstate[g] = "collected"}
    BY <1>2, <1>3, <1>4, <1>7
  <2> QED BY <1>1, <1>4, <1>6, <1>9, <2>1, <2>2, <2>3
          DEF IInv, OneOwner, Running, after, taken
<1>11. CollectorFlow'
  BY <1>4 DEF IInv, CollectorFlow
<1>12. EndedWithOutcome'
  BY <1>3, <1>4 DEF IInv, EndedWithOutcome, after
<1> QED BY <1>8, <1>10, <1>11, <1>12 DEF IInv

\* get_completed_groups moves the oldest group of the queue to the collector
\* (fully_async_rollout.py:101-108, 214-219).
LEMMA DrainOneStep ==
  ASSUME IInv, DrainOne
  PROVE  IInv'
<1> DEFINE g == Head(output_queue)
<1>1. /\ output_queue \in Seq(Groups) /\ output_queue # <<>> /\ NoRepeat(output_queue)
      /\ Members(output_queue) = {h \in Groups : gstate[h] = "queued"}
  BY OwnersOfQueues DEF DrainOne, MoreToDrain
<1>2. /\ g \in Groups /\ g \in Members(output_queue)
      /\ Tail(output_queue) \in Seq(Groups) /\ NoRepeat(Tail(output_queue))
      /\ Members(Tail(output_queue)) = Members(output_queue) \ {g}
  BY <1>1, QueueHead
<1>3. /\ output_queue' \in Seq(Groups)
      /\ IsInjective(output_queue') /\ ToSet(output_queue') = Members(output_queue) \ {g}
  <2>1. output_queue' = Tail(output_queue)
    BY DEF DrainOne
  <2>2. /\ IsInjective(Tail(output_queue)) <=> NoRepeat(Tail(output_queue))
        /\ ToSet(Tail(output_queue)) = Members(Tail(output_queue))
    BY <1>2, QueueIsSet
  <2> QED BY <1>2, <2>1, <2>2
<1>4. /\ gstate[g] = "queued" /\ collector = "drain"
      /\ gstate' = [gstate EXCEPT ![g] = "collected"]
      /\ collected' = collected \cup {g}
      /\ UNCHANGED <<sample_offset, epoch_id, sample_group_index, prompt_of, buffer>>
      /\ UNCHANGED <<rollout_id, collector, worker, active_tasks, weight_version,
                     outcome, posted_at, response, queued_in>>
      /\ Groups' = Groups
  BY <1>1, <1>2 DEF DrainOne, sourceVars, Groups
<1> HIDE DEF g
<1>5. /\ gstate' \in [Groups -> GState] /\ gstate'[g] = "collected"
      /\ \A h \in Groups : h # g => gstate'[h] = gstate[h]
  BY <1>2, <1>4 DEF IInv, TypeOK, GState
<1>6. TypeOK'
  BY <1>2, <1>3, <1>4, <1>5 DEF IInv, TypeOK, SourceTypeOK, Prompt
<1>7. Running' = Running
  BY <1>2, <1>4, <1>5 DEF Running
<1>8. OneOwner'
  <2>1. /\ {h \in Groups : gstate'[h] = "recycled"} = {h \in Groups : gstate[h] = "recycled"}
        /\ {h \in Groups : gstate'[h] = "queued"}
             = {h \in Groups : gstate[h] = "queued"} \ {g}
        /\ {h \in Groups : gstate'[h] = "collected"}
             = {h \in Groups : gstate[h] = "collected"} \cup {g}
    BY <1>2, <1>4, <1>5
  <2> QED BY <1>1, <1>3, <1>4, <1>7, <2>1 DEF IInv, OneOwner
<1>9. CollectorFlow' /\ EndedWithOutcome'
  BY <1>2, <1>4, <1>5, <1>7 DEF IInv, CollectorFlow, EndedWithOutcome
<1> QED BY <1>6, <1>8, <1>9 DEF IInv

\* A rollout that ends leaves the collector empty, and one that raises leaves
\* everything as it was (fully_async_rollout.py:232-248).
LEMMA FinishRolloutStep ==
  ASSUME IInv, FinishRollout
  PROVE  IInv'
<1>1. /\ UNCHANGED <<sample_offset, epoch_id, sample_group_index, prompt_of, buffer>>
      /\ UNCHANGED <<rollout_id, output_queue, worker, active_tasks, weight_version>>
      /\ Groups' = Groups /\ collector = "drain"
  BY DEF FinishRollout, sourceVars, Groups
<1>2. CASE collector' = "failed" /\ UNCHANGED <<collected, groupVars>>
  <2>1. UNCHANGED <<collected, gstate, outcome, posted_at, response, queued_in>>
    BY <1>2 DEF groupVars
  <2>2. Running' = Running
    BY <1>1, <2>1 DEF Running
  <2>3. TypeOK'
    BY <1>1, <1>2, <2>1 DEF IInv, TypeOK, SourceTypeOK, Prompt
  <2>4. OneOwner' /\ CollectorFlow' /\ EndedWithOutcome'
    BY <1>1, <1>2, <2>1, <2>2 DEF IInv, OneOwner, CollectorFlow, EndedWithOutcome
  <2> QED BY <2>3, <2>4 DEF IInv
<1>3. CASE HandOver
  <2>1. /\ collector' = "idle" /\ collected' = {}
        /\ gstate' = [g \in Groups |-> IF g \in Out THEN "delivered"
                                 ELSE IF g \in collected THEN "surplus" ELSE gstate[g]]
        /\ outcome' = [g \in Groups |-> IF g \in collected THEN "none" ELSE outcome[g]]
        /\ posted_at' = [g \in Groups |-> IF g \in collected THEN 0 ELSE posted_at[g]]
        /\ response' = [g \in Groups |-> IF g \in collected THEN <<>> ELSE response[g]]
        /\ queued_in' = [g \in Groups |-> IF g \in collected THEN NoRollout ELSE queued_in[g]]
    BY <1>3 DEF HandOver
  <2>2. Out \subseteq collected /\ collected = {g \in Groups : gstate[g] = "collected"}
    BY DEF Out, IInv, OneOwner
  <2>3. ASSUME NEW g \in Groups
        PROVE  IF g \in collected THEN gstate'[g] \in {"delivered", "surplus"}
                                  ELSE gstate'[g] = gstate[g]
    BY <2>1, <2>2
  <2>4. gstate' \in [Groups -> GState]
    BY <2>1, <2>2 DEF IInv, TypeOK, GState
  <2>5. TypeOK'
    <3>1. outcome' \in [Groups -> {"none", "completed", "aborted", "crashed"}]
      BY <2>1 DEF IInv, TypeOK
    <3>2. posted_at' \in [Groups -> Nat] /\ response' \in [Groups -> Seq(Nat)]
      BY <2>1 DEF IInv, TypeOK
    <3>3. queued_in' \in [Groups -> Nat \cup {NoRollout}]
      BY <2>1 DEF IInv, TypeOK
    <3> QED BY <1>1, <2>1, <2>4, <3>1, <3>2, <3>3 DEF IInv, TypeOK, SourceTypeOK, Prompt
  <2>6. Running' = Running
    BY <1>1, <2>2, <2>3 DEF Running
  <2>7. OneOwner'
    <3>1. /\ {g \in Groups : gstate'[g] = "recycled"} = {g \in Groups : gstate[g] = "recycled"}
          /\ {g \in Groups : gstate'[g] = "queued"} = {g \in Groups : gstate[g] = "queued"}
          /\ {g \in Groups : gstate'[g] = "collected"} = {}
      BY <2>2, <2>3
    <3> QED BY <1>1, <2>1, <2>6, <3>1 DEF IInv, OneOwner
  <2>8. CollectorFlow'
    BY <1>1, <2>1, <2>6 DEF IInv, CollectorFlow
  <2>9. EndedWithOutcome'
    BY <1>1, <2>1, <2>3, <2>2 DEF IInv, EndedWithOutcome
  <2> QED BY <2>5, <2>7, <2>8, <2>9 DEF IInv
<1> QED BY <1>2, <1>3 DEF FinishRollout

\* The other steps of the two threads leave the groups where they are
\* (fully_async_rollout.py:169-175, 206-214; train_async.py:45-76).
LEMMA ThreadStep ==
  ASSUME IInv, StartRollout \/ UpdateWeights \/ Wake \/ Terminating \/ UNCHANGED vars
  PROVE  IInv'
<1>1. /\ UNCHANGED <<sample_offset, epoch_id, sample_group_index, prompt_of, buffer>>
      /\ UNCHANGED <<collected, output_queue, gstate, outcome, posted_at, response, queued_in>>
      /\ Groups' = Groups
  BY DEF StartRollout, UpdateWeights, Wake, Terminating, vars, sourceVars, threadVars,
         groupVars, Groups
<1>2. /\ rollout_id' \in Nat \cup {NoRollout} /\ weight_version' \in Nat
      /\ collector' \in {"idle", "drain", "failed"}
      /\ collector' = "idle" => collector = "idle"
      /\ collector' # "idle" => rollout_id' \in Nat
  BY DEF IInv, TypeOK, CollectorFlow, NoRollout, StartRollout, UpdateWeights, Wake,
         Terminating, vars, threadVars
<1>3. /\ active_tasks' \in SUBSET Groups /\ Running \subseteq active_tasks'
      /\ worker' \in {"off", "top_up", "sleep", "blocked"}
      /\ worker' \in {"off", "top_up"} => active_tasks' = Running
  BY DEF IInv, TypeOK, OneOwner, CollectorFlow, StartRollout, UpdateWeights, Wake,
         Terminating, vars, threadVars, Reaped
<1>4. Running' = Running
  BY <1>1 DEF Running
<1>5. TypeOK'
  BY <1>1, <1>2, <1>3 DEF IInv, TypeOK, SourceTypeOK, Prompt
<1>6. OneOwner' /\ CollectorFlow' /\ EndedWithOutcome'
  BY <1>1, <1>2, <1>3, <1>4 DEF IInv, OneOwner, CollectorFlow, EndedWithOutcome
<1> QED BY <1>5, <1>6 DEF IInv

-----------------------------------------------------------------------------
\* A behaviour starts with no group, and no thread at work.
LEMMA InitIInv == Init => IInv
<1> SUFFICES ASSUME Init PROVE IInv
  OBVIOUS
<1>1. Groups = {}
  BY DEF Init, SourceInit, Groups
<1>2. buffer = <<>> /\ output_queue = <<>>
  BY DEF Init, SourceInit
<1>3. /\ IsInjective(buffer) /\ IsInjective(output_queue)
      /\ ToSet(buffer) = {} /\ ToSet(output_queue) = {}
  BY <1>2 DEF IsInjective, ToSet
<1>4. TypeOK
  BY <1>1, <1>2, EmptySeq DEF Init, SourceInit, TypeOK, SourceTypeOK, NoRollout
<1>5. OneOwner /\ CollectorFlow /\ EndedWithOutcome
  BY <1>1, <1>3 DEF Init, OneOwner, CollectorFlow, EndedWithOutcome, Running
<1> QED BY <1>4, <1>5 DEF IInv

\* Every step keeps the inductive invariant.
LEMMA NextIInv == IInv /\ [Next]_vars => IInv'
BY ThreadStep, TaskStep, ShipStep, RequeueStep, TopUpStep, DrainOneStep, FinishRolloutStep
   DEF Next

\* The inductive invariant holds throughout.
THEOREM Inductive == Spec => []IInv
BY InitIInv, NextIInv, PTL DEF Spec

\* The state is well formed, whatever the two threads do.
THEOREM TypeCorrect == Spec => []TypeOK
BY Inductive, PTL DEF IInv

\* A group is in one place throughout: no group is queued or buffered twice, and a
\* resumed group never shares active_tasks with its previous task, for every
\* dataset, queue and concurrency (fully_async_rollout.py:123-153, 169-191).
THEOREM OneOwnerCorrect == Spec => []OneOwner
BY Inductive, PTL DEF IInv

-----------------------------------------------------------------------------
\* The steps that change who holds a finished group, or how its task ended.
LEMMA ShippedStep ==
  ASSUME ~FanOut, IInv, NoAbortedShipped, [Next]_vars
  PROVE  NoAbortedShipped'
<1> DEFINE Shipped == {"putting", "queued", "collected"}
<1>1. /\ gstate \in [Groups -> GState]
      /\ outcome \in [Groups -> {"none", "completed", "aborted", "crashed"}]
      /\ \A g \in Groups : gstate[g] = "done" => outcome[g] # "none"
      /\ \A g \in Groups : gstate[g] \in Shipped => outcome[g] = "completed"
  BY DEF IInv, TypeOK, EndedWithOutcome, NoAbortedShipped
<1>2. CASE UNCHANGED <<sample_group_index, gstate, outcome>>
  BY <1>2 DEF NoAbortedShipped, Groups
<1>3. CASE StartRollout \/ UpdateWeights \/ Wake \/ Terminating \/ UNCHANGED vars
  BY <1>2, <1>3 DEF StartRollout, UpdateWeights, Wake, Terminating, vars, sourceVars, groupVars
<1>4. CASE \E g \in Groups : Post(g) \/ EndTask(g) \/ DropCrashed(g) \/ Requeue(g)
  <2>1. PICK g \in Groups : Post(g) \/ EndTask(g) \/ DropCrashed(g) \/ Requeue(g)
    BY <1>4
  <2>2. PICK t \in {"posted", "done", "crashed", "recycled"} : gstate' = [gstate EXCEPT ![g] = t]
    BY <2>1 DEF Post, EndTask, DropCrashed, Requeue
  <2>3. Groups' = Groups /\ \A h \in Groups : h # g => outcome'[h] = outcome[h]
    BY <1>1, <2>1 DEF Post, EndTask, DropCrashed, Requeue, AddSamples, sourceVars, Groups
  <2> QED BY <1>1, <2>2, <2>3 DEF NoAbortedShipped
<1>5. CASE \E g \in Groups : Ship(g) \/ Unblock(g)
  <2>1. PICK g \in Groups : Ship(g) \/ Unblock(g)
    BY <1>5
  <2>2. PICK t \in {"queued", "putting"} : gstate' = [gstate EXCEPT ![g] = t]
    BY <2>1 DEF Ship, Unblock, Enqueue
  <2>3. outcome[g] = "completed"
    BY <1>1, <2>1 DEF Ship, Unblock, SeenAborted
  <2>4. Groups' = Groups /\ outcome' = outcome
    BY <2>1 DEF Ship, Unblock, sourceVars, Groups
  <2> QED BY <1>1, <2>2, <2>3, <2>4 DEF NoAbortedShipped
<1>6. CASE TopUp
  <2> DEFINE got == HandedOut(1)
             after == Groups'
  <2>1. /\ gstate' = [g \in after |-> IF g \in got THEN "created" ELSE gstate[g]]
        /\ outcome' = [g \in after |-> IF g \in got THEN "none" ELSE outcome[g]]
    BY <1>6 DEF TopUp
  <2>2. \A g \in after : g \in Groups \/ g \in got
    BY DEF HandedOut
  <2> HIDE DEF got, after
  <2>3. \A g \in after : gstate'[g] \in Shipped => outcome'[g] = "completed"
    BY <1>1, <2>1, <2>2
  <2> QED BY <2>3 DEF NoAbortedShipped, after
<1>7. CASE DrainOne
  <2>1. /\ output_queue \in Seq(Groups) /\ output_queue # <<>> /\ NoRepeat(output_queue)
        /\ Members(output_queue) = {h \in Groups : gstate[h] = "queued"}
    BY <1>7, OwnersOfQueues DEF DrainOne, MoreToDrain
  <2>2. Head(output_queue) \in Groups /\ gstate[Head(output_queue)] = "queued"
    BY <2>1, QueueHead
  <2>3. /\ gstate' = [gstate EXCEPT ![Head(output_queue)] = "collected"]
        /\ outcome' = outcome /\ Groups' = Groups
    BY <1>7 DEF DrainOne, sourceVars, Groups
  <2> QED BY <1>1, <2>2, <2>3 DEF NoAbortedShipped
<1>8. CASE FinishRollout
  <2>1. CASE HandOver
    <3>1. /\ gstate' = [g \in Groups |-> IF g \in Out THEN "delivered"
                                 ELSE IF g \in collected THEN "surplus" ELSE gstate[g]]
          /\ outcome' = [g \in Groups |-> IF g \in collected THEN "none" ELSE outcome[g]]
          /\ Groups' = Groups
      BY <1>8, <2>1 DEF HandOver, FinishRollout, sourceVars, Groups
    <3> QED BY <1>1, <3>1 DEF NoAbortedShipped
  <2>2. CASE ~HandOver
    <3>1. UNCHANGED <<sample_group_index, gstate, outcome>>
      BY <1>8, <2>2 DEF FinishRollout, sourceVars, groupVars
    <3> QED BY <1>2, <3>1
  <2> QED BY <2>1, <2>2
<1> QED BY <1>3, <1>4, <1>5, <1>6, <1>7, <1>8 DEF Next

\* No aborted group is on its way to training, nor one whose task raised, as long
\* as a task returns a list of samples (fully_async_rollout.py:123-153).  With
\* lists of lists of samples the callback sees no status, and the property fails.
THEOREM NoAbortedShippedCorrect ==
  ASSUME ~FanOut
  PROVE  Spec => []NoAbortedShipped
<1>1. Init => NoAbortedShipped
  BY DEF Init, SourceInit, Groups, NoAbortedShipped
<1>2. IInv /\ NoAbortedShipped /\ [Next]_vars => NoAbortedShipped'
  BY ShippedStep
<1> QED BY <1>1, <1>2, Inductive, PTL DEF Spec

-----------------------------------------------------------------------------
\* A rollout starts with the queue drained by the one before, and what is put on
\* it since carries its number.
LEMMA QueueAgeStep ==
  ASSUME IInv, QueueDoesNotAge, [Next]_vars
  PROVE  QueueDoesNotAge'
<1> DEFINE Waiting == {"queued", "collected"}
           slack == IF collector = "idle" THEN 0 ELSE 1
<1>1. /\ gstate \in [Groups -> GState]
      /\ queued_in \in [Groups -> Int] /\ rollout_id \in Int
      /\ \A g \in Groups : gstate[g] \in Waiting => queued_in[g] + slack >= rollout_id
  BY DEF IInv, TypeOK, QueueDoesNotAge, NoRollout
<1>2. CASE UNCHANGED <<sample_group_index, collector, rollout_id, gstate, queued_in>>
  BY <1>2 DEF QueueDoesNotAge, Groups
<1>3. CASE UpdateWeights \/ Wake \/ Terminating \/ UNCHANGED vars
  BY <1>2, <1>3 DEF UpdateWeights, Wake, Terminating, vars, sourceVars, threadVars, groupVars
<1>4. CASE StartRollout
  <2>1. /\ collector = "idle" /\ collector' = "drain" /\ rollout_id' = rollout_id + 1
        /\ Groups' = Groups /\ UNCHANGED <<gstate, queued_in>>
    BY <1>4 DEF StartRollout, sourceVars, groupVars, Groups
  <2>2. \A g \in Groups : gstate[g] \in Waiting => queued_in[g] + 1 >= rollout_id + 1
    BY <1>1, <2>1
  <2> QED BY <2>1, <2>2 DEF QueueDoesNotAge
<1>5. CASE \E g \in Groups : Post(g) \/ EndTask(g) \/ DropCrashed(g) \/ Requeue(g)
  <2>1. PICK g \in Groups : Post(g) \/ EndTask(g) \/ DropCrashed(g) \/ Requeue(g)
    BY <1>5
  <2>2. PICK t \in {"posted", "done", "crashed", "recycled"} : gstate' = [gstate EXCEPT ![g] = t]
    BY <2>1 DEF Post, EndTask, DropCrashed, Requeue
  <2>3. Groups' = Groups /\ UNCHANGED <<collector, rollout_id, queued_in>>
    BY <2>1 DEF Post, EndTask, DropCrashed, Requeue, AddSamples, sourceVars, threadVars, Groups
  <2>4. \A h \in Groups : gstate'[h] \in Waiting => gstate[h] \in Waiting
    BY <1>1, <2>2
  <2> QED BY <1>1, <2>3, <2>4 DEF QueueDoesNotAge
<1>6. CASE \E g \in Groups : Ship(g) \/ Unblock(g)
  <2>1. PICK g \in Groups : Ship(g) \/ Unblock(g)
    BY <1>6
  <2>2. Groups' = Groups /\ UNCHANGED <<collector, rollout_id>>
    BY <2>1 DEF Ship, Unblock, sourceVars, Groups
  <2>3. CASE Enqueue(g)
    <3>1. /\ gstate' = [gstate EXCEPT ![g] = "queued"]
          /\ queued_in' = [queued_in EXCEPT ![g] = rollout_id]
      BY <2>3 DEF Enqueue
    <3>2. \A h \in Groups : gstate'[h] \in Waiting => queued_in'[h] + slack >= rollout_id
      BY <1>1, <3>1
    <3> QED BY <2>2, <3>2 DEF QueueDoesNotAge
  <2>4. CASE ~Enqueue(g)
    <3>1. gstate' = [gstate EXCEPT ![g] = "putting"] /\ queued_in' = queued_in
      BY <2>1, <2>4 DEF Ship, Unblock
    <3>2. \A h \in Groups : gstate'[h] \in Waiting => queued_in'[h] + slack >= rollout_id
      BY <1>1, <3>1
    <3> QED BY <2>2, <3>2 DEF QueueDoesNotAge
  <2> QED BY <2>3, <2>4
<1>7. CASE TopUp
  <2> DEFINE got == HandedOut(1)
             after == Groups'
  <2>1. /\ gstate' = [g \in after |-> IF g \in got THEN "created" ELSE gstate[g]]
        /\ queued_in' = [g \in after |-> IF g \in got THEN NoRollout ELSE queued_in[g]]
        /\ UNCHANGED <<collector, rollout_id>>
    BY <1>7 DEF TopUp
  <2>2. \A g \in after : g \in Groups \/ g \in got
    BY DEF HandedOut
  <2> HIDE DEF got, after
  <2>3. \A g \in after : gstate'[g] \in Waiting => queued_in'[g] + slack >= rollout_id
    BY <1>1, <2>1, <2>2
  <2> QED BY <2>1, <2>3 DEF QueueDoesNotAge, after
<1>8. CASE DrainOne
  <2>1. /\ output_queue \in Seq(Groups) /\ output_queue # <<>> /\ NoRepeat(output_queue)
        /\ Members(output_queue) = {h \in Groups : gstate[h] = "queued"}
    BY <1>8, OwnersOfQueues DEF DrainOne, MoreToDrain
  <2>2. Head(output_queue) \in Groups /\ gstate[Head(output_queue)] = "queued"
    BY <2>1, QueueHead
  <2>3. /\ gstate' = [gstate EXCEPT ![Head(output_queue)] = "collected"]
        /\ UNCHANGED <<collector, rollout_id, queued_in>> /\ Groups' = Groups
    BY <1>8 DEF DrainOne, sourceVars, Groups
  <2>4. \A h \in Groups : gstate'[h] \in Waiting => gstate[h] \in Waiting
    BY <1>1, <2>2, <2>3
  <2> QED BY <1>1, <2>3, <2>4 DEF QueueDoesNotAge
<1>9. CASE FinishRollout
  <2>1. Groups' = Groups /\ rollout_id' = rollout_id /\ collector = "drain" /\ output_queue = <<>>
    BY <1>9 DEF FinishRollout, MoreToDrain, sourceVars, Groups
  <2>2. CASE HandOver
    <3>1. Members(output_queue) = {}
      BY <2>1 DEF Members
    <3>2. \A g \in Groups : gstate[g] \in Waiting => g \in collected
      BY <3>1, OwnersOfQueues DEF IInv, OneOwner
    <3>3. /\ gstate' = [g \in Groups |-> IF g \in Out THEN "delivered"
                                 ELSE IF g \in collected THEN "surplus" ELSE gstate[g]]
      BY <2>2 DEF HandOver
    <3>4. \A g \in Groups : gstate'[g] \notin Waiting
      BY <3>2, <3>3
    <3> QED BY <2>1, <3>4 DEF QueueDoesNotAge
  <2>3. CASE ~HandOver
    <3>1. UNCHANGED <<gstate, queued_in>> /\ collector' = "failed"
      BY <1>9, <2>3 DEF FinishRollout, groupVars
    <3> QED BY <1>1, <2>1, <3>1 DEF QueueDoesNotAge
  <2> QED BY <2>2, <2>3
<1> QED BY <1>3, <1>4, <1>5, <1>6, <1>7, <1>8, <1>9 DEF Next

\* A group on the queue is collected by the rollout in flight or by the next one,
\* however far the worker runs ahead (fully_async_rollout.py:101-108, 211-219).
THEOREM QueueDoesNotAgeCorrect == Spec => []QueueDoesNotAge
<1>1. Init => QueueDoesNotAge
  BY DEF Init, SourceInit, Groups, QueueDoesNotAge
<1>2. IInv /\ QueueDoesNotAge /\ [Next]_vars => QueueDoesNotAge'
  BY QueueAgeStep
<1> QED BY <1>1, <1>2, Inductive, PTL DEF Spec

-----------------------------------------------------------------------------
(***************************************************************************)
(* FullyAsyncRollout implements RolloutContract.                           *)
(***************************************************************************)
ContractStep == [Contract!ContractNext]_(Contract!contractVars)

\* The contract counts with its own instance of the standard module.
LEMMA SameCardinality ==
  ASSUME NEW S
  PROVE  Contract!Cardinality(S) = Cardinality(S)
BY DEF Cardinality, Contract!Cardinality

Ended == {"delivered", "surplus", "crashed"}

\* A step that ends no group changes nothing that the contract sees, if the
\* rollout in flight stays in flight.
LEMMA StepOfLiveGroup ==
  ASSUME Groups' = Groups, Returned' = Returned,
         \A g \in Groups : gstate'[g] = gstate[g]
                           \/ (gstate[g] \notin Ended /\ gstate'[g] \notin Ended)
  PROVE  ContractStep
<1>1. Trained' = Trained
  BY DEF Trained, Ended
<1>2. Dropped' = Dropped
  BY DEF Dropped, Ended
<1> QED BY <1>1, <1>2 DEF ContractStep, Contract!contractVars

\* The batch is what was collected first, by the order of the groups
\* (fully_async_rollout.py:232-248).
LEMMA FinishRolloutDelivers ==
  ASSUME IInv, FinishRollout, HandOver
  PROVE  ContractStep
<1>1. /\ collector = "drain" /\ collector' = "idle" /\ rollout_id' = rollout_id
      /\ Groups' = Groups /\ rollout_id \in Nat
      /\ gstate' = [g \in Groups |-> IF g \in Out THEN "delivered"
                                 ELSE IF g \in collected THEN "surplus" ELSE gstate[g]]
      /\ collected = {g \in Groups : gstate[g] = "collected"}
      /\ Out \subseteq collected
  BY DEF FinishRollout, HandOver, IInv, OneOwner, CollectorFlow, sourceVars, Groups, Out
<1>2. Cardinality(Out) = TargetDataSize
  <2>1. sample_group_index \in Nat
    BY DEF IInv, TypeOK, SourceTypeOK
  <2>2. IsFiniteSet(Groups) /\ Groups \subseteq Int
    BY <2>1, FS_Interval DEF Groups
  <2>3. IsFiniteSet(collected) /\ collected \in SUBSET Int
    BY <1>1, <2>2, FS_Subset
  <2>4. /\ TargetDataSize \in Nat /\ Cardinality(collected) \in Nat
        /\ TargetDataSize <= Cardinality(collected)
    BY <2>3, AsyncAssumption, FS_CardinalityType DEF FinishRollout, Enough
  <2> QED BY <2>3, <2>4, FirstOnes DEF Out
<1>3. Trained' = Trained \cup Out /\ Trained \cap Out = {}
  BY <1>1 DEF Trained
<1>4. Dropped \subseteq Dropped' /\ Dropped' \subseteq Groups
  BY <1>1 DEF Dropped
<1>5. Trained' \subseteq Groups \ Dropped'
  BY <1>1 DEF Trained, Dropped
<1>6. Contract!Cardinality(Trained' \ Trained) = TargetDataSize
  <2>1. Trained' \ Trained = Out
    BY <1>3
  <2> QED BY <1>2, <2>1, SameCardinality
<1>7. Returned' = Returned + 1
  BY <1>1 DEF Returned
<1>8. Contract!Deliver
  BY <1>1, <1>3, <1>4, <1>5, <1>6, <1>7 DEF Contract!Deliver
<1> QED BY <1>8 DEF ContractStep, Contract!ContractNext

\* The group the worker submits is new to the contract, or is on its way still
\* (fully_async_rollout.py:169-191).
LEMMA TopUpReads ==
  ASSUME IInv, TopUp
  PROVE  ContractStep
<1> DEFINE got == HandedOut(1)
           after == Groups'
<1>1. /\ SourceTypeOK /\ GetSamples(1) /\ NoRepeat(buffer)
      /\ Members(buffer) = {g \in Groups : gstate[g] = "recycled"}
  BY OwnersOfQueues DEF IInv, TypeOK, TopUp
<1>2. Groups \subseteq after
  BY <1>1, GetSamplesStep
<1>3. /\ \A g \in got : g \in Members(buffer) \/ g \notin Groups
      /\ \A g \in after : g \in Groups \/ g \in got
  BY <1>1, BufferTaken
<1>4. gstate' = [g \in after |-> IF g \in got THEN "created" ELSE gstate[g]]
  BY DEF TopUp
<1>5. Returned' = Returned
  BY DEF TopUp, Returned
<1> HIDE DEF got, after
<1>6. \A g \in got : g \in Groups => gstate[g] = "recycled"
  BY <1>1, <1>3
<1>7. {g \in after : gstate'[g] = "delivered"} = {g \in Groups : gstate[g] = "delivered"}
  BY <1>2, <1>3, <1>4, <1>6
<1>8. {g \in after : gstate'[g] \in {"surplus", "crashed"}}
        = {g \in Groups : gstate[g] \in {"surplus", "crashed"}}
  BY <1>2, <1>3, <1>4, <1>6
<1>9. Trained' = Trained /\ Dropped' = Dropped
  BY <1>7, <1>8 DEF Trained, Dropped, after
<1> QED BY <1>2, <1>5, <1>9 DEF ContractStep, Contract!ContractNext, Contract!Read, after

\* A group whose task raised is given up (fully_async_rollout.py:125-127).
LEMMA DropCrashedGivesUp ==
  ASSUME IInv, NEW g \in Groups, DropCrashed(g)
  PROVE  ContractStep
<1>1. /\ Groups' = Groups /\ Returned' = Returned /\ gstate[g] = "done"
      /\ gstate' = [gstate EXCEPT ![g] = "crashed"] /\ gstate \in [Groups -> GState]
  BY DEF DropCrashed, IInv, TypeOK, sourceVars, threadVars, Groups, Returned
<1>2. \A h \in Groups : gstate'[h] = IF h = g THEN "crashed" ELSE gstate[h]
  BY <1>1
<1>3. Trained' = Trained
  BY <1>1, <1>2 DEF Trained
<1>4. Dropped' = Dropped \cup {g} /\ g \notin Trained
  BY <1>1, <1>2 DEF Dropped, Trained
<1>5. Dropped \cap Trained = {} /\ Dropped \subseteq Groups
  BY DEF Dropped, Trained
<1>6. Contract!GiveUp
  BY <1>1, <1>3, <1>4, <1>5 DEF Contract!GiveUp
<1> QED BY <1>6 DEF ContractStep, Contract!ContractNext

\* Every step of the two threads is a step of the contract.
LEMMA NextContract ==
  ASSUME IInv, [Next]_vars
  PROVE  ContractStep
<1>1. gstate \in [Groups -> GState]
  BY DEF IInv, TypeOK
<1>2. CASE UNCHANGED <<sample_group_index, gstate, collector, rollout_id>>
  BY <1>2, StepOfLiveGroup DEF Returned, Groups
<1>3. CASE UpdateWeights \/ Wake \/ Terminating \/ UNCHANGED vars
  BY <1>2, <1>3 DEF UpdateWeights, Wake, Terminating, vars, sourceVars, threadVars, groupVars
<1>4. CASE StartRollout
  <2>1. /\ collector = "idle" /\ collector' = "drain" /\ rollout_id' = rollout_id + 1
        /\ Groups' = Groups /\ gstate' = gstate
    BY <1>4 DEF StartRollout, sourceVars, groupVars, Groups
  <2>2. rollout_id \in Int
    BY DEF IInv, TypeOK, NoRollout
  <2>3. Returned' = Returned
    BY <2>1, <2>2 DEF Returned
  <2> QED BY <2>1, <2>3, StepOfLiveGroup
<1>5. CASE \E g \in Groups : Post(g) \/ EndTask(g) \/ Requeue(g) \/ Ship(g) \/ Unblock(g)
  <2>1. PICK g \in Groups : Post(g) \/ EndTask(g) \/ Requeue(g) \/ Ship(g) \/ Unblock(g)
    BY <1>5
  <2>2. PICK t \in {"posted", "done", "recycled", "queued", "putting"} :
          gstate' = [gstate EXCEPT ![g] = t]
    BY <2>1 DEF Post, EndTask, Requeue, Ship, Unblock, Enqueue
  <2>3. Groups' = Groups /\ Returned' = Returned /\ gstate[g] \notin Ended
    BY <2>1 DEF Post, EndTask, Requeue, Ship, Unblock, AddSamples, sourceVars, threadVars,
                Groups, Returned, Ended
  <2>4. \A h \in Groups : gstate'[h] = gstate[h]
                          \/ (gstate[h] \notin Ended /\ gstate'[h] \notin Ended)
    BY <1>1, <2>2, <2>3 DEF Ended
  <2> QED BY <2>3, <2>4, StepOfLiveGroup
<1>6. CASE DrainOne
  <2>1. /\ output_queue \in Seq(Groups) /\ output_queue # <<>> /\ NoRepeat(output_queue)
        /\ Members(output_queue) = {h \in Groups : gstate[h] = "queued"}
    BY <1>6, OwnersOfQueues DEF DrainOne, MoreToDrain
  <2>2. Head(output_queue) \in Groups /\ gstate[Head(output_queue)] = "queued"
    BY <2>1, QueueHead
  <2>3. /\ gstate' = [gstate EXCEPT ![Head(output_queue)] = "collected"]
        /\ Groups' = Groups /\ Returned' = Returned
    BY <1>6 DEF DrainOne, sourceVars, Groups, Returned
  <2>4. \A h \in Groups : gstate'[h] = gstate[h]
                          \/ (gstate[h] \notin Ended /\ gstate'[h] \notin Ended)
    BY <1>1, <2>2, <2>3 DEF Ended
  <2> QED BY <2>3, <2>4, StepOfLiveGroup
<1>7. CASE FinishRollout /\ ~HandOver
  <2>1. /\ UNCHANGED <<sample_group_index, gstate, rollout_id>>
        /\ collector = "drain" /\ collector' = "failed"
    BY <1>7 DEF FinishRollout, sourceVars, groupVars
  <2>2. Returned' = Returned /\ Groups' = Groups
    BY <2>1 DEF Returned, Groups
  <2> QED BY <2>1, <2>2, StepOfLiveGroup
<1> QED BY <1>3, <1>4, <1>5, <1>6, <1>7, FinishRolloutDelivers, TopUpReads,
           DropCrashedGivesUp DEF Next

\* The fully asynchronous rollout keeps the contract of a rollout function: full
\* batches, no group delivered twice, no group back from the dead
\* (fully_async_rollout.py:169-191, 206-248).
THEOREM ContractKept == Spec => KeepsContract
<1>1. Init => Contract!ContractInit
  <2> SUFFICES ASSUME Init PROVE Contract!ContractInit
    OBVIOUS
  <2>1. Groups = {}
    BY DEF Init, SourceInit, Groups
  <2>2. Returned = 0
    BY DEF Init, NoRollout, Returned
  <2> QED BY <2>1, <2>2 DEF Contract!ContractInit, Trained, Dropped
<1>2. IInv /\ [Next]_vars => [Contract!ContractNext]_(Contract!contractVars)
  BY NextContract DEF ContractStep
<1> QED BY <1>1, <1>2, Inductive, PTL DEF Spec, KeepsContract, Contract!ContractSpec
=============================================================================
