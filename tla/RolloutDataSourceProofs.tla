---------------------- MODULE RolloutDataSourceProofs ----------------------
(***************************************************************************)
(* What get_samples and add_samples of the data source preserve, for every *)
(* size of the dataset and of the batch, and the facts on finite sets and  *)
(* queues that the proofs about the rollouts share.                        *)
(***************************************************************************)
EXTENDS RolloutDataSource, SequenceTheorems, FiniteSetTheorems, TLAPS

\* The library's facts on unions and differences, in the form needed here.
LEMMA DisjointUnion ==
  ASSUME NEW S, NEW T, IsFiniteSet(S), IsFiniteSet(T), S \cap T = {}
  PROVE  /\ IsFiniteSet(S \cup T)
         /\ Cardinality(S) \in Nat /\ Cardinality(T) \in Nat
         /\ Cardinality(S \cup T) = Cardinality(S) + Cardinality(T)
<1>1. Cardinality(S) \in Nat /\ Cardinality(T) \in Nat
  BY FS_CardinalityType
<1>2. /\ IsFiniteSet(S \cup T)
      /\ Cardinality(S \cup T) = Cardinality(S) + Cardinality(T) - Cardinality(S \cap T)
  BY FS_Union
<1>3. Cardinality(S \cap T) = 0
  BY FS_EmptySet
<1> QED BY <1>1, <1>2, <1>3

(* A finite set is split by any of its subsets, and the sizes add up. *)
LEMMA SubsetDifference ==
  ASSUME NEW S, NEW T, IsFiniteSet(S), T \subseteq S
  PROVE  /\ IsFiniteSet(T) /\ IsFiniteSet(S \ T)
         /\ Cardinality(T) \in Nat /\ Cardinality(S \ T) \in Nat
         /\ Cardinality(S) = Cardinality(T) + Cardinality(S \ T)
<1>1. IsFiniteSet(T) /\ IsFiniteSet(S \ T)
  BY FS_Subset
<1>2. T \cup (S \ T) = S /\ T \cap (S \ T) = {}
  OBVIOUS
<1> QED BY <1>1, <1>2, DisjointUnion

NoRepeat(s) == \A j, k \in 1 .. Len(s) : s[j] = s[k] => j = k
Members(s)  == {s[k] : k \in 1 .. Len(s)}

\* Two queues without repetition and without a common element, end to end.
LEMMA QueuesJoined ==
  ASSUME NEW S, NEW s \in Seq(S), NEW t \in Seq(S),
         NoRepeat(s), NoRepeat(t), Members(s) \cap Members(t) = {}
  PROVE  /\ s \o t \in Seq(S) /\ Len(s \o t) = Len(s) + Len(t)
         /\ NoRepeat(s \o t) /\ Members(s \o t) = Members(s) \cup Members(t)
<1> DEFINE st == s \o t
<1>1. Len(s) \in Nat /\ Len(t) \in Nat
  BY LenProperties
<1>2. /\ st \in Seq(S) /\ Len(st) = Len(s) + Len(t)
      /\ \A i \in 1 .. Len(s) + Len(t) :
           st[i] = IF i <= Len(s) THEN s[i] ELSE t[i - Len(s)]
  BY ConcatProperties
<1> HIDE DEF st
<1>3. \A i \in 1 .. Len(s) : i \in 1 .. Len(st) /\ st[i] = s[i]
  BY <1>1, <1>2
<1>4. \A i \in 1 .. Len(t) : Len(s) + i \in 1 .. Len(st) /\ st[Len(s) + i] = t[i]
  BY <1>1, <1>2, SMTT(30)
<1>5. \A i \in 1 .. Len(st) :
        (i \in 1 .. Len(s) /\ st[i] = s[i])
          \/ (i - Len(s) \in 1 .. Len(t) /\ st[i] = t[i - Len(s)])
  BY <1>1, <1>2
<1> DEFINE first == Members(s)
           rest  == Members(t)
<1>7. /\ \A i \in 1 .. Len(s) : s[i] \in first
      /\ \A i \in 1 .. Len(t) : t[i] \in rest
      /\ first \cap rest = {}
  BY DEF Members
<1>6. ASSUME NEW j \in 1 .. Len(st), NEW k \in 1 .. Len(st), st[j] = st[k]
      PROVE  j = k
  <2>1. CASE j \in 1 .. Len(s) /\ st[j] = s[j]
    <3>1. k \in 1 .. Len(s) /\ st[k] = s[k]
      <4> HIDE DEF first, rest
      <4> QED BY <1>5, <1>6, <1>7, <2>1
    <3> QED BY <1>6, <2>1, <3>1 DEF NoRepeat
  <2>2. CASE j - Len(s) \in 1 .. Len(t) /\ st[j] = t[j - Len(s)]
    <3>1. k - Len(s) \in 1 .. Len(t) /\ st[k] = t[k - Len(s)]
      <4> HIDE DEF first, rest
      <4> QED BY <1>5, <1>6, <1>7, <2>2
    <3>2. j - Len(s) = k - Len(s)
      BY <1>6, <2>2, <3>1 DEF NoRepeat
    <3> QED BY <1>1, <1>2, <3>2
  <2> QED BY <1>5, <2>1, <2>2
<1>9. Members(st) = first \cup rest
  <2>1. \A x \in first \cup rest : \E k \in 1 .. Len(st) : st[k] = x
    <3>1. \A x \in first : \E k \in 1 .. Len(st) : st[k] = x
      BY <1>3 DEF Members
    <3>2. \A x \in rest : \E k \in 1 .. Len(st) : st[k] = x
      <4> SUFFICES ASSUME NEW i \in 1 .. Len(t) PROVE \E k \in 1 .. Len(st) : st[k] = t[i]
        BY DEF Members
      <4> QED BY <1>4
    <3> QED BY <3>1, <3>2
  <2>2. \A k \in 1 .. Len(st) : st[k] \in first \cup rest
    BY <1>5, <1>7
  <2> HIDE DEF first, rest
  <2> QED BY <2>1, <2>2 DEF Members
<1>10. NoRepeat(st)
  BY <1>6 DEF NoRepeat
<1> QED BY <1>2, <1>9, <1>10 DEF st

\* A queue gives its oldest element away for good.
LEMMA QueueHead ==
  ASSUME NEW S, NEW s \in Seq(S), s # <<>>, NoRepeat(s)
  PROVE  /\ Head(s) \in S /\ Head(s) \in Members(s)
         /\ Tail(s) \in Seq(S) /\ NoRepeat(Tail(s))
         /\ Members(Tail(s)) = Members(s) \ {Head(s)}
<1> DEFINE n == Len(s)
           t == Tail(s)
<1>1. n \in Nat /\ n > 0 /\ \A k \in 1 .. n : s[k] \in S
  BY LenProperties, EmptySeq, ElementOfSeq
<1>2. /\ Head(s) = s[1] /\ t \in Seq(S) /\ Len(t) = n - 1
      /\ \A k \in 1 .. Len(t) : t[k] = s[k + 1]
  BY HeadTailProperties
<1> HIDE DEF n, t
<1>3. 1 \in 1 .. n
  BY <1>1
<1>4. \A k \in 1 .. Len(t) : k + 1 \in 1 .. n /\ k + 1 # 1
  BY <1>1, <1>2
<1>5. \A k \in 1 .. n : k # 1 => k - 1 \in 1 .. Len(t) /\ (k - 1) + 1 = k
  BY <1>1, <1>2
<1>6. \A j, k \in 1 .. n : s[j] = s[k] => j = k
  BY DEF NoRepeat, n
<1>7. NoRepeat(t)
  <2>1. ASSUME NEW j \in 1 .. Len(t), NEW k \in 1 .. Len(t), t[j] = t[k]
        PROVE  j = k
    <3>1. j + 1 = k + 1
      BY <1>2, <1>4, <1>6, <2>1
    <3> QED BY <1>1, <1>2, <3>1
  <2> QED BY <2>1 DEF NoRepeat
<1>8. {t[k] : k \in 1 .. Len(t)} = {s[k] : k \in 1 .. n} \ {Head(s)}
  <2>1. \A k \in 1 .. Len(t) : t[k] \in {s[j] : j \in 1 .. n} /\ t[k] # Head(s)
    BY <1>2, <1>3, <1>4, <1>6
  <2>2. \A k \in 1 .. n : s[k] # Head(s) => s[k] \in {t[j] : j \in 1 .. Len(t)}
    <3> SUFFICES ASSUME NEW k \in 1 .. n, s[k] # Head(s)
                 PROVE  \E j \in 1 .. Len(t) : s[k] = t[j]
      OBVIOUS
    <3>1. k - 1 \in 1 .. Len(t) /\ t[k - 1] = s[k]
      BY <1>2, <1>5
    <3> QED BY <3>1
  <2> QED BY <2>1, <2>2
<1> QED BY <1>1, <1>2, <1>3, <1>7, <1>8 DEF Members, n, t

\* A queue takes a new element at its end.
LEMMA QueueAppend ==
  ASSUME NEW S, NEW s \in Seq(S), NEW x \in S, NoRepeat(s), x \notin Members(s)
  PROVE  /\ Append(s, x) \in Seq(S) /\ NoRepeat(Append(s, x))
         /\ Members(Append(s, x)) = Members(s) \cup {x}
<1> DEFINE t == <<x>>
<1>1. t \in Seq(S) /\ Len(t) = 1 /\ t[1] = x
  OBVIOUS
<1>2. NoRepeat(t) /\ Members(t) = {x}
  BY <1>1 DEF NoRepeat, Members
<1>3. Members(s) \cap Members(t) = {}
  BY <1>2
<1>4. Append(s, x) = s \o t
  BY AppendIsConcat
<1> HIDE DEF t
<1> QED BY <1>1, <1>2, <1>3, <1>4, QueuesJoined

-----------------------------------------------------------------------------
\* The dataset part of get_samples keeps the source well formed, never moves
\* an old group and only adds group ids (data_source.py:90-118).
LEMMA DatasetStep ==
  ASSUME SourceTypeOK, NEW num \in Nat, GetFromDataset(num)
  PROVE  /\ sample_offset' \in Nat /\ epoch_id' \in Nat
         /\ sample_group_index' \in Nat
         /\ sample_group_index <= sample_group_index'
         /\ sample_group_index' <= sample_group_index + num
         /\ prompt_of' \in [0 .. sample_group_index' - 1 -> Prompt]
         /\ \A g \in Groups : prompt_of'[g] = prompt_of[g]
<1>1. /\ DatasetSize \in Nat /\ DatasetSize > 0
      /\ sample_offset \in Nat /\ epoch_id \in Nat /\ sample_group_index \in Nat
      /\ prompt_of \in [0 .. sample_group_index - 1 -> Prompt]
  BY DatasetAssumption DEF SourceTypeOK, Groups
<1>2. /\ EpochTail \in Nat
      /\ EpochTail > 0 => sample_offset + EpochTail = DatasetSize
  BY <1>1 DEF EpochTail
<1> DEFINE next == sample_group_index'
\* Every fresh id is the tail's or one of at most a whole next epoch.
<1>3. /\ sample_offset' \in Nat /\ epoch_id' \in Nat
      /\ next \in Nat
      /\ sample_group_index <= next
      /\ next <= sample_group_index + num
      /\ next <= sample_group_index + EpochTail + DatasetSize
  BY <1>1, <1>2, SMTT(30) DEF GetFromDataset, GetWithinEpoch, GetAcrossEpochs,
                    EpochTail, NextHead, Lesser
<1>4. prompt_of' = [g \in 0 .. next - 1 |-> PromptAfter(g)]
  BY DEF GetFromDataset, GetWithinEpoch, GetAcrossEpochs
<1> HIDE DEF next
<1>5. ASSUME NEW g \in 0 .. next - 1
      PROVE  PromptAfter(g) \in Prompt
  <2>1. CASE g < sample_group_index
    BY <1>1, <1>3, <2>1 DEF PromptAfter
  <2>2. CASE g >= sample_group_index /\ g < sample_group_index + EpochTail
    <3>1. sample_offset + (g - sample_group_index) \in 0 .. DatasetSize - 1
      BY <1>1, <1>2, <1>3, <2>2
    <3> QED BY <1>1, <1>2, <1>3, <2>2, <3>1 DEF Prompt, PromptAfter
  <2>3. CASE g >= sample_group_index + EpochTail
    <3>1. g - sample_group_index - EpochTail \in 0 .. DatasetSize - 1
      BY <1>1, <1>2, <1>3, <2>3
    <3> QED BY <1>1, <1>2, <1>3, <2>3, <3>1 DEF Prompt, PromptAfter
  <2> QED BY <1>1, <1>2, <1>3, <2>1, <2>2, <2>3
<1>6. prompt_of' \in [0 .. next - 1 -> Prompt]
  BY <1>4, <1>5
<1>7. \A g \in Groups : prompt_of'[g] = prompt_of[g]
  BY <1>1, <1>3, <1>4 DEF Groups, PromptAfter
<1> QED BY <1>3, <1>6, <1>7 DEF next

\* The dataset part of get_samples hands out the prompts of the epochs in order.
LEMMA CoverageStep ==
  ASSUME SourceTypeOK, EpochCoverage, ReadPosition, NEW num \in Nat, GetFromDataset(num)
  PROVE  EpochCoverage' /\ ReadPosition'
<1> DEFINE next == sample_group_index'
           base == epoch_id * DatasetSize
<1>1. /\ DatasetSize \in Nat /\ DatasetSize > 0
      /\ sample_offset \in Nat /\ epoch_id \in Nat /\ sample_group_index \in Nat
  BY DatasetAssumption DEF SourceTypeOK
<1>2. /\ base \in Nat
      /\ (epoch_id + 1) * DatasetSize = base + DatasetSize
      /\ sample_group_index = base + Lesser(sample_offset, DatasetSize)
  BY <1>1 DEF ReadPosition
<1>3. next \in Nat /\ sample_group_index <= next
  BY DatasetStep
<1>4. prompt_of' = [g \in 0 .. next - 1 |-> PromptAfter(g)]
  BY DEF GetFromDataset, GetWithinEpoch, GetAcrossEpochs
<1>5. ReadPosition'
  <2>1. CASE GetWithinEpoch(num)
    <3>1. /\ sample_offset + num <= DatasetSize
          /\ sample_offset' = sample_offset + num /\ epoch_id' = epoch_id
          /\ sample_group_index' = sample_group_index + num
      BY <2>1 DEF GetWithinEpoch
    <3>2. sample_group_index + num = base + Lesser(sample_offset + num, DatasetSize)
      BY <1>1, <1>2, <3>1 DEF Lesser
    <3> QED BY <3>1, <3>2 DEF ReadPosition, Lesser
  <2>2. CASE GetAcrossEpochs(num)
    <3>1. /\ sample_offset + num > DatasetSize
          /\ sample_offset' = num - EpochTail /\ epoch_id' = epoch_id + 1
          /\ sample_group_index' = sample_group_index + EpochTail + NextHead(num)
      BY <2>2 DEF GetAcrossEpochs
    <3>2. sample_group_index + EpochTail + NextHead(num)
            = base + DatasetSize + Lesser(num - EpochTail, DatasetSize)
      BY <1>1, <1>2, <3>1 DEF Lesser, EpochTail, NextHead
    <3> QED BY <1>2, <3>1, <3>2 DEF ReadPosition, Lesser
  <2> QED BY <2>1, <2>2 DEF GetFromDataset
<1> HIDE DEF next, base
<1>6. ASSUME NEW g \in 0 .. next - 1
      PROVE  g = PromptAfter(g).epoch * DatasetSize + PromptAfter(g).position
  <2>1. CASE g < sample_group_index
    <3>1. g \in Groups /\ PromptAfter(g) = prompt_of[g]
      BY <1>1, <1>3, <2>1 DEF PromptAfter, Groups
    <3> QED BY <3>1 DEF EpochCoverage
  <2>2. CASE g >= sample_group_index /\ g < sample_group_index + EpochTail
    <3>1. PromptAfter(g) = [epoch |-> epoch_id,
                            position |-> sample_offset + (g - sample_group_index)]
      BY <1>1, <1>3, <2>2 DEF PromptAfter
    <3>2. g = base + (sample_offset + (g - sample_group_index))
      BY <1>1, <1>2, <1>3, <2>2 DEF EpochTail, Lesser
    <3> QED BY <3>1, <3>2 DEF base
  <2>3. CASE g >= sample_group_index + EpochTail
    <3>0. EpochTail \in Nat
      BY <1>1 DEF EpochTail
    <3>1. PromptAfter(g) = [epoch |-> epoch_id + 1,
                            position |-> g - sample_group_index - EpochTail]
      BY <1>1, <1>3, <2>3, <3>0 DEF PromptAfter
    <3>2. g = base + DatasetSize + (g - sample_group_index - EpochTail)
      BY <1>1, <1>2, <1>3, <2>3 DEF EpochTail, Lesser
    <3> QED BY <1>2, <3>1, <3>2
  <2>4. g \in Int /\ EpochTail \in Nat /\ sample_group_index \in Int
    BY <1>1, <1>3 DEF EpochTail
  <2> QED BY <2>1, <2>2, <2>3, <2>4
<1>7. ASSUME NEW g \in 0 .. next - 1
      PROVE  g = prompt_of'[g].epoch * DatasetSize + prompt_of'[g].position
  BY <1>4, <1>6
<1> QED BY <1>5, <1>7 DEF EpochCoverage, Groups, next

\* What a caller of the buffered get_samples may rely on: the buffer gives its
\* oldest groups, fresh groups are handed out only when it is used up, and a
\* batch is never larger than asked for (data_source.py:177-196, 225-229).
LEMMA GetSamplesStep ==
  ASSUME SourceTypeOK, NEW num \in Nat, GetSamples(num)
  PROVE  /\ SourceTypeOK'
         /\ Groups \subseteq Groups'
         /\ HandedOut(num) \subseteq Groups'
         /\ IsFiniteSet(HandedOut(num))
         /\ Cardinality(HandedOut(num)) <= num
         /\ Popped(num) \in 0 .. Len(buffer)
         /\ Len(buffer') = Len(buffer) - Popped(num)
         /\ \A k \in 1 .. Len(buffer') : buffer'[k] = buffer[Popped(num) + k]
         /\ Groups' # Groups => buffer' = <<>>
         /\ Groups' = Groups => Cardinality(HandedOut(num)) <= Popped(num)
<1> DEFINE next  == sample_group_index'
           old   == {buffer[i] : i \in 1 .. Popped(num)}
           after == Groups'
           fresh == after \ Groups
<1>1. /\ sample_group_index \in Nat /\ buffer \in Seq(Groups) /\ Len(buffer) \in Nat
      /\ \A i \in 1 .. Len(buffer) : buffer[i] \in Groups
  BY ElementOfSeq, LenProperties DEF SourceTypeOK
<1>2. /\ Popped(num) \in Nat /\ Popped(num) <= Len(buffer) /\ Popped(num) <= num
      /\ Popped(num) = num \/ Popped(num) = Len(buffer)
  BY <1>1 DEF Popped, Lesser
<1>3. buffer' = SubSeq(buffer, Popped(num) + 1, Len(buffer))
  BY DEF GetSamples
<1>4. /\ buffer' \in Seq(Groups)
      /\ Len(buffer') = Len(buffer) - Popped(num)
      /\ \A k \in 1 .. Len(buffer') : buffer'[k] = buffer[Popped(num) + k]
  <2>1. \A i \in Popped(num) + 1 .. Len(buffer) : buffer[i] \in Groups
    BY <1>1, <1>2
  <2> DEFINE rest == SubSeq(buffer, Popped(num) + 1, Len(buffer))
  <2>2. /\ rest \in Seq(Groups)
        /\ Len(rest) = IF Popped(num) + 1 <= Len(buffer)
                       THEN Len(buffer) - (Popped(num) + 1) + 1 ELSE 0
        /\ \A i \in 1 .. Len(buffer) - (Popped(num) + 1) + 1 :
             rest[i] = buffer[Popped(num) + 1 + i - 1]
    BY <1>1, <1>2, <2>1, SubSeqProperties
  <2> HIDE DEF rest
  <2>3. Len(rest) = Len(buffer) - Popped(num)
    BY <1>1, <1>2, <2>2
  <2>4. \A i \in 1 .. Len(rest) : rest[i] = buffer[Popped(num) + i]
    BY <1>1, <1>2, <2>2, <2>3
  <2>5. buffer' = rest
    BY <1>3 DEF rest
  <2> QED BY <2>2, <2>3, <2>4, <2>5
<1>5. /\ sample_offset' \in Nat /\ epoch_id' \in Nat
      /\ next \in Nat /\ sample_group_index <= next
      /\ next <= sample_group_index + (num - Popped(num))
      /\ prompt_of' \in [0 .. next - 1 -> Prompt]
  <2>1. CASE Popped(num) = num
    <3>1. UNCHANGED <<sample_offset, epoch_id, sample_group_index, prompt_of>>
      BY <2>1 DEF GetSamples
    <3> QED BY <1>1, <2>1, <3>1 DEF SourceTypeOK, Groups
  <2>2. CASE Popped(num) # num
    <3>1. num - Popped(num) \in Nat
      BY <1>2
    <3>2. GetFromDataset(num - Popped(num))
      BY <2>2 DEF GetSamples
    <3> QED BY <3>1, <3>2, DatasetStep
  <2> QED BY <2>1, <2>2
<1>6. Groups' # Groups => buffer' = <<>>
  <2> SUFFICES ASSUME Groups' # Groups PROVE buffer' = <<>>
    OBVIOUS
  <2>1. Popped(num) # num
    BY DEF GetSamples, Groups
  <2>2. Len(buffer') = 0
    BY <1>1, <1>2, <1>4, <2>1
  <2> QED BY <1>4, <2>2, EmptySeq
<1>7. /\ after = 0 .. next - 1
      /\ Groups = 0 .. sample_group_index - 1
  BY DEF Groups
<1> HIDE DEF next, after
<1>8. Groups \subseteq after
  BY <1>1, <1>5, <1>7
<1>9. fresh = sample_group_index .. next - 1
  BY <1>1, <1>5, <1>7
<1> HIDE DEF fresh
<1>10. IsFiniteSet(fresh) /\ Cardinality(fresh) = next - sample_group_index
  <2>1. sample_group_index \in Int /\ next - 1 \in Int
    BY <1>1, <1>5
  <2>2. /\ IsFiniteSet(sample_group_index .. next - 1)
        /\ Cardinality(sample_group_index .. next - 1) =
             IF sample_group_index > next - 1 THEN 0
             ELSE next - 1 - sample_group_index + 1
    BY <2>1, FS_Interval
  <2> DEFINE count == Cardinality(sample_group_index .. next - 1)
  <2> HIDE DEF count
  <2>3. count = next - sample_group_index
    <3>1. count = IF sample_group_index > next - 1 THEN 0
                  ELSE next - 1 - sample_group_index + 1
      BY <2>2 DEF count
    <3> QED BY <1>1, <1>5, <3>1
  <2> QED BY <1>9, <2>2, <2>3 DEF count
<1>11. IsFiniteSet(old) /\ Cardinality(old) <= Popped(num)
  <2> DEFINE f == [i \in 1 .. Popped(num) |-> buffer[i]]
  <2>1. f \in Surjection(1 .. Popped(num), old)
    BY DEF Surjection
  <2>2. IsFiniteSet(1 .. Popped(num)) /\ Cardinality(1 .. Popped(num)) = Popped(num)
    BY <1>2, FS_Interval, SMTT(30)
  <2> HIDE DEF f, old
  <2> QED BY <2>1, <2>2, FS_Surjection
<1>12. old \subseteq Groups
  BY <1>1, <1>2
<1>13. HandedOut(num) = old \cup fresh
  BY DEF HandedOut, after, fresh
<1> HIDE DEF old
<1>14. IsFiniteSet(old \cup fresh) /\ Cardinality(old \cup fresh) <= num
  <2>1. Cardinality(old) \in Nat /\ Cardinality(fresh) \in Nat
    BY <1>10, <1>11, FS_CardinalityType
  <2>2. IsFiniteSet(old \cap fresh) /\ Cardinality(old \cap fresh) \in Nat
    BY <1>10, <1>11, FS_Intersection, FS_CardinalityType
  <2>3. /\ IsFiniteSet(old \cup fresh)
        /\ Cardinality(old \cup fresh) =
             Cardinality(old) + Cardinality(fresh) - Cardinality(old \cap fresh)
    BY <1>10, <1>11, FS_Union
  <2> QED BY <1>1, <1>2, <1>5, <1>10, <1>11, <2>1, <2>2, <2>3, SMTT(30)
<1>15. old \cup fresh \subseteq after
  BY <1>8, <1>12 DEF fresh
<1>16. SourceTypeOK'
  <2>1. buffer' \in Seq(after)
    BY <1>4, <1>8, SeqMonotonic
  <2>2. prompt_of' \in [after -> Prompt]
    BY <1>5, <1>7
  <2>3. next = sample_group_index' /\ after = Groups'
    BY DEF next, after
  <2> QED BY <1>5, <2>1, <2>2, <2>3 DEF SourceTypeOK, Prompt
<1>17. after = Groups'
  BY DEF after
<1>18. after = Groups => Cardinality(old \cup fresh) <= Popped(num)
  <2> SUFFICES ASSUME after = Groups PROVE Cardinality(old \cup fresh) <= Popped(num)
    OBVIOUS
  <2>1. old \cup fresh = old
    BY DEF fresh
  <2> QED BY <1>11, <2>1
<1> QED BY <1>18, <1>1, <1>2, <1>4, <1>6, <1>8, <1>13, <1>14, <1>15, <1>16, <1>17

\* The buffer of get_samples gives away groups it holds once, and keeps the others
\* (data_source.py:177-196, 225-229).
LEMMA BufferTaken ==
  ASSUME SourceTypeOK, NEW num \in Nat, GetSamples(num), NoRepeat(buffer)
  PROVE  /\ NoRepeat(buffer')
         /\ Members(buffer') = Members(buffer) \ HandedOut(num)
         /\ \A g \in HandedOut(num) : g \in Members(buffer) \/ g \notin Groups
         /\ \A g \in Groups' : g \in Groups \/ g \in HandedOut(num)
<1> DEFINE p    == Popped(num)
           n    == Len(buffer)
           rest == buffer'
           got  == HandedOut(num)
           after == Groups'
<1>1. /\ p \in 0 .. n /\ Len(rest) = n - p
      /\ \A k \in 1 .. Len(rest) : rest[k] = buffer[p + k]
  BY GetSamplesStep
<1>2. /\ buffer \in Seq(Groups) /\ n \in Nat
      /\ \A k \in 1 .. n : buffer[k] \in Groups
  BY LenProperties, ElementOfSeq DEF SourceTypeOK
<1>3. \A j, k \in 1 .. n : buffer[j] = buffer[k] => j = k
  BY DEF NoRepeat
<1>4. got = {buffer[i] : i \in 1 .. p} \cup (after \ Groups)
  BY DEF HandedOut
<1> HIDE DEF p, n, rest, got, after
<1>5. \A k \in 1 .. Len(rest) : p + k \in 1 .. n /\ p + k \notin 1 .. p
  BY <1>1, <1>2
<1>6. \A i \in 1 .. p : i \in 1 .. n
  BY <1>1, <1>2
<1>7. \A k \in 1 .. n : k \notin 1 .. p => k - p \in 1 .. Len(rest) /\ p + (k - p) = k
  BY <1>1, <1>2
<1>8. NoRepeat(rest)
  <2>1. ASSUME NEW j \in 1 .. Len(rest), NEW k \in 1 .. Len(rest), rest[j] = rest[k]
        PROVE  j = k
    <3>1. p + j = p + k
      BY <1>1, <1>3, <1>5, <2>1
    <3> QED BY <1>1, <1>2, <3>1
  <2> QED BY <2>1 DEF NoRepeat
<1>9. {rest[k] : k \in 1 .. Len(rest)} = {buffer[k] : k \in 1 .. n} \ got
  <2>1. ASSUME NEW k \in 1 .. Len(rest)
        PROVE  rest[k] \in {buffer[j] : j \in 1 .. n} /\ rest[k] \notin got
    <3>1. rest[k] = buffer[p + k] /\ p + k \in 1 .. n
      BY <1>1, <1>5
    <3>2. \A i \in 1 .. p : buffer[i] # rest[k]
      BY <1>3, <1>5, <1>6, <3>1
    <3> QED BY <1>2, <1>4, <3>1, <3>2
  <2>2. ASSUME NEW k \in 1 .. n, buffer[k] \notin got
        PROVE  \E j \in 1 .. Len(rest) : buffer[k] = rest[j]
    <3>1. k \notin 1 .. p
      BY <1>4, <2>2
    <3> QED BY <1>1, <1>7, <3>1
  <2> QED BY <2>1, <2>2
<1>10. \A g \in got : g \in {buffer[k] : k \in 1 .. n} \/ g \notin Groups
  BY <1>4, <1>6
<1>11. \A g \in after : g \in Groups \/ g \in got
  BY <1>4
<1> QED BY <1>8, <1>9, <1>10, <1>11 DEF Members, n, rest, got, after
=============================================================================
