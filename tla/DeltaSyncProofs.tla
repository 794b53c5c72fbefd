--------------------------- MODULE DeltaSyncProofs ---------------------------
(***************************************************************************)
(* Theorems about the delta weight sync, for any tensors, ranks, engines,  *)
(* bucket size and number of passes: after every sync an engine holds what *)
(* the trainer held, over both transports and with both encodings.         *)
(*                                                                         *)
(* The first part is about the encoding: a bucket restores the tensors it  *)
(* names, however it was joined together.  The second follows a tensor     *)
(* that changed from the snapshot over the chunk, the bucket and the files *)
(* to an engine.                                                           *)
(***************************************************************************)
EXTENDS DeltaSync, FiniteSetTheorems, SequenceTheorems, WellFoundedInduction, TLAPS

\* Models of the shape of the checkpoint.
Weights == {w \in [Tensors -> Seq(Elements)] : \A t \in Tensors : Len(w[t]) = Len(Base[t])}

\* What a blob is made of.
Params == [name : Tensors, width : {2, 4}, pos_start : Nat, pos_end : Nat,
           val_start : Nat, val_end : Nat]
Blobs == [pos : Seq(Int), vals : Seq(Elements), params : Seq(Params)]

\* The tensors a blob has something for, and the tensors of a chunk.
Told(blob) == {blob.params[i].name : i \in DOMAIN blob.params}
InChunk(chunk) == {chunk[i] : i \in DOMAIN chunk}

\* A tensor's places are inside the blob, and as many bytes as its values need.
InBounds(blob, p) ==
  /\ p.val_start <= p.val_end /\ p.val_end <= Len(blob.vals)
  /\ p.pos_end = p.pos_start + p.width * (p.val_end - p.val_start)
  /\ p.pos_end <= Len(blob.pos)

\* Whoever holds one of olds and applies the blob has w, in the tensors it tells of.
Restores(encoding, blob, olds, w) ==
  /\ blob \in Blobs
  /\ \A i \in DOMAIN blob.params :
       /\ InBounds(blob, blob.params[i])
       /\ \A old \in olds : LET t == blob.params[i].name
                            IN  Overwrite(encoding, blob, blob.params[i], old[t]) = w[t]

-----------------------------------------------------------------------------
(* The inductive invariant. *)

\* The engines that were never restarted; while a sync is on; what files are called;
\* snapshots of some tensors.
Loyal == Engines \ restarted
Sending == pc \in {"send", "finalize"}
FileNames == Ranks \X Nat
Partial == UNION {[names -> Seq(Elements)] : names \in SUBSET Tensors}

\* What a rank is in the middle of.
RankStates ==
  [pass : 1 .. LastPass + 1, next : Nat \ {0}, chunk : Seq(Tensors), prev : Partial,
   encoded : Blobs, bucket : Blobs, stage : {"encode", "flush", "call", "barrier"},
   unsent : SUBSET Engines, flushes : Nat]

\* What every variable is.
TypeOK ==
  /\ setting \in Settings
  /\ pc \in {"update", "train", "send", "finalize"}
  /\ version \in Nat /\ seeded \in BOOLEAN /\ published \in BOOLEAN
  /\ weights \in Weights /\ synced \in Weights
  /\ seeded => snapshot \in Weights
  /\ rank \in [Ranks -> RankStates]
  /\ writing \in [Ranks -> Seq([name : FileNames, bucket : Blobs])]
  /\ \A n \in DOMAIN files : n \in FileNames /\ files[n] \in Blobs
  /\ unpublished \in [Ranks -> SUBSET FileNames]
  /\ publishes \in Seq(SUBSET FileNames)
  /\ calls \in [Engines -> IF setting.transport = "nccl" THEN Seq(Ranks)
                           ELSE Seq([names : SUBSET FileNames, version : {version}])]
  /\ held \in [Engines -> Weights] /\ recorded \in [Engines -> Nat]
  /\ paused \in [Engines -> BOOLEAN] /\ restarted \subseteq Engines

\* Whatever the blob is applied to, the trainer's weights come out of it.
Olds == {weights} \cup {held[e] : e \in Loyal}
Carried(blob) == Restores(setting.encoding, blob, Olds, weights)

\* Where a rank is in its passes, and what it carries.
PassInv(r) ==
  LET s == rank[r]
  IN  /\ s.stage \in {"encode", "barrier"} => s.encoded = EmptyBlob
      /\ s.stage = "barrier" => s.next > Len(Chunks(r, s.pass))
      /\ s.stage = "barrier" \/ pc # "send" => s.chunk = NoChunk /\ s.bucket.params = << >>
      /\ s.stage = "call" => setting.transport = "nccl"
      /\ pc # "send" => s.stage = "encode"
      /\ pc = "send" => s.pass = rank[0].pass /\ s.pass <= LastPass
      /\ pc = "finalize" => s.pass = LastPass + 1
      /\ Carried(s.bucket) /\ Carried(s.encoded)

\* The chunk that is being encoded, with the snapshot it is compared to.
ChunkInv(r) ==
  LET s == rank[r]
  IN  \A t \in InChunk(s.chunk) :
        /\ t \in DOMAIN s.prev /\ Len(s.prev[t]) = Len(Base[t])
        /\ s.prev[t] # weights[t] => \A e \in Loyal : held[e][t] \in {s.prev[t], weights[t]}
        /\ snapshot[t] # weights[t] => s.prev[t] = snapshot[t]

\* Both, of every rank.
RanksInv == \A r \in Ranks : PassInv(r) /\ ChunkInv(r)

\* The files: each is written once, and announced when it is there.
FilesInv ==
  /\ \A r \in Ranks : \A i \in DOMAIN writing[r] :
       /\ writing[r][i].name = <<r, rank[r].flushes - Len(writing[r]) + i - 1>>
       /\ writing[r][i].name \in unpublished[r]
       /\ Carried(writing[r][i].bucket)
  /\ \A n \in DOMAIN files :
       /\ n[2] < rank[n[1]].flushes - Len(writing[n[1]])
       /\ Carried(files[n])
  /\ \A r \in Ranks : \A n \in unpublished[r] :
       n \in DOMAIN files \/ \E i \in DOMAIN writing[r] : writing[r][i].name = n
  /\ \A i \in DOMAIN publishes : publishes[i] \subseteq DOMAIN files
  /\ setting.transport = "disk" =>
       \A e \in Engines : \A i \in DOMAIN calls[e] : calls[e][i].names \subseteq DOMAIN files
  /\ setting.transport = "nccl" => \A r \in Ranks : writing[r] = << >>
  /\ setting.transport = "nccl" => publishes = << >> /\ \A r \in Ranks : unpublished[r] = {}
  /\ pc # "send" => \A r \in Ranks : writing[r] = << >> /\ unpublished[r] = {}
  /\ ~Sending => files = << >> /\ publishes = << >>
  /\ ~Sending /\ setting.transport = "disk" => \A e \in Engines : calls[e] = << >>

\* A tensor that a rank has still to compare.
Left(r, s, t) ==
  \/ t \in InChunk(s.chunk)
  \/ \E p \in 1 .. LastPass : \E k \in DOMAIN Chunks(r, p) :
       /\ t \in InChunk(Chunks(r, p)[k])
       /\ p > s.pass \/ (p = s.pass /\ k >= s.next)
ToCome(t) == \E r \in Ranks : Left(r, rank[r], t)

\* The files an engine has still to be told of, or to load.
Outstanding(e) ==
  (UNION {unpublished[r] : r \in Ranks}) \cup (UNION {publishes[i] : i \in DOMAIN publishes}) \cup
    (IF setting.transport = "disk" THEN UNION {calls[e][i].names : i \in DOMAIN calls[e]} ELSE {})

\* A tensor whose change is on its way to an engine.
Underway(e, t) ==
  \/ \E r \in Ranks : t \in Told(rank[r].bucket) \cup Told(rank[r].encoded)
  \/ \E r \in Ranks : \E i \in DOMAIN writing[r] : t \in Told(writing[r][i].bucket)
  \/ \E n \in DOMAIN files \cap Outstanding(e) : t \in Told(files[n])

\* What was not compared the engines hold as the snapshot or already as the
\* trainer does; what was compared they hold, or it is on its way to them.
Progress ==
  \A t \in Tensors :
    /\ snapshot[t] # weights[t] =>
         ToCome(t) /\ \A e \in Loyal : held[e][t] \in {snapshot[t], weights[t]}
    /\ \A e \in Loyal : held[e][t] # weights[t] => snapshot[t] # weights[t] \/ Underway(e, t)

\* What the trainer, the snapshot and the engines have of each other's weights.
SyncInv ==
  /\ ~seeded => /\ pc = "update" /\ version = 0 /\ weights = Base /\ synced = Base
                /\ \A e \in Engines : held[e] = Base /\ recorded[e] = 0
  /\ pc = "train" => weights = synced
  /\ Sending => synced = weights /\ Progress /\ \A e \in Engines : paused[e]
  /\ seeded /\ ~Sending => snapshot = synced /\ \A e \in Loyal : held[e] = synced

\* With files: who was told of one records the version when it was loaded.
VersionInv ==
  setting.transport = "disk" =>
    IF Sending
      THEN published => \A e \in Engines : recorded[e] = version \/ publishes # << >> \/ calls[e] # << >>
      ELSE \A e \in Engines : recorded[e] = version

\* The inductive invariant.
IInv == TypeOK /\ RanksInv /\ FilesInv /\ SyncInv /\ VersionInv

-----------------------------------------------------------------------------
(***************************************************************************)
(* The encoding.                                                           *)
(***************************************************************************)

\* A set of numbers that is not empty has a least one.
LEMMA LeastNumber ==
  ASSUME NEW S \in SUBSET Nat, S # {}
  PROVE  \E n \in S : \A m \in S : n <= m
<1>1. PICK n \in S : \A m \in S : ~(<<m, n>> \in OpToRel(<, Nat))
  BY NatLessThanWellFounded, WFMin
<1>2. \A m \in S : ~(m < n)
  BY <1>1 DEF OpToRel
<1> QED BY <1>2

\* The number of smaller elements tells the elements of a set apart, and takes
\* every value below the size of the set.
LEMMA Ranking ==
  ASSUME NEW S \in SUBSET Nat, IsFiniteSet(S)
  PROVE  /\ \A g, h \in S : g < h =>
              Cardinality({j \in S : j < g}) < Cardinality({j \in S : j < h})
         /\ \A g \in S : Cardinality({j \in S : j < g}) \in 0 .. Cardinality(S) - 1
         /\ \A r \in 0 .. Cardinality(S) - 1 : \E g \in S : Cardinality({j \in S : j < g}) = r
<1> DEFINE below(g) == {j \in S : j < g}
           ranked == [g \in S |-> Cardinality(below(g))]
           size == Cardinality(S)
<1>1. size \in Nat
  BY FS_CardinalityType
<1>2. ASSUME NEW g \in S
      PROVE  IsFiniteSet(below(g)) /\ Cardinality(below(g)) \in Nat
  <2>1. below(g) \in SUBSET S
    OBVIOUS
  <2> HIDE DEF below
  <2>2. IsFiniteSet(below(g))
    BY <2>1, FS_Subset
  <2> QED BY <2>2, FS_CardinalityType
<1>3. ASSUME NEW g \in S, NEW h \in S, g < h
      PROVE  Cardinality(below(g)) < Cardinality(below(h))
  <2>1. below(g) \subseteq below(h) \ {g} /\ g \in below(h)
    <3>1. \A x \in S : x < g => x < h /\ x # g
      BY <1>3
    <3> QED BY <1>3, <3>1, Zenon
  <2>2. /\ IsFiniteSet(below(h) \ {g})
        /\ Cardinality(below(h) \ {g}) = Cardinality(below(h)) - 1
    BY <1>2, <2>1, FS_RemoveElement
  <2>3. Cardinality(below(g)) <= Cardinality(below(h) \ {g})
    BY <2>1, <2>2, FS_Subset
  <2> HIDE DEF below
  <2> QED BY <1>2, <2>2, <2>3
<1>4. ASSUME NEW g \in S
      PROVE  Cardinality(below(g)) < size
  <2>1. below(g) \subseteq S \ {g}
    OBVIOUS
  <2>2. IsFiniteSet(S \ {g}) /\ Cardinality(S \ {g}) = size - 1
    BY FS_RemoveElement
  <2>3. Cardinality(below(g)) <= Cardinality(S \ {g})
    BY <2>1, <2>2, FS_Subset
  <2> HIDE DEF below
  <2> QED BY <1>1, <1>2, <2>2, <2>3
<1> HIDE DEF below
<1>5. ranked \in [S -> 0 .. size - 1]
  <2> SUFFICES ASSUME NEW g \in S PROVE Cardinality(below(g)) \in 0 .. size - 1
    OBVIOUS
  <2> HIDE DEF size
  <2> QED BY <1>1, <1>2, <1>4
<1>6. ASSUME NEW g \in S, NEW h \in S, ranked[g] = ranked[h]
      PROVE  g = h
  <2>1. ~(g < h) /\ ~(h < g)
    BY <1>2, <1>3, <1>6
  <2> QED BY <2>1
<1>7. ranked \in Injection(S, 0 .. size - 1)
  <2> HIDE DEF ranked, size
  <2> QED BY <1>5, <1>6 DEF Injection, IsInjective
<1>8. ranked \in Surjection(S, 0 .. size - 1)
  <2>1. IsFiniteSet(0 .. size - 1) /\ Cardinality(0 .. size - 1) = size
    <3> HIDE DEF size
    <3> QED BY <1>1, FS_Interval
  <2> HIDE DEF ranked
  <2> QED BY <1>7, <2>1, FS_Injection
<1>9. \A r \in 0 .. size - 1 : \E g \in S : Cardinality(below(g)) = r
  <2>1. \A r \in 0 .. size - 1 : \E g \in S : ranked[g] = r
    <3> HIDE DEF ranked, size
    <3> QED BY <1>8 DEF Surjection
  <2> HIDE DEF size
  <2> QED BY <2>1
<1>10. \A g \in S : Cardinality(below(g)) \in 0 .. size - 1
  BY <1>5
<1> QED BY <1>3, <1>9, <1>10 DEF below

\* Positions are the positions of the mask, in increasing order.
LEMMA PositionsCorrect ==
  ASSUME NEW d, d.mask \in SUBSET Nat, IsFiniteSet(d.mask), NEW at, at = Positions(d)
  PROVE  /\ at \in Seq(Nat) /\ Len(at) = Cardinality(d.mask) /\ Len(at) \in Nat
         /\ \A k \in 1 .. Len(at) : at[k] \in d.mask
         /\ \A i \in d.mask : \E k \in 1 .. Len(at) : at[k] = i
         /\ \A j, k \in 1 .. Len(at) : j < k => at[j] < at[k]
<1> DEFINE S == d.mask
           n == Cardinality(S)
           below(g) == Cardinality({j \in S : j < g})
<1>1. n \in Nat
  BY FS_CardinalityType
<1>2. /\ \A g, h \in S : g < h => below(g) < below(h)
      /\ \A g \in S : below(g) \in 0 .. n - 1
      /\ \A r \in 0 .. n - 1 : \E g \in S : below(g) = r
  BY Ranking
<1>3. at = [k \in 1 .. n |-> CHOOSE i \in S : below(i) = k - 1]
  BY DEF Positions
<1> HIDE DEF S, n, below
<1>4. S \subseteq Nat
  BY DEF S
<1>5. \A k \in 1 .. n : at[k] \in S /\ below(at[k]) = k - 1
  <2> SUFFICES ASSUME NEW k \in 1 .. n PROVE at[k] \in S /\ below(at[k]) = k - 1
    OBVIOUS
  <2>1. k - 1 \in 0 .. n - 1
    BY <1>1
  <2>2. \E g \in S : below(g) = k - 1
    BY <1>2, <2>1
  <2>3. at[k] = CHOOSE i \in S : below(i) = k - 1
    BY <1>3
  <2> QED BY <2>2, <2>3
<1>6. at \in [1 .. n -> Nat]
  BY <1>3, <1>4, <1>5
<1>7. at \in Seq(Nat) /\ Len(at) = n
  BY <1>1, <1>6
<1>8. \A i \in S : \E k \in 1 .. n : at[k] = i
  <2> SUFFICES ASSUME NEW i \in S PROVE \E k \in 1 .. n : at[k] = i
    OBVIOUS
  <2>1. below(i) \in 0 .. n - 1 /\ below(i) + 1 \in 1 .. n
    BY <1>1, <1>2
  <2> DEFINE k == below(i) + 1
  <2>2. at[k] \in S /\ below(at[k]) = below(i)
    BY <1>1, <1>5, <2>1
  <2>3. ~(at[k] < i) /\ ~(i < at[k])
    BY <1>1, <1>2, <2>1, <2>2
  <2>4. at[k] = i
    <3>1. at[k] \in Nat /\ i \in Nat
      BY <1>4, <2>2
    <3> HIDE DEF k
    <3> QED BY <2>3, <3>1
  <2> QED BY <2>1, <2>4
<1>9. \A j, k \in 1 .. n : j < k => at[j] < at[k]
  <2> SUFFICES ASSUME NEW j \in 1 .. n, NEW k \in 1 .. n, j < k PROVE at[j] < at[k]
    OBVIOUS
  <2>1. at[j] \in S /\ at[k] \in S /\ below(at[j]) = j - 1 /\ below(at[k]) = k - 1
    BY <1>5
  <2>2. at[j] # at[k] /\ ~(at[k] < at[j])
    BY <1>1, <1>2, <2>1
  <2>3. at[j] \in Nat /\ at[k] \in Nat
    BY <1>4, <2>1
  <2> QED BY <2>2, <2>3
<1> QED BY <1>1, <1>5, <1>7, <1>8, <1>9 DEF S, n

\* The gaps that encode_deltas stores are numbers that fit the width it chose.
LEMMA GapsFit ==
  ASSUME NEW d, d.mask \in SUBSET Nat, IsFiniteSet(d.mask), NEW packed, packed = Deltas(d)
  PROVE  /\ packed.positions \in Seq(Nat) /\ Len(packed.positions) = Len(Positions(d))
         /\ packed.width \in {2, 4}
         /\ packed.width = 2 => \A k \in 1 .. Len(packed.positions) : packed.positions[k] <= MaxShort
         /\ \A k \in 1 .. Len(packed.positions) :
              packed.positions[k] =
                Positions(d)[k] - (IF k = 1 THEN -1 ELSE Positions(d)[k - 1]) - 1
<1> DEFINE at == Positions(d)
           n == Len(at)
           gaps == [k \in DOMAIN at |-> at[k] - (IF k = 1 THEN -1 ELSE at[k - 1]) - 1]
           width == IF \A k \in DOMAIN gaps : gaps[k] <= MaxShort THEN 2 ELSE 4
<1>1. /\ at \in Seq(Nat) /\ n \in Nat
      /\ \A j, k \in 1 .. n : j < k => at[j] < at[k]
  <2> HIDE DEF at
  <2> QED BY PositionsCorrect DEF at
<1>2. packed = [positions |-> gaps, width |-> width]
  BY DEF Deltas
<1> HIDE DEF at
<1>3. DOMAIN at = 1 .. n /\ \A k \in 1 .. n : at[k] \in Nat
  BY <1>1
<1>4. \A k \in 1 .. n : gaps[k] \in Nat
  <2> SUFFICES ASSUME NEW k \in 1 .. n PROVE gaps[k] \in Nat
    OBVIOUS
  <2>1. CASE k = 1
    BY <1>3, <2>1
  <2>2. CASE k # 1
    <3>1. k - 1 \in 1 .. n /\ k - 1 < k
      BY <1>1, <2>2
    <3>2. at[k - 1] < at[k] /\ at[k - 1] \in Nat /\ at[k] \in Nat
      BY <1>1, <1>3, <3>1
    <3>3. gaps[k] = at[k] - at[k - 1] - 1
      BY <1>3, <2>2
    <3> QED BY <3>2, <3>3
  <2> QED BY <2>1, <2>2
<1>5. gaps \in [1 .. n -> Nat]
  BY <1>3, <1>4
<1>6. gaps \in Seq(Nat) /\ Len(gaps) = n
  <2> HIDE DEF gaps, n
  <2> QED BY <1>1, <1>5
<1>7. width = 2 => \A k \in 1 .. n : gaps[k] <= MaxShort
  <2>1. DOMAIN gaps = 1 .. n
    BY <1>3
  <2> QED BY <2>1
<1>8. \A k \in 1 .. n : gaps[k] = at[k] - (IF k = 1 THEN -1 ELSE at[k - 1]) - 1
  BY <1>3
<1> HIDE DEF gaps, width, n
<1>9. width \in {2, 4}
  BY DEF width
<1> QED BY <1>2, <1>6, <1>7, <1>8, <1>9 DEF at, n

\* The engine's cumulative sum undoes the gaps: it reads the positions again.
LEMMA DecodePacked ==
  ASSUME NEW d, d.mask \in SUBSET Nat, IsFiniteSet(d.mask), NEW encoding,
         NEW packed, packed = Packed(encoding, d)
  PROVE  /\ packed.positions \in Seq(Nat) /\ Len(packed.positions) = Len(Positions(d))
         /\ packed.width \in {2, 4}
         /\ Decode(encoding, packed.positions) = Positions(d)
<1> DEFINE at == Positions(d)
           n == Len(at)
           gaps == packed.positions
<1>1. at \in Seq(Nat) /\ n \in Nat
  <2> HIDE DEF at
  <2> QED BY PositionsCorrect DEF at
<1>2. CASE encoding = "indices"
  <2>1. packed = [positions |-> at, width |-> 4]
    BY <1>2 DEF Packed, Indices
  <2>2. Decode(encoding, packed.positions) = packed.positions
    BY <1>2 DEF Decode
  <2> QED BY <1>1, <2>1, <2>2
<1>3. CASE encoding # "indices"
  <2>1. packed = Deltas(d)
    BY <1>3 DEF Packed
  <2>2. /\ gaps \in Seq(Nat) /\ Len(gaps) = n /\ packed.width \in {2, 4}
        /\ \A k \in 1 .. n : gaps[k] = at[k] - (IF k = 1 THEN -1 ELSE at[k - 1]) - 1
    BY <2>1, GapsFit
  <2> DEFINE Sums(g) == g = [k \in 0 .. n |-> IF k = 0 THEN -1 ELSE g[k - 1] + gaps[k] + 1]
             sums == CHOOSE g : Sums(g)
             want == [k \in 0 .. n |-> IF k = 0 THEN -1 ELSE at[k]]
  <2> HIDE DEF at, n, gaps
  <2>3. \A k \in 1 .. n : at[k] \in Nat /\ gaps[k] \in Nat
    BY <1>1, <2>2 DEF n
  <2>4. ASSUME NEW k \in 1 .. n
        PROVE  want[k - 1] + gaps[k] + 1 = at[k]
    <3>1. CASE k = 1
      <4>1. want[k - 1] = -1
        BY <1>1, <3>1
      <4>2. gaps[k] = at[k] - (-1) - 1
        BY <2>2, <3>1
      <4> QED BY <2>3, <4>1, <4>2
    <3>2. CASE k # 1
      <4>1. k - 1 \in 1 .. n /\ k - 1 # 0
        BY <1>1, <3>2
      <4>2. want[k - 1] = at[k - 1]
        BY <4>1
      <4>3. gaps[k] = at[k] - at[k - 1] - 1
        BY <2>2, <3>2
      <4>4. at[k] \in Nat /\ at[k - 1] \in Nat
        BY <2>3, <4>1
      <4> QED BY <4>2, <4>3, <4>4
    <3> QED BY <3>1, <3>2
  <2>5. Sums(want)
    <3>1. \A k \in 0 .. n : want[k] = IF k = 0 THEN -1 ELSE want[k - 1] + gaps[k] + 1
      <4> SUFFICES ASSUME NEW k \in 0 .. n
                   PROVE  want[k] = IF k = 0 THEN -1 ELSE want[k - 1] + gaps[k] + 1
        OBVIOUS
      <4>1. CASE k = 0
        BY <4>1
      <4>2. CASE k # 0
        <5>1. k \in 1 .. n
          BY <1>1, <4>2
        <5> QED BY <2>4, <4>2, <5>1
      <4> QED BY <4>1, <4>2
    <3>2. DOMAIN want = 0 .. n
      OBVIOUS
    <3> QED BY <3>1, <3>2, Zenon
  <2>6. Sums(sums)
    BY <2>5
  <2> HIDE DEF sums
  <2>7. /\ sums[0] = -1
        /\ \A k \in 1 .. n : sums[k] = sums[k - 1] + gaps[k] + 1
    <3>1. \A k \in 0 .. n : sums[k] = IF k = 0 THEN -1 ELSE sums[k - 1] + gaps[k] + 1
      BY <2>6
    <3>2. 0 \in 0 .. n /\ \A k \in 1 .. n : k \in 0 .. n /\ k # 0
      BY <1>1
    <3> QED BY <3>1, <3>2
  <2> HIDE DEF Sums
  <2>8. \A k \in 0 .. n : sums[k] = want[k]
    <3> DEFINE wrong == {k \in 0 .. n : sums[k] # want[k]}
    <3> SUFFICES ASSUME wrong # {} PROVE FALSE
      OBVIOUS
    <3>1. wrong \in SUBSET Nat
      BY <1>1
    <3>2. PICK k \in wrong : \A j \in wrong : k <= j
      BY <3>1, LeastNumber, Zenon
    <3>3. k \in 0 .. n /\ sums[k] # want[k]
      BY <3>2
    <3>4. k # 0
      BY <1>1, <2>7, <3>3
    <3>5. k \in 1 .. n /\ k - 1 \in 0 .. n
      BY <1>1, <3>3, <3>4
    <3>6. k - 1 \notin wrong
      BY <1>1, <3>2, <3>3
    <3>7. sums[k - 1] = want[k - 1]
      BY <3>5, <3>6
    <3>8. sums[k] = at[k]
      BY <2>4, <2>7, <3>5, <3>7
    <3>9. want[k] = at[k]
      BY <3>3, <3>4
    <3> QED BY <3>3, <3>8, <3>9
  <2>9. Decode(encoding, gaps) = [k \in DOMAIN gaps |-> sums[k]]
    <3>1. Len(gaps) = n
      BY <2>2
    <3> QED BY <1>3, <3>1 DEF Decode, sums, Sums
  <2>10. DOMAIN gaps = 1 .. n /\ DOMAIN at = 1 .. n /\ at = [k \in DOMAIN at |-> at[k]]
    BY <1>1, <2>2 DEF n
  <2>11. \A k \in 1 .. n : sums[k] = at[k]
    <3>1. \A k \in 1 .. n : k \in 0 .. n /\ k # 0
      BY <1>1
    <3> QED BY <2>8, <3>1
  <2>12. Decode(encoding, gaps) = at
    BY <2>9, <2>10, <2>11
  <2> QED BY <2>2, <2>12 DEF at, n, gaps
<1> QED BY <1>2, <1>3

\* A position stands in the first of its bytes.
LEMMA BytesCorrect ==
  ASSUME NEW positions \in Seq(Nat), NEW width \in {2, 4}, NEW bytes, bytes = Bytes(positions, width)
  PROVE  /\ bytes \in Seq(Int) /\ Len(bytes) = width * Len(positions)
         /\ \A k \in 1 .. Len(positions) :
              /\ (k - 1) * width + 1 \in 1 .. width * Len(positions)
              /\ bytes[(k - 1) * width + 1] = positions[k]
<1> DEFINE n == Len(positions)
           size == width * n
<1>1. n \in Nat /\ size \in Nat /\ \A k \in 1 .. n : positions[k] \in Nat
  OBVIOUS
<1>2. bytes = [i \in 1 .. size |-> IF i % width = 1 THEN positions[(i \div width) + 1] ELSE Blank]
  BY DEF Bytes
<1>3. ASSUME NEW k \in 1 .. n
      PROVE  /\ (k - 1) * width + 1 \in 1 .. size
             /\ bytes[(k - 1) * width + 1] = positions[k]
  <2> DEFINE i == (k - 1) * width + 1
  <2>1. i \in 1 .. size /\ i % width = 1 /\ (i \div width) + 1 = k
    <3>1. CASE width = 2
      BY <1>1, <3>1
    <3>2. CASE width = 4
      BY <1>1, <3>2
    <3> QED BY <3>1, <3>2
  <2> HIDE DEF i, size, n
  <2>2. bytes[i] = positions[k]
    BY <1>2, <2>1
  <2> QED BY <2>1, <2>2 DEF i
<1>4. ASSUME NEW i \in 1 .. size
      PROVE  bytes[i] \in Int
  <2>1. CASE i % width = 1
    <3>1. (i \div width) + 1 \in 1 .. n
      <4>1. CASE width = 2
        BY <1>1, <2>1, <4>1
      <4>2. CASE width = 4
        BY <1>1, <2>1, <4>2
      <4> QED BY <4>1, <4>2
    <3>2. bytes[i] = positions[(i \div width) + 1]
      BY <1>2, <2>1
    <3> QED BY <1>1, <3>1, <3>2
  <2>2. CASE i % width # 1
    BY <1>2, <2>2 DEF Blank
  <2> QED BY <2>1, <2>2
<1> HIDE DEF size, n
<1>5. bytes \in [1 .. size -> Int]
  BY <1>2, <1>4
<1>6. bytes \in Seq(Int) /\ Len(bytes) = size
  BY <1>1, <1>5
<1> QED BY <1>3, <1>6 DEF size, n

\* The empty bucket tells of nothing.
LEMMA EmptyBlobFacts ==
  EmptyBlob \in Blobs /\ EmptyBlob.params = << >> /\ Told(EmptyBlob) = {} /\ DOMAIN EmptyBlob.params = {}
<1>1. EmptyBlob = [pos |-> << >>, vals |-> << >>, params |-> << >>]
  BY DEF EmptyBlob
<1>2. << >> \in Seq(Int) /\ << >> \in Seq(Elements) /\ << >> \in Seq(Params)
  OBVIOUS
<1>3. EmptyBlob \in Blobs
  <2> HIDE DEF Params
  <2> QED BY <1>1, <1>2 DEF Blobs
<1>4. EmptyBlob.params = << >> /\ DOMAIN EmptyBlob.params = {}
  BY <1>1
<1> QED BY <1>3, <1>4 DEF Told

\* A blob for one tensor, with which whoever holds its old or its new elements has the new.
Patches(encoding, blob, t, prev, current) ==
  /\ blob \in Blobs
  /\ current # prev => t \in Told(blob)
  /\ current = prev => blob.params = << >>
  /\ \A i \in DOMAIN blob.params :
       /\ blob.params[i].name = t
       /\ InBounds(blob, blob.params[i])
       /\ \A old \in {prev, current} : Overwrite(encoding, blob, blob.params[i], old) = current

\* What is encoded for one tensor: nothing if it did not change, or the places
\* and the values with which the engine makes the current tensor of the old one.
LEMMA EncodeOneCorrect ==
  ASSUME NEW encoding, NEW t \in Tensors, NEW current \in Seq(Elements), NEW prev \in Seq(Elements),
         Len(prev) = Len(current), NEW blob, blob = EncodeOne(encoding, Diff(t, current, prev))
  PROVE  Patches(encoding, blob, t, prev, current)
<1> DEFINE d == Diff(t, current, prev)
           at == Positions(d)
           n == Len(at)
           packed == Packed(encoding, d)
           size == Len(current)
<1>1. /\ d.name = t /\ d.values = current
      /\ d.mask = {i \in 0 .. size - 1 : current[i + 1] # prev[i + 1]}
  BY DEF Diff
<1>2. size \in Nat /\ DOMAIN current = 1 .. size /\ DOMAIN prev = 1 .. size
  OBVIOUS
<1> HIDE DEF d, size
<1>3. d.mask \in SUBSET Nat /\ IsFiniteSet(d.mask)
  <2>1. d.mask \subseteq 0 .. size - 1
    BY <1>1
  <2>2. IsFiniteSet(0 .. size - 1)
    BY <1>2, FS_Interval
  <2>3. IsFiniteSet(d.mask)
    BY <2>1, <2>2, FS_Subset
  <2>4. 0 .. size - 1 \subseteq Nat
    BY <1>2
  <2> QED BY <2>1, <2>3, <2>4
<1>4. \A old \in {prev, current} : \A i \in 1 .. size : i - 1 \notin d.mask => old[i] = current[i]
  <2> SUFFICES ASSUME NEW i \in 1 .. size, i - 1 \notin d.mask PROVE prev[i] = current[i]
    OBVIOUS
  <2>1. i - 1 \in 0 .. size - 1 /\ (i - 1) + 1 = i
    BY <1>2
  <2> QED BY <1>1, <2>1
<1>5. CASE d.mask = {}
  <2>1. blob = EmptyBlob
    BY <1>5 DEF EncodeOne, d
  <2>2. prev = current
    <3>1. \A i \in 1 .. size : prev[i] = current[i]
      BY <1>4, <1>5
    <3>2. Len(prev) = size
      BY DEF size
    <3> QED BY <3>1, <3>2, SeqEqual DEF size
  <2> QED BY <2>1, <2>2, EmptyBlobFacts DEF Patches
<1>6. CASE d.mask # {}
  <2> DEFINE p == [name |-> d.name, width |-> packed.width,
                   pos_start |-> 0, pos_end |-> packed.width * Len(at),
                   val_start |-> 0, val_end |-> Len(at)]
             vals == [k \in DOMAIN at |-> d.values[at[k] + 1]]
             bytes == Bytes(packed.positions, packed.width)
  <2>1. blob = [pos |-> bytes, vals |-> vals, params |-> <<p>>]
    BY <1>6 DEF EncodeOne, d
  <2>2. /\ at \in Seq(Nat) /\ n \in Nat
        /\ \A k \in 1 .. n : at[k] \in d.mask
        /\ \A i \in d.mask : \E k \in 1 .. n : at[k] = i
        /\ \A j, k \in 1 .. n : j < k => at[j] < at[k]
    <3> HIDE DEF at
    <3> QED BY <1>3, PositionsCorrect DEF at
  <2>3. /\ packed.positions \in Seq(Nat) /\ Len(packed.positions) = n /\ packed.width \in {2, 4}
        /\ Decode(encoding, packed.positions) = at
    BY <1>3, DecodePacked
  <2> HIDE DEF at, packed
  <2>4. /\ bytes \in Seq(Int) /\ Len(bytes) = packed.width * n
        /\ \A k \in 1 .. n : bytes[(k - 1) * packed.width + 1] = packed.positions[k]
    <3> DEFINE ps == packed.positions
               wide == packed.width
    <3>1. ps \in Seq(Nat) /\ Len(ps) = n /\ wide \in {2, 4} /\ bytes = Bytes(ps, wide)
      BY <2>3
    <3> HIDE DEF ps, wide, bytes, n
    <3>2. /\ bytes \in Seq(Int) /\ Len(bytes) = wide * Len(ps)
          /\ \A k \in 1 .. Len(ps) : bytes[(k - 1) * wide + 1] = ps[k]
      BY <3>1, BytesCorrect
    <3> QED BY <3>1, <3>2 DEF ps, wide
  <2>5. DOMAIN at = 1 .. n
    BY <2>2
  <2>6. \A k \in 1 .. n : at[k] + 1 \in 1 .. size /\ vals[k] = current[at[k] + 1]
    <3> SUFFICES ASSUME NEW k \in 1 .. n
                 PROVE  at[k] + 1 \in 1 .. size /\ vals[k] = current[at[k] + 1]
      OBVIOUS
    <3>1. at[k] \in 0 .. size - 1
      BY <1>1, <2>2
    <3> QED BY <1>1, <1>2, <2>5, <3>1
  <2>7. vals \in Seq(Elements) /\ Len(vals) = n
    <3>1. \A k \in 1 .. n : vals[k] \in Elements
      <4>1. \A i \in 1 .. size : current[i] \in Elements
        BY DEF size
      <4> QED BY <2>6, <4>1
    <3>2. vals \in [1 .. n -> Elements]
      BY <2>5, <3>1
    <3> HIDE DEF vals, n
    <3> QED BY <2>2, <3>2
  <2> HIDE DEF vals, bytes
  <2>8. p \in Params
    <3>1. packed.width * n \in Nat
      BY <2>2, <2>3
    <3> QED BY <1>1, <2>2, <2>3, <3>1 DEF Params
  <2>9. /\ p.name = t /\ p.pos_start = 0 /\ p.val_start = 0 /\ p.width = packed.width
        /\ p.pos_end = packed.width * n /\ p.val_end = n
    BY <1>1
  <2> HIDE DEF p
  <2>10. blob.pos = bytes /\ blob.vals = vals /\ blob.params = <<p>> /\ blob \in Blobs
    <3>1. <<p>> \in Seq(Params)
      BY <2>8
    <3>2. blob.pos = bytes /\ blob.vals = vals /\ blob.params = <<p>>
      BY <2>1
    <3> QED BY <2>1, <2>4, <2>7, <3>1, <3>2 DEF Blobs
  <2>11. DOMAIN blob.params = {1} /\ blob.params[1] = p
    BY <2>10
  <2>12. InBounds(blob, p)
    <3>1. packed.width * n = 0 + packed.width * (n - 0) /\ n <= n /\ 0 <= n
          /\ packed.width * n <= packed.width * n
      BY <2>2, <2>3
    <3> HIDE DEF n
    <3> QED BY <2>4, <2>7, <2>9, <2>10, <3>1 DEF InBounds
  <2>13. Raw(blob, p) = packed.positions
    <3>1. (p.pos_end - p.pos_start) \div p.width = n
      <4>1. CASE packed.width = 2
        BY <2>2, <2>9, <4>1
      <4>2. CASE packed.width = 4
        BY <2>2, <2>9, <4>2
      <4> QED BY <2>3, <4>1, <4>2
    <3>2. \A k \in 1 .. n : p.pos_start + (k - 1) * p.width + 1 = (k - 1) * packed.width + 1
      BY <2>2, <2>3, <2>9
    <3>3. Raw(blob, p) = [k \in 1 .. n |-> bytes[(k - 1) * packed.width + 1]]
      <4>1. Raw(blob, p) = [k \in 1 .. n |-> bytes[p.pos_start + (k - 1) * p.width + 1]]
        BY <2>10, <3>1 DEF Raw
      <4> HIDE DEF n
      <4> QED BY <3>2, <4>1
    <3>4. Raw(blob, p) = [k \in 1 .. n |-> packed.positions[k]]
      <4> HIDE DEF n
      <4> QED BY <2>4, <3>3
    <3>5. packed.positions = [k \in 1 .. n |-> packed.positions[k]]
      <4>1. DOMAIN packed.positions = 1 .. Len(packed.positions)
        BY <2>3
      <4> QED BY <2>3, <4>1
    <3> QED BY <3>4, <3>5
  <2>14. ASSUME NEW old \in {prev, current}
         PROVE  Overwrite(encoding, blob, p, old) = current
    <3> DEFINE new == [i \in DOMAIN old |->
                         IF \E k \in DOMAIN at : at[k] = i - 1
                         THEN vals[p.val_start + (CHOOSE k \in DOMAIN at : at[k] = i - 1)]
                         ELSE old[i]]
    <3>1. Overwrite(encoding, blob, p, old) = new
      BY <2>3, <2>10, <2>13 DEF Overwrite
    <3>2. DOMAIN old = 1 .. size
      BY <1>2
    <3>3. ASSUME NEW i \in 1 .. size
          PROVE  new[i] = current[i]
      <4>1. CASE \E k \in 1 .. n : at[k] = i - 1
        <5> DEFINE k == CHOOSE k \in 1 .. n : at[k] = i - 1
        <5>1. k \in 1 .. n /\ at[k] = i - 1
          BY <4>1
        <5>2. new[i] = vals[0 + k]
          BY <2>5, <2>9, <3>2, <4>1
        <5> HIDE DEF k
        <5>3. 0 + k = k /\ at[k] + 1 = i
          BY <5>1
        <5>4. vals[k] = current[at[k] + 1]
          BY <2>6, <5>1
        <5> HIDE DEF new
        <5> QED BY <5>2, <5>3, <5>4
      <4>2. CASE ~\E k \in 1 .. n : at[k] = i - 1
        <5>1. i - 1 \notin d.mask
          BY <2>2, <4>2
        <5>2. new[i] = old[i]
          BY <2>5, <3>2, <4>2
        <5> QED BY <1>4, <5>1, <5>2
      <4> QED BY <4>1, <4>2
    <3>4. current = [i \in 1 .. size |-> current[i]]
      BY <1>2
    <3>5. new = [i \in 1 .. size |-> new[i]]
      BY <3>2
    <3> HIDE DEF new
    <3>6. new = current
      BY <3>3, <3>4, <3>5
    <3> QED BY <3>1, <3>6
  <2>15. t \in Told(blob)
    BY <2>9, <2>11 DEF Told
  <2>16. current # prev
    BY <1>1, <1>6
  <2> QED BY <2>9, <2>10, <2>11, <2>12, <2>14, <2>15, <2>16 DEF Patches
<1> QED BY <1>5, <1>6

\* What an engine reads for a tensor depends on the tensor's own places only.
LEMMA SamePart ==
  ASSUME NEW encoding, NEW b \in Blobs, NEW c \in Blobs, NEW p \in Params, NEW q \in Params,
         InBounds(b, p), InBounds(c, q), q.width = p.width,
         q.val_end - q.val_start = p.val_end - p.val_start,
         \A j \in 1 .. p.pos_end - p.pos_start : c.pos[q.pos_start + j] = b.pos[p.pos_start + j],
         \A j \in 1 .. p.val_end - p.val_start : c.vals[q.val_start + j] = b.vals[p.val_start + j],
         NEW old
  PROVE  Overwrite(encoding, c, q, old) = Overwrite(encoding, b, p, old)
<1> DEFINE n == p.val_end - p.val_start
           raw == Raw(b, p)
           at == Decode(encoding, raw)
<1>1. /\ p.pos_start \in Nat /\ p.pos_end \in Nat /\ p.val_start \in Nat /\ p.val_end \in Nat
      /\ q.pos_start \in Nat /\ q.pos_end \in Nat /\ q.val_start \in Nat /\ q.val_end \in Nat
      /\ p.width \in {2, 4}
  BY DEF Params
<1>2. n \in Nat /\ p.pos_end = p.pos_start + p.width * n /\ q.pos_end = q.pos_start + p.width * n
  <2>1. p.val_start <= p.val_end /\ p.pos_end = p.pos_start + p.width * n
    BY DEF InBounds
  <2>2. q.pos_end = q.pos_start + q.width * (q.val_end - q.val_start)
    BY DEF InBounds
  <2>3. q.pos_end = q.pos_start + p.width * n
    BY <2>2
  <2>4. n \in Nat
    BY <1>1, <2>1
  <2> QED BY <2>1, <2>3, <2>4
<1>3. /\ (p.pos_end - p.pos_start) \div p.width = n /\ (q.pos_end - q.pos_start) \div q.width = n
      /\ \A k \in 1 .. n : (k - 1) * p.width + 1 \in 1 .. p.pos_end - p.pos_start
  <2> HIDE DEF n
  <2>1. CASE p.width = 2
    BY <1>1, <1>2, <2>1
  <2>2. CASE p.width = 4
    BY <1>1, <1>2, <2>2
  <2> QED BY <1>1, <2>1, <2>2
<1>4. raw = [k \in 1 .. n |-> b.pos[p.pos_start + (k - 1) * p.width + 1]]
  BY <1>3 DEF Raw
<1>5. Raw(c, q) = [k \in 1 .. n |-> c.pos[q.pos_start + (k - 1) * p.width + 1]]
  BY <1>3 DEF Raw
<1>6. ASSUME NEW k \in 1 .. n
      PROVE  c.pos[q.pos_start + (k - 1) * p.width + 1] = b.pos[p.pos_start + (k - 1) * p.width + 1]
  <2> DEFINE j == (k - 1) * p.width + 1
  <2>1. j \in 1 .. p.pos_end - p.pos_start
    BY <1>3
  <2>2. c.pos[q.pos_start + j] = b.pos[p.pos_start + j]
    <3> HIDE DEF j
    <3> QED BY <2>1
  <2>3. /\ q.pos_start + (k - 1) * p.width + 1 = q.pos_start + j
        /\ p.pos_start + (k - 1) * p.width + 1 = p.pos_start + j
    <3>1. (k - 1) * p.width \in Int
      BY <1>1, <1>2
    <3> QED BY <1>1, <3>1
  <2> HIDE DEF j, n
  <2> QED BY <2>2, <2>3
<1> HIDE DEF n
<1>7. Raw(c, q) = raw
  <2> HIDE DEF raw
  <2> QED BY <1>4, <1>5, <1>6
<1>8. DOMAIN at = 1 .. n
  <2>1. DOMAIN raw = 1 .. n
    BY <1>4
  <2> HIDE DEF raw
  <2> QED BY <2>1 DEF Decode
<1>9. \A k \in 1 .. n : c.vals[q.val_start + k] = b.vals[p.val_start + k]
  BY DEF n
<1>10. Overwrite(encoding, c, q, old) =
        [i \in DOMAIN old |-> IF \E k \in DOMAIN at : at[k] = i - 1
                             THEN c.vals[q.val_start + (CHOOSE k \in DOMAIN at : at[k] = i - 1)]
                             ELSE old[i]]
  BY <1>7 DEF Overwrite
<1>11. Overwrite(encoding, b, p, old) =
        [i \in DOMAIN old |-> IF \E k \in DOMAIN at : at[k] = i - 1
                             THEN b.vals[p.val_start + (CHOOSE k \in DOMAIN at : at[k] = i - 1)]
                             ELSE old[i]]
  BY DEF Overwrite
<1> HIDE DEF at
<1>12. ASSUME NEW i \in DOMAIN old, \E k \in DOMAIN at : at[k] = i - 1
       PROVE  c.vals[q.val_start + (CHOOSE k \in DOMAIN at : at[k] = i - 1)] =
              b.vals[p.val_start + (CHOOSE k \in DOMAIN at : at[k] = i - 1)]
  <2> DEFINE k == CHOOSE k \in DOMAIN at : at[k] = i - 1
  <2>1. k \in 1 .. n
    BY <1>8, <1>12
  <2> HIDE DEF k
  <2>2. c.vals[q.val_start + k] = b.vals[p.val_start + k]
    BY <1>9, <2>1
  <2> QED BY <2>2 DEF k
<1> QED BY <1>10, <1>11, <1>12

\* One sequence is another with a third behind it.
Joined(both, s, t) ==
  /\ Len(both) = Len(s) + Len(t) /\ DOMAIN both = 1 .. Len(s) + Len(t)
  /\ Len(s) \in Nat /\ Len(t) \in Nat
  /\ \A i \in 1 .. Len(s) : both[i] = s[i]
  /\ \A i \in 1 .. Len(t) : both[Len(s) + i] = t[i]

\* What stands where in two sequences one behind the other.
LEMMA ConcatParts ==
  ASSUME NEW S, NEW s \in Seq(S), NEW t \in Seq(S), NEW both, both = s \o t
  PROVE  both \in Seq(S) /\ Joined(both, s, t)
<1> DEFINE m == Len(s)
           n == Len(t)
<1>1. m \in Nat /\ n \in Nat /\ DOMAIN s = 1 .. m /\ DOMAIN t = 1 .. n
  BY LenProperties
<1>2. /\ both \in Seq(S) /\ Len(both) = m + n
      /\ \A i \in 1 .. m + n : both[i] = IF i <= m THEN s[i] ELSE t[i - m]
  BY ConcatProperties
<1> HIDE DEF m, n
<1>3. DOMAIN both = 1 .. m + n
  BY <1>2, LenProperties
<1>4. \A i \in 1 .. m : both[i] = s[i]
  BY <1>1, <1>2
<1>5. \A i \in 1 .. n : both[m + i] = t[i]
  <2> SUFFICES ASSUME NEW i \in 1 .. n PROVE both[m + i] = t[i]
    OBVIOUS
  <2>1. m + i \in 1 .. m + n /\ ~(m + i <= m) /\ (m + i) - m = i
    BY <1>1
  <2> QED BY <1>2, <2>1
<1> QED BY <1>1, <1>2, <1>3, <1>4, <1>5 DEF m, n, Joined

\* A blob that another one is appended to restores what it restored, and so does
\* the other one, whose places have moved.
LEMMA JoinCorrect ==
  ASSUME NEW encoding, NEW olds, NEW w, NEW b, NEW c,
         Restores(encoding, b, olds, w), Restores(encoding, c, olds, w),
         NEW both, both = Join(b, c)
  PROVE  Restores(encoding, both, olds, w) /\ Told(both) = Told(b) \cup Told(c)
<1> DEFINE moved == [i \in DOMAIN c.params |-> Rebased(c.params[i], b)]
           m == Len(b.params)
           n == Len(c.params)
           lp == Len(b.pos)
           lv == Len(b.vals)
           rp == Len(c.pos)
           rv == Len(c.vals)
<1>1. b \in Blobs /\ c \in Blobs
  BY DEF Restores
<1>2. /\ b.pos \in Seq(Int) /\ b.vals \in Seq(Elements) /\ b.params \in Seq(Params)
      /\ c.pos \in Seq(Int) /\ c.vals \in Seq(Elements) /\ c.params \in Seq(Params)
  BY <1>1 DEF Blobs
<1>3. both = [pos |-> b.pos \o c.pos, vals |-> b.vals \o c.vals, params |-> b.params \o moved]
  BY DEF Join
<1>4. /\ both.pos = b.pos \o c.pos /\ both.vals = b.vals \o c.vals
      /\ both.params = b.params \o moved
  BY ONLY <1>3
<1>5. lp \in Nat /\ rp \in Nat /\ lv \in Nat /\ rv \in Nat
  BY ONLY <1>2, LenProperties
<1>6. /\ both.pos \in Seq(Int) /\ Len(both.pos) = lp + rp
      /\ \A i \in 1 .. lp : both.pos[i] = b.pos[i]
      /\ \A i \in 1 .. rp : both.pos[lp + i] = c.pos[i]
      /\ both.vals \in Seq(Elements) /\ Len(both.vals) = lv + rv
      /\ \A i \in 1 .. lv : both.vals[i] = b.vals[i]
      /\ \A i \in 1 .. rv : both.vals[lv + i] = c.vals[i]
  <2>1. both.pos \in Seq(Int) /\ Joined(both.pos, b.pos, c.pos)
    BY ONLY <1>2, <1>4, ConcatParts, Zenon
  <2>2. both.vals \in Seq(Elements) /\ Joined(both.vals, b.vals, c.vals)
    BY ONLY <1>2, <1>4, ConcatParts, Zenon
  <2> QED BY ONLY <2>1, <2>2, Zenon DEF Joined, lp, lv, rp, rv
<1>7. ASSUME NEW p \in Params
      PROVE  /\ Rebased(p, b) \in Params
             /\ Rebased(p, b).name = p.name /\ Rebased(p, b).width = p.width
             /\ Rebased(p, b).pos_start = p.pos_start + lp
             /\ Rebased(p, b).pos_end = p.pos_end + lp
             /\ Rebased(p, b).val_start = p.val_start + lv
             /\ Rebased(p, b).val_end = p.val_end + lv
  <2>1. Rebased(p, b) = [p EXCEPT !.pos_start = @ + lp, !.pos_end = @ + lp,
                                  !.val_start = @ + lv, !.val_end = @ + lv]
    BY DEF Rebased
  <2> HIDE DEF lp, lv, rp, rv
  <2>2. /\ p.name \in Tensors /\ p.width \in {2, 4} /\ p.pos_start \in Nat /\ p.pos_end \in Nat
        /\ p.val_start \in Nat /\ p.val_end \in Nat
        /\ p = [name |-> p.name, width |-> p.width, pos_start |-> p.pos_start, pos_end |-> p.pos_end,
                val_start |-> p.val_start, val_end |-> p.val_end]
    BY ONLY p \in Params DEF Params
  <2>3. Rebased(p, b) = [name |-> p.name, width |-> p.width,
                         pos_start |-> p.pos_start + lp, pos_end |-> p.pos_end + lp,
                         val_start |-> p.val_start + lv, val_end |-> p.val_end + lv]
    BY ONLY <2>1, <2>2
  <2>4. /\ p.pos_start + lp \in Nat /\ p.pos_end + lp \in Nat
        /\ p.val_start + lv \in Nat /\ p.val_end + lv \in Nat
    BY ONLY <1>5, <2>2
  <2> QED BY ONLY <2>2, <2>3, <2>4 DEF Params
<1>8. /\ m \in Nat /\ n \in Nat /\ DOMAIN b.params = 1 .. m /\ DOMAIN c.params = 1 .. n
      /\ \A i \in 1 .. m : b.params[i] \in Params
      /\ \A i \in 1 .. n : c.params[i] \in Params
  BY ONLY <1>2, LenProperties, ElementOfSeq
<1> HIDE DEF lp, lv, rp, rv
<1>9. /\ moved \in Seq(Params) /\ Len(moved) = n
      /\ \A i \in 1 .. n : moved[i] = Rebased(c.params[i], b)
  <2> HIDE DEF n
  <2>1. moved = [i \in 1 .. n |-> Rebased(c.params[i], b)]
    BY <1>8
  <2>2. moved \in [1 .. n -> Params]
    BY ONLY <1>7, <1>8, <2>1
  <2> HIDE DEF moved
  <2>3. moved \in Seq(Params) /\ Len(moved) = n
    BY ONLY <1>8, <2>2
  <2> QED BY <2>1, <2>3
<1> HIDE DEF moved
<1>10. /\ both \in Blobs
       /\ DOMAIN both.params = 1 .. m + n
       /\ \A i \in 1 .. m : both.params[i] = b.params[i]
       /\ \A i \in 1 .. n : both.params[m + i] = Rebased(c.params[i], b)
  <2>1. /\ both.params \in Seq(Params) /\ DOMAIN both.params = 1 .. m + Len(moved)
        /\ \A i \in 1 .. m : both.params[i] = b.params[i]
        /\ \A i \in 1 .. Len(moved) : both.params[m + i] = moved[i]
    <3>1. both.params \in Seq(Params) /\ Joined(both.params, b.params, moved)
      BY ONLY <1>2, <1>4, <1>9, ConcatParts, Zenon
    <3> QED BY ONLY <3>1, Zenon DEF Joined, m
  <2> HIDE DEF m, n
  <2>2. both \in Blobs
    <3>1. both = [pos |-> both.pos, vals |-> both.vals, params |-> both.params]
      BY ONLY <1>3
    <3> QED BY ONLY <1>6, <2>1, <3>1 DEF Blobs
  <2> QED BY <1>9, <2>1, <2>2
<1> HIDE DEF m, n
<1>11. ASSUME NEW i \in 1 .. m
       PROVE  /\ InBounds(both, b.params[i])
              /\ \A old : Overwrite(encoding, both, b.params[i], old) = Overwrite(encoding, b, b.params[i], old)
  <2> DEFINE p == b.params[i]
  <2>1. p \in Params /\ InBounds(b, p)
    BY <1>8 DEF Restores
  <2> HIDE DEF p
  <2>2. /\ p.pos_start \in Nat /\ p.pos_end \in Nat /\ p.val_start \in Nat /\ p.val_end \in Nat
        /\ p.val_start <= p.val_end /\ p.val_end <= lv /\ p.pos_end <= lp
        /\ p.pos_start <= p.pos_end /\ p.width \in {2, 4}
    <3>1. /\ p.pos_start \in Nat /\ p.pos_end \in Nat /\ p.val_start \in Nat /\ p.val_end \in Nat
          /\ p.width \in {2, 4}
      BY <2>1 DEF Params
    <3>2. /\ p.val_start <= p.val_end /\ p.val_end <= lv /\ p.pos_end <= lp
          /\ p.pos_end = p.pos_start + p.width * (p.val_end - p.val_start)
      BY <2>1 DEF InBounds, lp, lv
    <3> QED BY <3>1, <3>2
  <2>3. InBounds(both, p)
    <3>1. p.val_end <= lv + rv /\ p.pos_end <= lp + rp
      BY ONLY <1>5, <2>2
    <3> QED BY <1>6, <2>1, <3>1 DEF InBounds
  <2>4. /\ \A j \in 1 .. p.pos_end - p.pos_start : both.pos[p.pos_start + j] = b.pos[p.pos_start + j]
        /\ \A j \in 1 .. p.val_end - p.val_start : both.vals[p.val_start + j] = b.vals[p.val_start + j]
    <3>1. /\ \A j \in 1 .. p.pos_end - p.pos_start : p.pos_start + j \in 1 .. lp
          /\ \A j \in 1 .. p.val_end - p.val_start : p.val_start + j \in 1 .. lv
      BY ONLY <1>5, <2>2
    <3> QED BY ONLY <1>6, <3>1
  <2>5. p.width = p.width /\ p.val_end - p.val_start = p.val_end - p.val_start
    OBVIOUS
  <2>6. \A old : Overwrite(encoding, both, p, old) = Overwrite(encoding, b, p, old)
    BY ONLY <1>1, <1>10, <2>1, <2>3, <2>4, <2>5, SamePart
  <2> QED BY <2>3, <2>6 DEF p
<1>12. ASSUME NEW i \in 1 .. n
       PROVE  /\ InBounds(both, Rebased(c.params[i], b))
              /\ \A old : Overwrite(encoding, both, Rebased(c.params[i], b), old) =
                          Overwrite(encoding, c, c.params[i], old)
  <2> DEFINE p == c.params[i]
             q == Rebased(p, b)
  <2>1. p \in Params /\ InBounds(c, p)
    BY <1>8 DEF Restores
  <2> HIDE DEF p
  <2>2. /\ p.pos_start \in Nat /\ p.pos_end \in Nat /\ p.val_start \in Nat /\ p.val_end \in Nat
        /\ p.val_start <= p.val_end
        /\ p.val_end <= rv /\ p.pos_end <= rp /\ p.width \in {2, 4}
        /\ p.pos_end = p.pos_start + p.width * (p.val_end - p.val_start)
    BY <2>1 DEF Params, InBounds, rp, rv
  <2>3. /\ q \in Params /\ q.width = p.width
        /\ q.pos_start = p.pos_start + lp /\ q.pos_end = p.pos_end + lp
        /\ q.val_start = p.val_start + lv /\ q.val_end = p.val_end + lv
    BY <1>7, <2>1
  <2> HIDE DEF q
  <2>4. q.val_end - q.val_start = p.val_end - p.val_start
    BY <1>5, <2>2, <2>3
  <2>5. InBounds(both, q)
    <3>1. q.val_start <= q.val_end /\ q.val_end <= lv + rv /\ q.pos_end <= lp + rp
      BY ONLY <1>5, <2>2, <2>3
    <3>2. q.pos_end = q.pos_start + q.width * (q.val_end - q.val_start)
      <4>1. p.width * (p.val_end - p.val_start) \in Int
        BY <2>2
      <4>2. q.width * (q.val_end - q.val_start) = p.width * (p.val_end - p.val_start)
        BY <2>3, <2>4
      <4> QED BY <1>5, <2>2, <2>3, <4>1, <4>2
    <3> QED BY <1>6, <3>1, <3>2 DEF InBounds
  <2>6. ASSUME NEW j \in 1 .. p.pos_end - p.pos_start
        PROVE  both.pos[q.pos_start + j] = c.pos[p.pos_start + j]
    <3>1. p.pos_start + j \in 1 .. rp /\ q.pos_start + j = lp + (p.pos_start + j)
      BY ONLY <1>5, <2>2, <2>3, j \in 1 .. p.pos_end - p.pos_start
    <3> QED BY <1>6, <3>1
  <2>7. ASSUME NEW j \in 1 .. p.val_end - p.val_start
        PROVE  both.vals[q.val_start + j] = c.vals[p.val_start + j]
    <3>1. p.val_start + j \in 1 .. rv /\ q.val_start + j = lv + (p.val_start + j)
      BY ONLY <1>5, <2>2, <2>3, j \in 1 .. p.val_end - p.val_start
    <3> QED BY <1>6, <3>1
  <2>8. \A old : Overwrite(encoding, both, q, old) = Overwrite(encoding, c, p, old)
    BY ONLY <1>1, <1>10, <2>1, <2>3, <2>4, <2>5, <2>6, <2>7, SamePart
  <2> QED BY <2>5, <2>8 DEF p, q
<1>13. ASSUME NEW i \in 1 .. m + n
       PROVE  /\ InBounds(both, both.params[i])
              /\ \A old \in olds : Overwrite(encoding, both, both.params[i], old[both.params[i].name]) =
                                     w[both.params[i].name]
              /\ both.params[i].name \in Told(b) \cup Told(c)
  <2>1. CASE i <= m
    <3>1. i \in 1 .. m
      BY <1>8, <2>1
    <3>2. both.params[i] = b.params[i] /\ b.params[i].name \in Told(b)
      BY <1>8, <1>10, <3>1 DEF Told
    <3>3. \A old \in olds : Overwrite(encoding, b, b.params[i], old[b.params[i].name]) = w[b.params[i].name]
      BY <1>8, <3>1 DEF Restores
    <3> QED BY <1>11, <3>1, <3>2, <3>3
  <2>2. CASE ~(i <= m)
    <3> DEFINE k == i - m
    <3>1. k \in 1 .. n /\ i = m + k
      BY <1>8, <2>2
    <3> HIDE DEF k
    <3>2. both.params[i] = Rebased(c.params[k], b) /\ c.params[k].name \in Told(c)
      BY <1>8, <1>10, <3>1 DEF Told
    <3>3. both.params[i].name = c.params[k].name
      BY <1>7, <1>8, <3>1, <3>2
    <3>4. \A old \in olds : Overwrite(encoding, c, c.params[k], old[c.params[k].name]) = w[c.params[k].name]
      BY <1>8, <3>1 DEF Restores
    <3> QED BY <1>12, <3>1, <3>2, <3>3, <3>4
  <2> QED BY <2>1, <2>2
<1>14. Restores(encoding, both, olds, w)
  BY <1>10, <1>13 DEF Restores
<1>15. Told(both) \subseteq Told(b) \cup Told(c)
  BY <1>10, <1>13 DEF Told
<1>16. Told(b) \subseteq Told(both)
  <2> SUFFICES ASSUME NEW i \in 1 .. m PROVE b.params[i].name \in Told(both)
    BY <1>8 DEF Told
  <2>1. i \in 1 .. m + n /\ both.params[i] = b.params[i]
    BY <1>8, <1>10
  <2> QED BY <1>10, <2>1 DEF Told
<1>17. Told(c) \subseteq Told(both)
  <2> SUFFICES ASSUME NEW i \in 1 .. n PROVE c.params[i].name \in Told(both)
    BY <1>8 DEF Told
  <2>1. m + i \in 1 .. m + n /\ both.params[m + i] = Rebased(c.params[i], b)
    BY <1>8, <1>10
  <2>2. both.params[m + i].name = c.params[i].name
    BY <1>7, <1>8, <2>1
  <2> QED BY <1>10, <2>1, <2>2 DEF Told
<1> QED BY <1>14, <1>15, <1>16, <1>17

\* The diffs of a chunk; what makes them right for whoever holds one of olds.
Diffs(chunk, w, prev) == [i \in DOMAIN chunk |-> Diff(chunk[i], w[chunk[i]], prev[chunk[i]])]
Comparable(chunk, w, prev, olds) ==
  \A i \in DOMAIN chunk :
    /\ prev[chunk[i]] \in Seq(Elements) /\ Len(prev[chunk[i]]) = Len(w[chunk[i]])
    /\ prev[chunk[i]] # w[chunk[i]] =>
         \A old \in olds : old[chunk[i]] \in {prev[chunk[i]], w[chunk[i]]}
TellsOf(blob, chunk, w, prev) ==
  \A i \in DOMAIN chunk : prev[chunk[i]] # w[chunk[i]] => chunk[i] \in Told(blob)

\* A chunk, whatever tensors of it changed: the blob restores each of them and
\* tells of each that differs from the snapshot.
LEMMA EncodeCorrect ==
  ASSUME NEW encoding, NEW chunk \in Seq(Tensors), NEW w \in Weights, NEW prev, NEW olds,
         Comparable(chunk, w, prev, olds),
         NEW blob, blob = Encode(encoding, Diffs(chunk, w, prev))
  PROVE  Restores(encoding, blob, olds, w) /\ TellsOf(blob, chunk, w, prev)
<1> DEFINE diffs == Diffs(chunk, w, prev)
           n == Len(chunk)
           part(i) == EncodeOne(encoding, diffs[i])
           Steps(f, m) == f = [i \in 0 .. m |-> IF i = 0 THEN EmptyBlob ELSE Join(f[i - 1], part(i))]
           upTo == CHOOSE f : Steps(f, n)
           Done(i) == /\ Restores(encoding, upTo[i], olds, w)
                      /\ \A j \in 1 .. i : prev[chunk[j]] # w[chunk[j]] => chunk[j] \in Told(upTo[i])
<1>1. n \in Nat /\ DOMAIN chunk = 1 .. n /\ \A i \in 1 .. n : chunk[i] \in Tensors
  BY LenProperties, ElementOfSeq
<1>2. Len(diffs) = n /\ DOMAIN diffs = 1 .. n
  <2> HIDE DEF n
  <2>1. diffs = [i \in 1 .. n |-> Diff(chunk[i], w[chunk[i]], prev[chunk[i]])]
    BY <1>1 DEF Diffs
  <2>2. DOMAIN diffs = 1 .. n
    BY <2>1
  <2> DEFINE S == {diffs[i] : i \in 1 .. n}
  <2>3. diffs \in Seq(S)
    <3>1. \A i \in 1 .. n : diffs[i] \in S
      OBVIOUS
    <3> HIDE DEF S
    <3>2. diffs \in [1 .. n -> S]
      <4> DEFINE D(i) == Diff(chunk[i], w[chunk[i]], prev[chunk[i]])
      <4>1. diffs = [i \in 1 .. n |-> D(i)]
        BY <2>1
      <4> HIDE DEF D
      <4> QED BY ONLY <3>1, <4>1
    <3> QED BY ONLY <1>1, <3>2
  <2>4. Len(diffs) \in Nat /\ DOMAIN diffs = 1 .. Len(diffs)
    BY <2>3, LenProperties
  <2> QED BY <1>1, <2>2, <2>4
<1>3. blob = upTo[n]
  BY <1>2 DEF Encode
<1> HIDE DEF n, part, diffs
<1>4. ASSUME NEW i \in 1 .. n
      PROVE  /\ Restores(encoding, part(i), olds, w)
             /\ prev[chunk[i]] # w[chunk[i]] => chunk[i] \in Told(part(i))
  <2> DEFINE t == chunk[i]
             one == part(i)
  <2>1. t \in Tensors /\ w[t] \in Seq(Elements)
    BY <1>1 DEF Weights
  <2>2. prev[t] \in Seq(Elements) /\ Len(prev[t]) = Len(w[t])
    BY <1>1 DEF Comparable
  <2>3. one = EncodeOne(encoding, Diff(t, w[t], prev[t]))
    <3>1. diffs[i] = Diff(t, w[t], prev[t])
      BY <1>1 DEF diffs, Diffs
    <3> QED BY <3>1 DEF part
  <2>4. prev[t] # w[t] => \A old \in olds : old[t] \in {prev[t], w[t]}
    BY <1>1 DEF Comparable
  <2> HIDE DEF t, one
  <2>5. /\ one \in Blobs
        /\ w[t] # prev[t] => t \in Told(one)
        /\ w[t] = prev[t] => one.params = << >>
        /\ \A k \in DOMAIN one.params :
             /\ one.params[k].name = t
             /\ InBounds(one, one.params[k])
             /\ \A old \in {prev[t], w[t]} : Overwrite(encoding, one, one.params[k], old) = w[t]
    <3>1. Patches(encoding, one, t, prev[t], w[t])
      BY ONLY <2>1, <2>2, <2>3, EncodeOneCorrect
    <3> QED BY <3>1, Zenon DEF Patches
  <2>6. ASSUME NEW k \in DOMAIN one.params, NEW old \in olds
        PROVE  Overwrite(encoding, one, one.params[k], old[one.params[k].name]) = w[one.params[k].name]
    <3>1. w[t] # prev[t]
      <4>1. one.params # << >>
        BY <2>6
      <4> QED BY <2>5, <4>1
    <3>2. old[t] \in {prev[t], w[t]}
      BY <2>4, <3>1
    <3> QED BY <2>5, <3>2
  <2>7. Restores(encoding, one, olds, w)
    BY <2>5, <2>6 DEF Restores
  <2> QED BY <2>5, <2>7 DEF t, one
<1>5. \A m \in 0 .. n : \E f : Steps(f, m)
  <2> DEFINE missing == {m \in 0 .. n : ~\E f : Steps(f, m)}
  <2> SUFFICES ASSUME missing # {} PROVE FALSE
    OBVIOUS
  <2>1. missing \in SUBSET Nat
    BY <1>1
  <2>2. PICK m \in missing : \A k \in missing : m <= k
    BY <2>1, LeastNumber, Zenon
  <2>3. m \in 0 .. n /\ ~\E f : Steps(f, m)
    BY <2>2
  <2>4. m # 0
    <3> DEFINE f == [i \in 0 .. 0 |-> EmptyBlob]
    <3>1. f = [i \in 0 .. 0 |-> IF i = 0 THEN EmptyBlob ELSE Join(f[i - 1], part(i))]
      OBVIOUS
    <3>2. Steps(f, 0)
      BY <3>1
    <3> HIDE DEF Steps
    <3> QED BY <2>3, <3>2
  <2>5. m - 1 \in 0 .. n /\ ~(m <= m - 1)
    BY <1>1, <2>3, <2>4
  <2>6. m - 1 \notin missing
    BY <2>2, <2>5
  <2>7. \E f : Steps(f, m - 1)
    <3> HIDE DEF Steps
    <3> QED BY <2>5, <2>6
  <2>8. PICK f : Steps(f, m - 1)
    <3> HIDE DEF Steps
    <3> QED BY <2>7
  <2> DEFINE g == [i \in 0 .. m |-> IF i = m THEN Join(f[m - 1], part(m)) ELSE f[i]]
  <2>9. \A i \in 0 .. m - 1 : f[i] = IF i = 0 THEN EmptyBlob ELSE Join(f[i - 1], part(i))
    BY <2>8
  <2>10. \A i \in 0 .. m : g[i] = IF i = 0 THEN EmptyBlob ELSE Join(g[i - 1], part(i))
    <3> SUFFICES ASSUME NEW i \in 0 .. m
                 PROVE  g[i] = IF i = 0 THEN EmptyBlob ELSE Join(g[i - 1], part(i))
      OBVIOUS
    <3>1. CASE i = m
      <4>1. g[i] = Join(f[m - 1], part(m))
        BY <3>1
      <4>2. m - 1 \in 0 .. m /\ m - 1 # m
        BY <1>1, <2>3, <2>4
      <4>3. g[i - 1] = f[m - 1]
        BY <3>1, <4>2
      <4> HIDE DEF g
      <4> QED BY <2>4, <3>1, <4>1, <4>3
    <3>2. CASE i # m
      <4>1. i \in 0 .. m - 1 /\ g[i] = f[i]
        BY <1>1, <2>3, <3>2
      <4>2. i # 0 => i - 1 \in 0 .. m /\ i - 1 # m
        BY <1>1, <2>3, <4>1
      <4>3. i # 0 => g[i - 1] = f[i - 1]
        BY <4>2
      <4> HIDE DEF g
      <4> QED BY <2>9, <4>1, <4>3
    <3> QED BY <3>1, <3>2
  <2>11. DOMAIN g = 0 .. m
    OBVIOUS
  <2>12. g = [i \in 0 .. m |-> g[i]]
    OBVIOUS
  <2> HIDE DEF g
  <2>13. Steps(g, m)
    BY <2>10, <2>11, <2>12
  <2> HIDE DEF Steps
  <2> QED BY <2>3, <2>13
<1>6. Steps(upTo, n)
  <2>1. \E f : Steps(f, n)
    <3>1. n \in 0 .. n
      BY <1>1
    <3> HIDE DEF Steps
    <3> QED BY <1>5, <3>1
  <2> HIDE DEF Steps
  <2> QED BY <2>1
<1> HIDE DEF upTo
<1>7. upTo[0] = EmptyBlob /\ \A i \in 1 .. n : upTo[i] = Join(upTo[i - 1], part(i))
  <2>1. \A i \in 0 .. n : upTo[i] = IF i = 0 THEN EmptyBlob ELSE Join(upTo[i - 1], part(i))
    BY <1>6
  <2>2. 0 \in 0 .. n /\ \A i \in 1 .. n : i \in 0 .. n /\ i # 0
    BY <1>1
  <2> HIDE DEF Steps
  <2> QED BY <2>1, <2>2
<1>8. Done(0)
  <2>1. Restores(encoding, EmptyBlob, olds, w)
    BY EmptyBlobFacts DEF Restores
  <2> QED BY <1>7, <2>1
<1>9. ASSUME NEW i \in 1 .. n, Done(i - 1)
      PROVE  Done(i)
  <2>1. upTo[i] = Join(upTo[i - 1], part(i))
    BY <1>7
  <2>2. Restores(encoding, upTo[i], olds, w) /\ Told(upTo[i]) = Told(upTo[i - 1]) \cup Told(part(i))
    <3>1. Restores(encoding, upTo[i - 1], olds, w) /\ Restores(encoding, part(i), olds, w)
      BY <1>4, <1>9
    <3> QED BY ONLY <2>1, <3>1, JoinCorrect
  <2>3. ASSUME NEW j \in 1 .. i, prev[chunk[j]] # w[chunk[j]]
        PROVE  chunk[j] \in Told(upTo[i])
    <3>1. CASE j = i
      BY <1>4, <2>2, <2>3, <3>1
    <3>2. CASE j # i
      <4>1. j \in 1 .. i - 1
        BY <3>2
      <4> QED BY <1>9, <2>2, <2>3, <4>1
    <3> QED BY <3>1, <3>2
  <2> QED BY <2>2, <2>3
<1> HIDE DEF Done
<1>10. \A i \in 0 .. n : Done(i)
  <2> DEFINE wrong == {i \in 0 .. n : ~Done(i)}
  <2> SUFFICES ASSUME wrong # {} PROVE FALSE
    OBVIOUS
  <2>1. wrong \in SUBSET Nat
    BY <1>1
  <2>2. PICK i \in wrong : \A k \in wrong : i <= k
    BY <2>1, LeastNumber, Zenon
  <2>3. i \in 0 .. n /\ ~Done(i) /\ i # 0
    BY <1>8, <2>2
  <2>4. i \in 1 .. n /\ i - 1 \in 0 .. n /\ ~(i <= i - 1)
    BY <1>1, <2>3
  <2>5. Done(i - 1)
    BY <2>2, <2>4
  <2> QED BY <1>9, <2>3, <2>4, <2>5
<1>11. Done(n)
  <2>1. n \in 0 .. n
    BY <1>1
  <2> QED BY <1>10, <2>1
<1> QED BY <1>1, <1>3, <1>11 DEF Done, TellsOf

-----------------------------------------------------------------------------
(***************************************************************************)
(* What an engine makes of a bucket, and of the files of a batch.          *)
(***************************************************************************)

\* Overwriting keeps the shape of a tensor.
LEMMA OverwriteType ==
  ASSUME NEW encoding, NEW b \in Blobs, NEW p \in Params, InBounds(b, p),
         NEW old \in Seq(Elements), NEW new, new = Overwrite(encoding, b, p, old)
  PROVE  new \in Seq(Elements) /\ Len(new) = Len(old)
<1> DEFINE n == p.val_end - p.val_start
           raw == Raw(b, p)
           at == Decode(encoding, raw)
           size == Len(old)
<1>1. /\ p.pos_start \in Nat /\ p.pos_end \in Nat /\ p.val_start \in Nat /\ p.val_end \in Nat
      /\ p.width \in {2, 4}
  BY DEF Params
<1>2. n \in Nat /\ p.pos_end = p.pos_start + p.width * n /\ p.val_end <= Len(b.vals)
  BY <1>1 DEF InBounds
<1>3. (p.pos_end - p.pos_start) \div p.width = n
  <2> HIDE DEF n
  <2>1. CASE p.width = 2
    BY <1>1, <1>2, <2>1
  <2>2. CASE p.width = 4
    BY <1>1, <1>2, <2>2
  <2> QED BY <1>1, <2>1, <2>2
<1>4. raw = [k \in 1 .. n |-> b.pos[p.pos_start + (k - 1) * p.width + 1]]
  BY <1>3 DEF Raw
<1>5. DOMAIN at = 1 .. n
  <2>1. DOMAIN raw = 1 .. n
    BY <1>4
  <2> HIDE DEF raw, n
  <2> QED BY <2>1 DEF Decode
<1> HIDE DEF at
<1>6. \A k \in 1 .. n : b.vals[p.val_start + k] \in Elements
  <2>1. b.vals \in Seq(Elements) /\ Len(b.vals) \in Nat
    BY LenProperties DEF Blobs
  <2>2. \A k \in 1 .. n : p.val_start + k \in 1 .. Len(b.vals)
    <3> DEFINE from == p.val_start
               to == p.val_end
               all == Len(b.vals)
    <3>1. from \in Nat /\ to \in Nat /\ all \in Nat /\ from <= to /\ to <= all /\ n = to - from
      BY <1>1, <1>2, <2>1 DEF InBounds
    <3> HIDE DEF from, to, all, n
    <3>2. \A k \in 1 .. n : from + k \in 1 .. all
      BY ONLY <3>1
    <3> QED BY ONLY <3>2 DEF from, all
  <2> QED BY <2>1, <2>2, ElementOfSeq
<1>7. size \in Nat /\ DOMAIN old = 1 .. size /\ \A i \in 1 .. size : old[i] \in Elements
  BY LenProperties, ElementOfSeq
<1> HIDE DEF size, n
<1>8. new = [i \in 1 .. size |-> IF \E k \in DOMAIN at : at[k] = i - 1
                                 THEN b.vals[p.val_start + (CHOOSE k \in DOMAIN at : at[k] = i - 1)]
                                 ELSE old[i]]
  BY <1>7 DEF Overwrite, at
<1>9. \A i \in 1 .. size : new[i] \in Elements
  <2> SUFFICES ASSUME NEW i \in 1 .. size PROVE new[i] \in Elements
    OBVIOUS
  <2>1. CASE \E k \in DOMAIN at : at[k] = i - 1
    <3> DEFINE k == CHOOSE k \in DOMAIN at : at[k] = i - 1
    <3>1. k \in 1 .. n
      BY <1>5, <2>1
    <3>2. new[i] = b.vals[p.val_start + k]
      BY <1>8, <2>1
    <3> HIDE DEF k
    <3> QED BY <1>6, <3>1, <3>2
  <2>2. CASE ~\E k \in DOMAIN at : at[k] = i - 1
    BY <1>7, <1>8, <2>2
  <2> QED BY <2>1, <2>2
<1>10. new \in [1 .. size -> Elements]
  BY <1>8, <1>9
<1> QED BY <1>7, <1>10 DEF size

\* Whoever holds one of olds and applies a blob has w in what the blob tells of,
\* and the rest as it was; anyone else has weights, too.
LEMMA ApplyCorrect ==
  ASSUME NEW encoding, NEW b, NEW olds, NEW w, Restores(encoding, b, olds, w),
         NEW old \in Weights, NEW new, new = Apply(encoding, b, old)
  PROVE  /\ new \in Weights
         /\ old \in olds => \A t \in Tensors : new[t] = IF t \in Told(b) THEN w[t] ELSE old[t]
<1> DEFINE Named(i, t) == b.params[i].name = t
           its(t) == b.params[CHOOSE i \in DOMAIN b.params : Named(i, t)]
<1>1. b \in Blobs /\ b.params \in Seq(Params)
  BY DEF Restores, Blobs
<1>2. DOMAIN old = Tensors
  BY DEF Weights
<1>3. /\ new = [t \in Tensors |-> IF \E i \in DOMAIN b.params : Named(i, t)
                                  THEN Overwrite(encoding, b, its(t), old[t]) ELSE old[t]]
      /\ \A t : t \in Told(b) <=> \E i \in DOMAIN b.params : Named(i, t)
  BY <1>2 DEF Apply, Told
<1>4. ASSUME NEW t \in Tensors, \E i \in DOMAIN b.params : Named(i, t)
      PROVE  /\ its(t) \in Params /\ InBounds(b, its(t))
             /\ \A x \in olds : Overwrite(encoding, b, its(t), x[t]) = w[t]
  <2> DEFINE i == CHOOSE i \in DOMAIN b.params : Named(i, t)
  <2>1. i \in DOMAIN b.params /\ Named(i, t)
    BY <1>4
  <2> HIDE DEF i
  <2>2. b.params[i] \in Params
    BY <1>1, <2>1, LenProperties, ElementOfSeq
  <2>3. /\ InBounds(b, b.params[i])
        /\ \A x \in olds : Overwrite(encoding, b, b.params[i], x[b.params[i].name]) = w[b.params[i].name]
    BY <2>1 DEF Restores
  <2> QED BY <2>1, <2>2, <2>3 DEF i
<1> HIDE DEF Named, its
<1>5. ASSUME NEW t \in Tensors
      PROVE  new[t] \in Seq(Elements) /\ Len(new[t]) = Len(Base[t])
  <2>1. old[t] \in Seq(Elements) /\ Len(old[t]) = Len(Base[t])
    BY DEF Weights
  <2>2. CASE \E i \in DOMAIN b.params : Named(i, t)
    <3>1. new[t] = Overwrite(encoding, b, its(t), old[t])
      BY <1>3, <2>2
    <3>2. new[t] \in Seq(Elements) /\ Len(new[t]) = Len(old[t])
      BY <1>1, <1>4, <2>1, <2>2, <3>1, OverwriteType
    <3> QED BY <2>1, <3>2
  <2>3. CASE ~\E i \in DOMAIN b.params : Named(i, t)
    BY <1>3, <2>1, <2>3
  <2> QED BY <2>2, <2>3
<1>6. new \in Weights
  <2>1. new \in [Tensors -> Seq(Elements)]
    BY <1>3, <1>5
  <2> QED BY <1>5, <2>1 DEF Weights
<1>7. ASSUME old \in olds, NEW t \in Tensors
      PROVE  new[t] = IF t \in Told(b) THEN w[t] ELSE old[t]
  BY <1>3, <1>4, <1>7
<1> QED BY <1>6, <1>7

\* The files of a batch, and what becomes of a model they are loaded into.
RightFiles(names, olds, w) == \A n \in names \cap DOMAIN files : Restores(setting.encoding, files[n], olds, w)
Loaded(names, olds, w, old, new) ==
  /\ new \in Weights
  /\ old \in olds => \A t \in Tensors :
       new[t] = IF \E n \in names \cap DOMAIN files : t \in Told(files[n]) THEN w[t] ELSE old[t]

\* The same of the files of a batch, in whatever order they are loaded.
LEMMA ApplyFilesCorrect ==
  ASSUME NEW names, NEW olds, NEW w, RightFiles(names, olds, w), NEW old \in Weights,
         NEW new, new = ApplyFiles(names, old)
  PROVE  Loaded(names, olds, w, old, new)
<1> DEFINE there == names \cap DOMAIN files
           Has(n, t) == t \in Told(files[n])
           one(t) == CHOOSE n \in there : Has(n, t)
           step(n) == Apply(setting.encoding, files[n], old)
<1>1. DOMAIN old = Tensors
  BY DEF Weights
<1>2. \A n, t : (\E i \in DOMAIN files[n].params : files[n].params[i].name = t) <=> Has(n, t)
  BY DEF Told
<1>3. new = [t \in Tensors |-> IF \E n \in there : Has(n, t) THEN step(one(t))[t] ELSE old[t]]
  BY <1>1, <1>2 DEF ApplyFiles, Told
<1>4. \A n \in there : /\ step(n) \in Weights
                       /\ old \in olds => \A t \in Tensors :
                            step(n)[t] = IF t \in Told(files[n]) THEN w[t] ELSE old[t]
  BY ApplyCorrect DEF RightFiles
<1>5. ASSUME NEW t \in Tensors
      PROVE  (\E n \in there : Has(n, t)) => one(t) \in there /\ t \in Told(files[one(t)])
  OBVIOUS
<1> HIDE DEF there, one, step
<1>6. ASSUME NEW t \in Tensors
      PROVE  new[t] \in Seq(Elements) /\ Len(new[t]) = Len(Base[t])
  <2>1. new[t] = IF \E n \in there : Has(n, t) THEN step(one(t))[t] ELSE old[t]
    BY <1>3
  <2>2. \A x \in Weights : x[t] \in Seq(Elements) /\ Len(x[t]) = Len(Base[t])
    BY DEF Weights
  <2> HIDE DEF Has
  <2>3. CASE \E n \in there : Has(n, t)
    <3>1. step(one(t)) \in Weights
      BY <1>4, <1>5, <2>3
    <3> QED BY <2>1, <2>2, <2>3, <3>1
  <2>4. CASE ~\E n \in there : Has(n, t)
    BY <2>1, <2>2, <2>4
  <2> QED BY <2>3, <2>4
<1>7. new \in Weights
  <2>1. new \in [Tensors -> Seq(Elements)]
    BY <1>3, <1>6
  <2> QED BY <1>6, <2>1 DEF Weights
<1>8. ASSUME old \in olds, NEW t \in Tensors
      PROVE  new[t] = IF \E n \in there : Has(n, t) THEN w[t] ELSE old[t]
  BY <1>3, <1>4, <1>5, <1>8
<1> QED BY <1>7, <1>8 DEF Loaded, there

-----------------------------------------------------------------------------
(***************************************************************************)
(* The chunks: equal slices of the expert tensors, of which the passes     *)
(* leave none out.                                                         *)
(***************************************************************************)

\* Cutting n tensors in parts: the last cut is at n, and none is beyond it.
LEMMA Cuts ==
  ASSUME NEW n \in Nat, NEW i \in 0 .. Subpasses
  PROVE  /\ (i * n) \div Subpasses \in 0 .. n
         /\ (0 * n) \div Subpasses = 0 /\ (Subpasses * n) \div Subpasses = n
<1> DEFINE S == Subpasses
<1>1. S \in Nat /\ S > 0
  BY SubpassesAssumption
<1> HIDE DEF S
<1>2. ASSUME NEW a \in Nat
      PROVE  a \div S \in Nat /\ S * (a \div S) <= a /\ a < S * (a \div S) + S
  BY <1>1
<1>3. ASSUME NEW q \in Nat, NEW m \in Nat, S * q <= S * m
      PROVE  q <= m
  <2> SUFFICES ASSUME m < q PROVE FALSE
    OBVIOUS
  <2>1. PICK d \in Nat : q = m + d /\ d > 0
    <3>1. q - m \in Nat /\ q = m + (q - m) /\ q - m > 0
      OBVIOUS
    <3> QED BY <3>1
  <2>2. S * q = S * m + S * d /\ S * d > 0
    BY <1>1, <2>1
  <2> QED BY <1>1, <1>3, <2>2
<1>4. i \in Nat /\ i <= S
  BY <1>1 DEF S
<1>5. i * n \in Nat /\ i * n <= S * n
  <2>1. PICK d \in Nat : S = i + d
    <3>1. S - i \in Nat /\ S = i + (S - i)
      BY <1>1, <1>4
    <3> QED BY <3>1
  <2>2. S * n = i * n + d * n /\ d * n \in Nat /\ i * n \in Nat
    BY <1>4, <2>1
  <2> QED BY <2>2
<1>6. (i * n) \div S \in 0 .. n
  <2> DEFINE a == i * n
             q == a \div S
  <2>1. q \in Nat /\ S * q <= a
    <3> HIDE DEF a
    <3> QED BY <1>2, <1>5 DEF a
  <2> HIDE DEF q
  <2>2. S * q <= S * n
    BY <1>1, <1>5, <2>1
  <2>3. q <= n
    BY <1>3, <2>1, <2>2
  <2> QED BY <2>1, <2>3 DEF q
<1>7. (S * n) \div S = n
  <2> DEFINE a == S * n
             q == a \div S
  <2>1. a \in Nat
    BY <1>1
  <2>2. q \in Nat /\ S * q <= a /\ a < S * q + S
    <3> HIDE DEF a
    <3> QED BY <1>2, <2>1
  <2> HIDE DEF q
  <2>3. q <= n
    BY <1>3, <2>2
  <2>4. S * (q + 1) = S * q + S /\ q + 1 \in Nat
    BY <1>1, <2>2
  <2>5. ~(q + 1 <= n)
    <3> SUFFICES ASSUME q + 1 <= n PROVE FALSE
      OBVIOUS
    <3>1. PICK d \in Nat : n = (q + 1) + d
      <4>1. n - (q + 1) \in Nat /\ n = (q + 1) + (n - (q + 1))
        BY <2>2
      <4> QED BY <4>1
    <3>2. S * n = S * (q + 1) + S * d /\ S * d \in Nat
      BY <1>1, <2>2, <3>1
    <3> QED BY <1>1, <2>1, <2>2, <2>4, <3>2
  <2> QED BY <2>2, <2>3, <2>5 DEF q
<1>8. (0 * n) \div S = 0
  BY <1>1
<1> QED BY <1>6, <1>7, <1>8 DEF S

\* Where the expert tensors of a rank are cut.
Cut(r, i) == (i * Len(Experts[r])) \div Subpasses

\* The chunks are sequences of tensors, and every tensor is in one of some rank.
LEMMA ChunksCorrect ==
  /\ LastPass \in Nat /\ LastPass > 1
  /\ \A r \in Ranks : \A p \in 1 .. LastPass : Chunks(r, p) \in Seq(Seq(Tensors))
  /\ \A t \in Tensors : \E r \in Ranks : \E p \in 1 .. LastPass : \E k \in DOMAIN Chunks(r, p) :
       t \in InChunk(Chunks(r, p)[k])
<1>1. Subpasses \in Nat /\ Subpasses > 0 /\ LastPass = Subpasses + 1
  BY SubpassesAssumption DEF LastPass
<1>2. LastPass \in Nat /\ LastPass > 1 /\ 1 \in 1 .. LastPass
  BY <1>1
<1>3. ASSUME NEW r \in Ranks
      PROVE  Dense[r] \in Seq(Seq(Tensors)) /\ Experts[r] \in Seq(Tensors)
  BY ChunksAssumption
<1>4. ASSUME NEW r \in Ranks, NEW i \in 1 .. Subpasses, NEW n, n = Len(Experts[r])
      PROVE  /\ Slice(r, i) \in Seq(Tensors) /\ Len(Slice(r, i)) \in Nat
             /\ \A j \in 1 .. n : Cut(r, i - 1) < j /\ j <= Cut(r, i) =>
                  /\ j - Cut(r, i - 1) \in 1 .. Len(Slice(r, i))
                  /\ Slice(r, i)[j - Cut(r, i - 1)] = Experts[r][j]
  <2> DEFINE from == Cut(r, i - 1)
             to == Cut(r, i)
             s == Slice(r, i)
  <2>1. n \in Nat /\ \A j \in 1 .. n : Experts[r][j] \in Tensors
    BY <1>3, <1>4, LenProperties, ElementOfSeq
  <2>2. from \in 0 .. n /\ to \in 0 .. n
    <3>1. i \in 0 .. Subpasses /\ i - 1 \in 0 .. Subpasses
      BY <1>1
    <3> QED BY <1>4, <2>1, <3>1, Cuts DEF Cut
  <2>3. s = SubSeq(Experts[r], from + 1, to)
    BY <1>4 DEF Slice, Cut
  <2> HIDE DEF from, to, s
  <2>4. from + 1 \in Int /\ to \in Int /\ \A j \in from + 1 .. to : Experts[r][j] \in Tensors
    BY <2>1, <2>2
  <2>5. /\ s \in Seq(Tensors)
        /\ Len(s) = IF from + 1 <= to THEN to - (from + 1) + 1 ELSE 0
        /\ \A j \in 1 .. to - (from + 1) + 1 : s[j] = Experts[r][(from + 1) + j - 1]
    BY <2>3, <2>4, SubSeqProperties
  <2>6. ASSUME NEW j \in 1 .. n, from < j, j <= to
        PROVE  j - from \in 1 .. Len(s) /\ s[j - from] = Experts[r][j]
    <3> DEFINE k == j - from
    <3>1. k \in 1 .. to - (from + 1) + 1 /\ (from + 1) + k - 1 = j /\ Len(s) = to - (from + 1) + 1
      BY <2>1, <2>2, <2>5, <2>6
    <3> HIDE DEF k
    <3>2. s[k] = Experts[r][j]
      BY <2>5, <3>1
    <3> QED BY <3>1, <3>2 DEF k
  <2>7. Len(s) \in Nat
    BY <2>5, LenProperties
  <2> QED BY <2>2, <2>5, <2>6, <2>7 DEF from, to, s
<1>5. ASSUME NEW r \in Ranks, NEW p \in 2 .. LastPass
      PROVE  /\ p - 1 \in 1 .. Subpasses /\ Slice(r, p - 1) \in Seq(Tensors)
             /\ Chunks(r, p) \in Seq(Seq(Tensors))
             /\ DOMAIN Chunks(r, p) = 1 .. Len(Slice(r, p - 1))
             /\ \A k \in 1 .. Len(Slice(r, p - 1)) : Chunks(r, p)[k] = <<Slice(r, p - 1)[k]>>
  <2> DEFINE s == Slice(r, p - 1)
             n == Len(s)
  <2>1. p - 1 \in 1 .. Subpasses /\ p # 1
    BY <1>1
  <2>2. s \in Seq(Tensors) /\ n \in Nat
    BY <1>4, <2>1
  <2>3. DOMAIN s = 1 .. n /\ \A k \in 1 .. n : s[k] \in Tensors
    <3> HIDE DEF s
    <3> QED BY <2>2, LenProperties, ElementOfSeq
  <2>4. Chunks(r, p) = [k \in 1 .. n |-> <<s[k]>>]
    <3>1. Chunks(r, p) = [k \in DOMAIN s |-> <<s[k]>>]
      BY <2>1 DEF Chunks
    <3> HIDE DEF s, n
    <3> QED BY <2>3, <3>1
  <2> HIDE DEF s, n
  <2>5. \A k \in 1 .. n : <<s[k]>> \in Seq(Tensors)
    BY <2>3
  <2>6. Chunks(r, p) \in Seq(Seq(Tensors))
    <3> DEFINE T == Seq(Tensors)
               c == Chunks(r, p)
    <3>1. c \in [1 .. n -> T]
      BY <2>4, <2>5
    <3> HIDE DEF T, c
    <3>2. c \in Seq(T)
      BY <2>2, <3>1
    <3> QED BY <3>2 DEF T, c
  <2>7. DOMAIN Chunks(r, p) = 1 .. n /\ \A k \in 1 .. n : Chunks(r, p)[k] = <<s[k]>>
    BY <2>4
  <2> QED BY <2>1, <2>2, <2>6, <2>7 DEF s, n
<1>6. ASSUME NEW r \in Ranks, NEW p \in 1 .. LastPass
      PROVE  Chunks(r, p) \in Seq(Seq(Tensors))
  <2>1. CASE p = 1
    BY <1>3, <2>1 DEF Chunks
  <2>2. CASE p # 1
    <3>1. p \in 2 .. LastPass
      BY <1>2, <2>2
    <3> QED BY <1>5, <3>1
  <2> QED BY <2>1, <2>2
<1>7. ASSUME NEW t \in Tensors
      PROVE  \E r \in Ranks : \E p \in 1 .. LastPass : \E k \in DOMAIN Chunks(r, p) :
               t \in InChunk(Chunks(r, p)[k])
  <2>1. PICK r \in Ranks :
          \/ \E k \in DOMAIN Dense[r] : \E i \in DOMAIN Dense[r][k] : Dense[r][k][i] = t
          \/ \E j \in DOMAIN Experts[r] : Experts[r][j] = t
    BY ChunksAssumption
  <2>2. CASE \E k \in DOMAIN Dense[r] : \E i \in DOMAIN Dense[r][k] : Dense[r][k][i] = t
    <3>1. Chunks(r, 1) = Dense[r]
      BY DEF Chunks
    <3> QED BY <1>2, <2>2, <3>1 DEF InChunk
  <2>3. CASE \E j \in DOMAIN Experts[r] : Experts[r][j] = t
    <3> DEFINE n == Len(Experts[r])
               cut(i) == Cut(r, i)
    <3>1. n \in Nat /\ DOMAIN Experts[r] = 1 .. n
      BY <1>3, LenProperties
    <3>2. PICK j \in 1 .. n : Experts[r][j] = t
      BY <2>3, <3>1
    <3>3. /\ cut(0) = 0 /\ cut(Subpasses) = n
          /\ \A i \in 0 .. Subpasses : cut(i) \in 0 .. n
      <4>1. 0 \in 0 .. Subpasses
        BY <1>1
      <4> QED BY <3>1, <4>1, Cuts DEF Cut
    <3> HIDE DEF n, cut
    <3> DEFINE late == {i \in 1 .. Subpasses : j <= cut(i)}
    <3>4. PICK i \in late : \A m \in late : i <= m
      <4>1. Subpasses \in late /\ late \in SUBSET Nat
        BY <1>1, <3>3
      <4> HIDE DEF late
      <4>2. late # {}
        BY <4>1
      <4> QED BY <4>1, <4>2, LeastNumber
    <3>5. i \in 1 .. Subpasses /\ j <= cut(i)
      BY <3>4
    <3>6. i - 1 \in 0 .. Subpasses /\ ~(i <= i - 1)
      BY <1>1, <3>5
    <3>7. cut(i - 1) < j
      <4>1. CASE i - 1 = 0
        BY <3>3, <4>1
      <4>2. CASE i - 1 # 0
        <5>1. i - 1 \in 1 .. Subpasses /\ i - 1 \notin late
          BY <3>4, <3>6, <4>2
        <5>2. ~(j <= cut(i - 1))
          BY <5>1
        <5> QED BY <3>1, <3>3, <3>6, <5>2
      <4> QED BY <4>1, <4>2
    <3> HIDE DEF late
    <3> DEFINE k == j - cut(i - 1)
               p == i + 1
    <3>8. k \in 1 .. Len(Slice(r, i)) /\ Slice(r, i)[k] = t
      <4>1. \A m \in 1 .. n : cut(i - 1) < m /\ m <= cut(i) =>
              m - cut(i - 1) \in 1 .. Len(Slice(r, i)) /\ Slice(r, i)[m - cut(i - 1)] = Experts[r][m]
        BY <1>4, <3>5 DEF cut, n
      <4> QED BY <3>2, <3>5, <3>7, <4>1
    <3> HIDE DEF k
    <3>9. p \in 2 .. LastPass /\ p \in 1 .. LastPass /\ p - 1 = i
      BY <1>1, <3>5
    <3> HIDE DEF p
    <3>10. DOMAIN Chunks(r, p) = 1 .. Len(Slice(r, i)) /\ Chunks(r, p)[k] = <<t>>
      BY <1>5, <3>8, <3>9
    <3>11. t \in InChunk(<<t>>)
      <4>1. 1 \in DOMAIN <<t>> /\ <<t>>[1] = t
        OBVIOUS
      <4> QED BY <4>1 DEF InChunk
    <3>12. t \in InChunk(Chunks(r, p)[k]) /\ k \in DOMAIN Chunks(r, p)
      BY <3>8, <3>10, <3>11
    <3> QED BY <3>9, <3>12
  <2> QED BY <2>1, <2>2, <2>3
<1> QED BY <1>2, <1>6, <1>7

-----------------------------------------------------------------------------
(***************************************************************************)
(* What the steps have in common.                                          *)
(***************************************************************************)

\* The weights are weights.
LEMMA WeightsFacts ==
  /\ Base \in Weights /\ Trained \subseteq Weights
  /\ \A w \in Weights : DOMAIN w = Tensors
  /\ \A v, w \in Weights : (\A t \in Tensors : v[t] = w[t]) => v = w
<1>1. ASSUME NEW w \in Trained \cup {Base}
      PROVE  w \in Weights
  BY WeightsAssumption DEF Weights
<1>2. \A w \in Weights : DOMAIN w = Tensors
  BY DEF Weights
<1>3. \A v, w \in Weights : (\A t \in Tensors : v[t] = w[t]) => v = w
  BY DEF Weights
<1> QED BY <1>1, <1>2, <1>3

\* A blob that tells of nothing is right, whoever it is for.
LEMMA NothingCarried ==
  ASSUME NEW b \in Blobs, b.params = << >>, NEW encoding, NEW olds, NEW w
  PROVE  Restores(encoding, b, olds, w)
BY DEF Restores

\* The engines only go from what they hold to the trainer's weights, which stay.
Advance ==
  /\ setting' = setting /\ weights' = weights /\ restarted \subseteq restarted'
  /\ \A e \in Engines \ restarted' : \A t \in Tensors : held'[e][t] \in {held[e][t], weights[t]}

\* Then a blob that is right stays right.
LEMMA CarriedKept ==
  ASSUME Advance, NEW encoding, NEW b, Restores(encoding, b, Olds, weights)
  PROVE  Restores(encoding, b, Olds', weights)
<1>1. Olds' = {weights} \cup {held'[e] : e \in Engines \ restarted'}
  BY DEF Olds, Loyal, Advance
<1>2. Olds = {weights} \cup {held[e] : e \in Engines \ restarted}
  BY DEF Olds, Loyal
<1>3. b \in Blobs
  BY DEF Restores
<1>4. ASSUME NEW i \in DOMAIN b.params, NEW old \in Olds'
      PROVE  LET t == b.params[i].name
             IN  Overwrite(encoding, b, b.params[i], old[t]) = weights[t]
  <2> DEFINE p == b.params[i]
             t == p.name
  <2>1. \A x \in Olds : Overwrite(encoding, b, p, x[t]) = weights[t]
    BY DEF Restores
  <2>2. t \in Tensors
    <3>1. b.params \in Seq(Params)
      BY <1>3 DEF Blobs
    <3>2. p \in Params
      BY <3>1, LenProperties, ElementOfSeq
    <3> HIDE DEF p
    <3> QED BY <3>2 DEF Params
  <2> HIDE DEF p, t
  <2>3. \E x \in Olds : x[t] = old[t]
    <3>1. CASE old = weights
      BY <1>2, <3>1
    <3>2. CASE old # weights
      <4>1. PICK e \in Engines \ restarted' : old = held'[e]
        BY <1>1, <3>2
      <4>2. held[e] \in Olds /\ weights \in Olds
        BY <1>2, <4>1 DEF Advance
      <4>3. old[t] \in {held[e][t], weights[t]}
        BY <2>2, <4>1 DEF Advance
      <4> QED BY <4>2, <4>3
    <3> QED BY <3>1, <3>2
  <2> QED BY <2>1, <2>3 DEF p, t
<1> HIDE DEF Overwrite
<1> QED BY <1>4 DEF Restores

\* A rank has the same tensors left while it stays where it is.
LEMMA LeftKept ==
  ASSUME NEW r, NEW s, NEW n, NEW t, n.chunk = s.chunk, n.pass = s.pass, n.next = s.next
  PROVE  Left(r, n, t) <=> Left(r, s, t)
BY DEF Left

\* The snapshot after a chunk.
LEMMA SnapshotCorrect ==
  ASSUME snapshot \in Weights, weights \in Weights, NEW chunk, NEW new, new = SnapshotWith(chunk)
  PROVE  /\ new \in Weights
         /\ \A t \in Tensors : new[t] = IF t \in InChunk(chunk) THEN weights[t] ELSE snapshot[t]
<1>1. DOMAIN snapshot = Tensors
  BY WeightsFacts
<1>2. new = [t \in Tensors |-> IF t \in InChunk(chunk) THEN weights[t] ELSE snapshot[t]]
  BY <1>1 DEF SnapshotWith, InChunk
<1>3. new \in Weights
  BY <1>2 DEF Weights
<1> QED BY <1>2, <1>3

\* The state of a rank that went on to a chunk.
Moved(s, encoded, new, next, chunk, prev) ==
  /\ new \in RankStates
  /\ new.pass = s.pass /\ new.next = next /\ new.chunk = chunk /\ new.prev = prev
  /\ new.flushes = s.flushes
  /\ (new.stage = "encode" /\ new.encoded = EmptyBlob) \/ new.stage = "flush"
  /\ \A t : t \in Told(new.bucket) \cup Told(new.encoded) <=> t \in Told(s.bucket) \cup Told(encoded)

\* Where a chunk goes that was encoded: in the bucket, or in front of a full one.
LEMMA EnqueuedCorrect ==
  ASSUME NEW encoding, NEW s \in RankStates, s.stage = "encode", s.encoded = EmptyBlob,
         NEW olds, NEW w, Restores(encoding, s.bucket, olds, w),
         NEW encoded, Restores(encoding, encoded, olds, w),
         NEW next \in Nat \ {0}, NEW chunk \in Seq(Tensors), NEW prev \in Partial,
         NEW new, new = Enqueued(s, encoded, next, chunk, prev)
  PROVE  /\ Moved(s, encoded, new, next, chunk, prev)
         /\ Restores(encoding, new.bucket, olds, w)
         /\ Restores(encoding, new.encoded, olds, w)
<1>1. /\ s.bucket \in Blobs /\ encoded \in Blobs /\ EmptyBlob \in Blobs
      /\ Restores(encoding, EmptyBlob, olds, w) /\ Told(EmptyBlob) = {}
  BY EmptyBlobFacts, NothingCarried DEF Restores
<1> DEFINE joined == Add(s.bucket, encoded)
           moved == [s EXCEPT !.next = next, !.chunk = chunk, !.prev = prev]
           waiting == [moved EXCEPT !.encoded = encoded, !.stage = "flush"]
           filled == [moved EXCEPT !.bucket = joined]
<1>2. \/ encoded.params = << >> /\ new = moved
      \/ new = waiting
      \/ new = filled
  BY DEF Enqueued, HasUpdates
<1>3. /\ Restores(encoding, joined, olds, w)
      /\ Told(joined) = Told(s.bucket) \cup Told(encoded)
  <2>1. joined = Join(s.bucket, encoded)
    BY DEF Add
  <2> HIDE DEF joined
  <2> QED BY <2>1, JoinCorrect
<1> HIDE DEF joined
<1>4. joined \in Blobs
  BY <1>3 DEF Restores
<1>5. /\ moved \in RankStates
      /\ moved.pass = s.pass /\ moved.next = next /\ moved.chunk = chunk /\ moved.prev = prev
      /\ moved.flushes = s.flushes /\ moved.stage = "encode"
      /\ moved.encoded = EmptyBlob /\ moved.bucket = s.bucket
  BY DEF RankStates
<1> HIDE DEF moved
<1>6. /\ waiting \in RankStates
      /\ waiting.pass = s.pass /\ waiting.next = next /\ waiting.chunk = chunk /\ waiting.prev = prev
      /\ waiting.flushes = s.flushes /\ waiting.stage = "flush"
      /\ waiting.encoded = encoded /\ waiting.bucket = s.bucket
  BY <1>1, <1>5 DEF RankStates
<1>7. /\ filled \in RankStates
      /\ filled.pass = s.pass /\ filled.next = next /\ filled.chunk = chunk /\ filled.prev = prev
      /\ filled.flushes = s.flushes /\ filled.stage = "encode"
      /\ filled.encoded = EmptyBlob /\ filled.bucket = joined
  BY <1>4, <1>5 DEF RankStates
<1> HIDE DEF waiting, filled
<1>8. CASE encoded.params = << >> /\ new = moved
  <2>1. Told(encoded) = {}
    BY <1>8 DEF Told
  <2> QED BY <1>1, <1>5, <1>8, <2>1 DEF Moved
<1>9. CASE new = waiting
  BY <1>1, <1>6, <1>9 DEF Moved
<1>10. CASE new = filled
  BY <1>1, <1>3, <1>7, <1>10 DEF Moved
<1> QED BY <1>2, <1>8, <1>9, <1>10

\* What does not change of a rank keeps the rank's invariant.
LEMMA PassKept ==
  ASSUME Advance, NEW q \in Ranks, PassInv(q), pc' = pc,
         rank'[q] = rank[q], rank'[0].pass = rank[0].pass
  PROVE  PassInv(q)'
<1>1. setting' = setting /\ weights' = weights
  BY DEF Advance
<1>2. Carried(rank[q].bucket)' /\ Carried(rank[q].encoded)'
  <2>1. /\ Restores(setting.encoding, rank[q].bucket, Olds, weights)
        /\ Restores(setting.encoding, rank[q].encoded, Olds, weights)
    BY DEF PassInv, Carried
  <2>2. /\ Restores(setting.encoding, rank[q].bucket, Olds', weights)
        /\ Restores(setting.encoding, rank[q].encoded, Olds', weights)
    BY <2>1, CarriedKept
  <2> QED BY <1>1, <2>2 DEF Carried
<1> QED BY <1>1, <1>2 DEF PassInv

\* And it keeps what is said of the rank's chunk.
LEMMA ChunkKept ==
  ASSUME Advance, TypeOK, NEW q \in Ranks, ChunkInv(q),
         rank'[q].chunk = rank[q].chunk, rank'[q].prev = rank[q].prev,
         \A t \in Tensors : snapshot'[t] # weights[t] => snapshot'[t] = snapshot[t]
  PROVE  ChunkInv(q)'
<1> DEFINE s == rank[q]
<1>1. \A t \in InChunk(s.chunk) : t \in Tensors
  <2>1. s \in RankStates
    BY DEF TypeOK
  <2> HIDE DEF s
  <2>2. s.chunk \in Seq(Tensors)
    BY <2>1 DEF RankStates
  <2> QED BY <2>2, LenProperties, ElementOfSeq DEF InChunk
<1>2. ASSUME NEW t \in InChunk(s.chunk)
      PROVE  /\ t \in DOMAIN s.prev /\ Len(s.prev[t]) = Len(Base[t])
             /\ s.prev[t] # weights[t] => \A e \in Loyal' : held'[e][t] \in {s.prev[t], weights[t]}
             /\ snapshot'[t] # weights[t] => s.prev[t] = snapshot'[t]
  <2>1. /\ t \in DOMAIN s.prev /\ Len(s.prev[t]) = Len(Base[t])
        /\ s.prev[t] # weights[t] => \A e \in Engines \ restarted : held[e][t] \in {s.prev[t], weights[t]}
        /\ snapshot[t] # weights[t] => s.prev[t] = snapshot[t]
    BY DEF ChunkInv, Loyal
  <2>2. t \in Tensors /\ Loyal' = Engines \ restarted'
    BY <1>1 DEF Loyal
  <2> HIDE DEF s
  <2> QED BY <2>1, <2>2 DEF Advance
<1>3. weights' = weights
  BY DEF Advance
<1>4. rank'[q].chunk = s.chunk /\ rank'[q].prev = s.prev
  OBVIOUS
<1> HIDE DEF s
<1>5. \A t \in InChunk(rank'[q].chunk) :
        /\ t \in DOMAIN rank'[q].prev /\ Len(rank'[q].prev[t]) = Len(Base[t])
        /\ rank'[q].prev[t] # weights'[t] => \A e \in Loyal' : held'[e][t] \in {rank'[q].prev[t], weights'[t]}
        /\ snapshot'[t] # weights'[t] => rank'[q].prev[t] = snapshot'[t]
  BY <1>2, <1>3, <1>4
<1> QED BY <1>5 DEF ChunkInv

\* A step that has nothing to do with files keeps what is said of them.
LEMMA FilesKept ==
  ASSUME Advance, TypeOK, FilesInv, pc' = pc,
         UNCHANGED <<writing, files, unpublished, publishes>>,
         setting.transport = "disk" => calls' = calls,
         \A q \in Ranks : \/ rank'[q].flushes = rank[q].flushes
                          \/ writing[q] = << >> /\ rank'[q].flushes = rank[q].flushes + 1
  PROVE  FilesInv'
<1>1. /\ setting' = setting /\ weights' = weights
  BY DEF Advance
<1>2. \A q \in Ranks : rank[q].flushes \in Nat /\ Len(writing[q]) \in Nat
  <2>1. \A q \in Ranks : rank[q] \in RankStates
    BY DEF TypeOK
  <2>2. \A q \in Ranks : rank[q].flushes \in Nat
    BY <2>1 DEF RankStates
  <2>3. \A q \in Ranks : writing[q] \in Seq([name : FileNames, bucket : Blobs])
    BY DEF TypeOK
  <2>4. \A q \in Ranks : Len(writing[q]) \in Nat
    BY <2>3, LenProperties
  <2> QED BY <2>2, <2>4
<1>3. \A b : Restores(setting.encoding, b, Olds, weights) => Restores(setting'.encoding, b, Olds', weights')
  BY <1>1, CarriedKept
<1>4. \A r \in Ranks : \A i \in DOMAIN writing'[r] :
        /\ writing'[r][i].name = <<r, rank'[r].flushes - Len(writing'[r]) + i - 1>>
        /\ writing'[r][i].name \in unpublished'[r]
        /\ Restores(setting'.encoding, writing'[r][i].bucket, Olds', weights')
  <2> SUFFICES ASSUME NEW r \in Ranks, NEW i \in DOMAIN writing[r]
               PROVE  /\ writing[r][i].name = <<r, rank'[r].flushes - Len(writing[r]) + i - 1>>
                      /\ writing[r][i].name \in unpublished[r]
                      /\ Restores(setting'.encoding, writing[r][i].bucket, Olds', weights')
    OBVIOUS
  <2>1. /\ writing[r][i].name = <<r, rank[r].flushes - Len(writing[r]) + i - 1>>
        /\ writing[r][i].name \in unpublished[r]
        /\ Restores(setting.encoding, writing[r][i].bucket, Olds, weights)
    BY DEF FilesInv, Carried
  <2>2. writing[r] # << >>
    OBVIOUS
  <2>3. rank'[r].flushes = rank[r].flushes
    BY <2>2
  <2> QED BY <1>3, <2>1, <2>3
<1>5. \A n \in DOMAIN files' :
        /\ n[2] < rank'[n[1]].flushes - Len(writing'[n[1]])
        /\ Restores(setting'.encoding, files'[n], Olds', weights')
  <2> SUFFICES ASSUME NEW n \in DOMAIN files
               PROVE  /\ n[2] < rank'[n[1]].flushes - Len(writing[n[1]])
                      /\ Restores(setting'.encoding, files[n], Olds', weights')
    OBVIOUS
  <2>1. /\ n[2] < rank[n[1]].flushes - Len(writing[n[1]])
        /\ Restores(setting.encoding, files[n], Olds, weights)
    BY DEF FilesInv, Carried
  <2>2. n[1] \in Ranks /\ n[2] \in Nat
    BY DEF TypeOK, FileNames
  <2>3. \/ rank'[n[1]].flushes = rank[n[1]].flushes
        \/ rank'[n[1]].flushes = rank[n[1]].flushes + 1
    BY <2>2
  <2>4. n[2] < rank'[n[1]].flushes - Len(writing[n[1]])
    <3> DEFINE f == rank[n[1]].flushes
               g == rank'[n[1]].flushes
               m == Len(writing[n[1]])
               k == n[2]
    <3>1. f \in Nat /\ m \in Nat /\ k \in Nat /\ k < f - m /\ (g = f \/ g = f + 1)
      BY <1>2, <2>1, <2>2, <2>3
    <3> HIDE DEF f, g, m, k
    <3>2. k < g - m
      BY <3>1
    <3> QED BY <3>2 DEF g, m, k
  <2> QED BY <1>3, <2>1, <2>4
<1>6. setting'.transport = "disk" =>
        \A e \in Engines : \A i \in DOMAIN calls'[e] : calls'[e][i].names \subseteq DOMAIN files'
  BY <1>1 DEF FilesInv
<1>7. /\ \A r \in Ranks : \A n \in unpublished'[r] :
           n \in DOMAIN files' \/ \E i \in DOMAIN writing'[r] : writing'[r][i].name = n
      /\ \A i \in DOMAIN publishes' : publishes'[i] \subseteq DOMAIN files'
      /\ setting'.transport = "nccl" => \A r \in Ranks : writing'[r] = << >>
      /\ setting'.transport = "nccl" => publishes' = << >> /\ \A r \in Ranks : unpublished'[r] = {}
      /\ pc' # "send" => \A r \in Ranks : writing'[r] = << >> /\ unpublished'[r] = {}
      /\ ~Sending' => files' = << >> /\ publishes' = << >>
      /\ ~Sending' /\ setting'.transport = "disk" => \A e \in Engines : calls'[e] = << >>
  BY <1>1 DEF FilesInv, Sending
<1> QED BY <1>4, <1>5, <1>6, <1>7 DEF FilesInv, Carried

\* What holds while a sync is on.
LEMMA SendFacts ==
  ASSUME TypeOK, SyncInv, Sending
  PROVE  /\ seeded /\ snapshot \in Weights /\ weights \in Weights /\ synced = weights
         /\ Progress /\ \A e \in Engines : paused[e]
<1>1. seeded
  BY DEF SyncInv, Sending
<1> QED BY <1>1 DEF SyncInv, TypeOK

\* The chunk of a rank, encoded.
LEMMA EncodedCorrect ==
  ASSUME TypeOK, NEW r \in Ranks, ChunkInv(r), NEW encoded, encoded = EncodedChunk(rank[r])
  PROVE  /\ Restores(setting.encoding, encoded, Olds, weights)
         /\ \A t \in InChunk(rank[r].chunk) : rank[r].prev[t] # weights[t] => t \in Told(encoded)
<1> DEFINE chunk == rank[r].chunk
           prev == rank[r].prev
<1>1. chunk \in Seq(Tensors) /\ prev \in Partial
  <2>1. rank[r] \in RankStates
    BY DEF TypeOK
  <2> QED BY <2>1 DEF RankStates
<1>2. weights \in Weights
  BY DEF TypeOK
<1>3. \A t \in InChunk(chunk) :
        /\ t \in DOMAIN prev /\ Len(prev[t]) = Len(Base[t])
        /\ prev[t] # weights[t] => \A e \in Loyal : held[e][t] \in {prev[t], weights[t]}
  BY DEF ChunkInv
<1>4. encoded = Encode(setting.encoding, Diffs(chunk, weights, prev))
  BY DEF EncodedChunk, Diffs
<1> HIDE DEF chunk, prev
<1>5. ASSUME NEW i \in DOMAIN chunk
      PROVE  /\ chunk[i] \in InChunk(chunk)
             /\ prev[chunk[i]] \in Seq(Elements) /\ Len(prev[chunk[i]]) = Len(weights[chunk[i]])
             /\ prev[chunk[i]] # weights[chunk[i]] =>
                  \A old \in Olds : old[chunk[i]] \in {prev[chunk[i]], weights[chunk[i]]}
  <2> DEFINE t == chunk[i]
  <2>1. t \in InChunk(chunk) /\ t \in Tensors
    BY <1>1, LenProperties, ElementOfSeq DEF InChunk
  <2> HIDE DEF t
  <2>2. prev[t] \in Seq(Elements)
    BY <1>1, <1>3, <2>1 DEF Partial
  <2>3. Len(prev[t]) = Len(weights[t])
    BY <1>2, <1>3, <2>1 DEF Weights
  <2>4. ASSUME prev[t] # weights[t], NEW old \in Olds
        PROVE  old[t] \in {prev[t], weights[t]}
    <3>1. old = weights \/ \E e \in Loyal : old = held[e]
      BY DEF Olds
    <3> QED BY <1>3, <2>1, <2>4, <3>1
  <2> QED BY <2>1, <2>2, <2>3, <2>4 DEF t
<1>6. Restores(setting.encoding, encoded, Olds, weights) /\ TellsOf(encoded, chunk, weights, prev)
  <2>1. Comparable(chunk, weights, prev, Olds)
    BY <1>5 DEF Comparable
  <2> QED BY ONLY <1>1, <1>2, <1>4, <2>1, EncodeCorrect
<1>7. \A t \in InChunk(chunk) : prev[t] # weights[t] => t \in Told(encoded)
  BY <1>6 DEF InChunk, TellsOf
<1> QED BY <1>6, <1>7 DEF chunk, prev

\* The chunk that a rank fetches, so that none before next is left out.
Fetched(r, next, chunk, prev) ==
  /\ next \in Nat \ {0} /\ chunk \in Seq(Tensors) /\ prev \in Partial
  /\ \A t \in InChunk(chunk) : t \in DOMAIN prev /\ prev[t] = snapshot[t]
  /\ \A k \in DOMAIN Chunks(r, rank[r].pass) :
       k >= rank[r].next => k >= next \/ InChunk(Chunks(r, rank[r].pass)[k]) \subseteq InChunk(chunk)

\* The step, whatever was fetched.
Encodes(r, next, chunk, prev) ==
  /\ Encoding(r)
  /\ rank' = [rank EXCEPT ![r] = Enqueued(@, EncodedChunk(rank[r]), next, chunk, prev)]
  /\ snapshot' = SnapshotWith(rank[r].chunk)
  /\ UNCHANGED <<trainer, lock, disk, engines, restarted>>

\* One chunk encoded, and the next one or none fetched.
LEMMA EncodeStep ==
  ASSUME IInv, NEW r \in Ranks, NEW next, NEW chunk, NEW prev,
         Fetched(r, next, chunk, prev), Encodes(r, next, chunk, prev)
  PROVE  IInv'
<1> DEFINE s == rank[r]
           encoded == EncodedChunk(s)
           new == Enqueued(s, encoded, next, chunk, prev)
<1>1. /\ TypeOK /\ RanksInv /\ FilesInv /\ SyncInv /\ VersionInv /\ PassInv(r) /\ ChunkInv(r)
      /\ s \in RankStates /\ rank \in [Ranks -> RankStates]
      /\ pc = "send" /\ Sending /\ s.stage = "encode" /\ s.encoded = EmptyBlob
  BY DEF IInv, RanksInv, TypeOK, PassInv, Encoding, Sending, Encodes
<1>2. /\ seeded /\ snapshot \in Weights /\ weights \in Weights /\ synced = weights
      /\ Progress /\ \A e \in Engines : paused[e]
  BY <1>1, SendFacts
<1>3. /\ Restores(setting.encoding, encoded, Olds, weights)
      /\ \A t \in InChunk(s.chunk) : s.prev[t] # weights[t] => t \in Told(encoded)
  BY <1>1, EncodedCorrect
<1> HIDE DEF encoded
<1>4. /\ new \in RankStates
      /\ new.pass = s.pass /\ new.next = next /\ new.chunk = chunk /\ new.prev = prev
      /\ new.flushes = s.flushes
      /\ (new.stage = "encode" /\ new.encoded = EmptyBlob) \/ new.stage = "flush"
      /\ Restores(setting.encoding, new.bucket, Olds, weights)
      /\ Restores(setting.encoding, new.encoded, Olds, weights)
      /\ \A t : t \in Told(new.bucket) \cup Told(new.encoded) <=> t \in Told(s.bucket) \cup Told(encoded)
  <2>1. Restores(setting.encoding, s.bucket, Olds, weights)
    BY <1>1 DEF PassInv, Carried
  <2> HIDE DEF s, new
  <2>2. new = Enqueued(s, encoded, next, chunk, prev)
    BY DEF new
  <2>3. s \in RankStates /\ s.stage = "encode" /\ s.encoded = EmptyBlob
    BY <1>1
  <2>4. Restores(setting.encoding, encoded, Olds, weights)
    BY <1>3
  <2>5. next \in Nat \ {0} /\ chunk \in Seq(Tensors) /\ prev \in Partial
    BY DEF Fetched
  <2>6. /\ Moved(s, encoded, new, next, chunk, prev)
        /\ Restores(setting.encoding, new.bucket, Olds, weights)
        /\ Restores(setting.encoding, new.encoded, Olds, weights)
    BY ONLY <2>1, <2>2, <2>3, <2>4, <2>5, EnqueuedCorrect
  <2> QED BY <2>6 DEF Moved
<1>5. rank' = [rank EXCEPT ![r] = new]
  BY DEF encoded, Encodes
<1> HIDE DEF new
<1>6. rank'[r] = new /\ \A q \in Ranks : q # r => rank'[q] = rank[q]
  BY <1>1, <1>5
<1>7. /\ snapshot' \in Weights
      /\ \A t \in Tensors : snapshot'[t] = IF t \in InChunk(s.chunk) THEN weights[t] ELSE snapshot[t]
  BY <1>2, SnapshotCorrect DEF Encodes
<1>8. /\ setting' = setting /\ pc' = pc /\ version' = version /\ seeded' = seeded /\ weights' = weights
      /\ synced' = synced /\ lock' = lock /\ writing' = writing /\ files' = files
      /\ unpublished' = unpublished /\ publishes' = publishes /\ published' = published
      /\ calls' = calls /\ held' = held /\ recorded' = recorded /\ paused' = paused
      /\ restarted' = restarted
  BY DEF Encodes, trainer, disk, engines
<1>9. Advance
  BY <1>8 DEF Advance
<1>10. TypeOK'
  <2>1. rank' \in [Ranks -> RankStates]
    BY <1>1, <1>4, <1>5
  <2> QED BY <1>1, <1>7, <1>8, <2>1 DEF TypeOK
<1> HIDE DEF s
<1>11. ASSUME NEW q \in Ranks
       PROVE  PassInv(q)' /\ ChunkInv(q)'
  <2>1. PassInv(q) /\ ChunkInv(q) /\ rank'[0].pass = rank[0].pass
    <3>1. rank'[0].pass = rank[0].pass
      BY <1>4, <1>6, RanksAssumption DEF s
    <3> QED BY <1>1, <3>1 DEF RanksInv
  <2>2. \A t \in Tensors : snapshot'[t] # weights[t] => snapshot'[t] = snapshot[t]
    BY <1>7
  <2>3. CASE q # r
    BY <1>1, <1>6, <1>8, <1>9, <2>1, <2>2, <2>3, PassKept, ChunkKept
  <2>4. CASE q = r
    <3>1. Restores(setting.encoding, new.bucket, Olds', weights) /\ Restores(setting.encoding, new.encoded, Olds', weights)
      BY <1>4, <1>9, CarriedKept
    <3>2. PassInv(r)'
      <4>1. /\ pc = "send" => s.pass = rank[0].pass /\ s.pass <= LastPass
        BY <1>1 DEF PassInv, s
      <4>2. /\ new.stage \in {"encode", "flush"}
            /\ new.stage \in {"encode", "barrier"} => new.encoded = EmptyBlob
        BY <1>4
      <4> QED BY <1>1, <1>4, <1>6, <1>8, <2>1, <3>1, <4>1, <4>2 DEF PassInv, Carried
    <3>3. ASSUME NEW t \in InChunk(chunk)
          PROVE  /\ t \in DOMAIN prev /\ Len(prev[t]) = Len(Base[t])
                 /\ prev[t] # weights[t] => \A e \in Loyal : held[e][t] \in {prev[t], weights[t]}
                 /\ snapshot'[t] # weights[t] => prev[t] = snapshot'[t]
      <4>1. t \in Tensors
        BY LenProperties, ElementOfSeq DEF InChunk, Fetched
      <4>2. t \in DOMAIN prev /\ prev[t] = snapshot[t]
        BY DEF Fetched
      <4>3. Len(prev[t]) = Len(Base[t])
        BY <1>2, <4>1, <4>2 DEF Weights
      <4>4. prev[t] # weights[t] => \A e \in Loyal : held[e][t] \in {prev[t], weights[t]}
        BY <1>2, <4>1, <4>2 DEF Progress
      <4>5. snapshot'[t] # weights[t] => prev[t] = snapshot'[t]
        BY <1>7, <4>1, <4>2
      <4> QED BY <4>2, <4>3, <4>4, <4>5
    <3>4. ChunkInv(r)'
      <4>1. Loyal' = Loyal
        BY <1>8 DEF Loyal
      <4> QED BY <1>4, <1>6, <1>8, <3>3, <4>1 DEF ChunkInv
    <3> QED BY <2>4, <3>2, <3>4
  <2> QED BY <2>3, <2>4
<1>12. FilesInv'
  <2>1. \A q \in Ranks : rank'[q].flushes = rank[q].flushes
    BY <1>4, <1>6 DEF s
  <2> QED BY <1>1, <1>8, <1>9, <2>1, FilesKept
<1>13. ASSUME NEW t \in Tensors, snapshot'[t] # weights[t]
       PROVE  ToCome(t)' /\ snapshot[t] = snapshot'[t] /\ snapshot[t] # weights[t]
  <2>1. t \notin InChunk(s.chunk) /\ snapshot[t] = snapshot'[t] /\ snapshot[t] # weights[t]
    BY <1>7, <1>13
  <2>2. PICK q \in Ranks : Left(q, rank[q], t)
    BY <1>2, <2>1 DEF Progress, ToCome
  <2>3. Left(q, rank'[q], t)
    <3>1. CASE q # r
      BY <1>6, <2>2, <3>1
    <3>2. CASE q = r
      <4>1. PICK p \in 1 .. LastPass : \E k \in DOMAIN Chunks(r, p) :
              /\ t \in InChunk(Chunks(r, p)[k])
              /\ p > s.pass \/ (p = s.pass /\ k >= s.next)
        BY <2>1, <2>2, <3>2 DEF Left, s
      <4>2. PICK k \in DOMAIN Chunks(r, p) :
              /\ t \in InChunk(Chunks(r, p)[k])
              /\ p > s.pass \/ (p = s.pass /\ k >= s.next)
        BY <4>1
      <4>3. CASE p > s.pass
        BY <1>4, <1>6, <3>2, <4>2, <4>3 DEF Left
      <4>4. CASE p = s.pass /\ k >= s.next
        <5>1. k >= next \/ t \in InChunk(chunk)
          BY <4>2, <4>4 DEF s, Fetched
        <5> QED BY <1>4, <1>6, <3>2, <4>2, <4>4, <5>1 DEF Left
      <4> QED BY <4>2, <4>3, <4>4
    <3> QED BY <3>1, <3>2
  <2> QED BY <2>1, <2>3 DEF ToCome
<1>14. ASSUME NEW t \in Tensors, NEW e \in Loyal, held[e][t] # weights[t], snapshot'[t] = weights[t]
       PROVE  Underway(e, t)'
  <2>1. CASE snapshot[t] # weights[t]
    <3>1. t \in InChunk(s.chunk)
      BY <1>7, <1>14, <2>1
    <3>2. s.prev[t] # weights[t]
      BY <1>1, <2>1, <3>1 DEF ChunkInv, s
    <3>3. t \in Told(new.bucket) \cup Told(new.encoded)
      BY <1>3, <1>4, <3>1, <3>2
    <3> QED BY <1>6, <3>3 DEF Underway
  <2>2. CASE snapshot[t] = weights[t]
    <3>1. Underway(e, t)
      BY <1>2, <1>14, <2>2 DEF Progress
    <3>2. CASE \E q \in Ranks : t \in Told(rank[q].bucket) \cup Told(rank[q].encoded)
      <4>1. PICK q \in Ranks : t \in Told(rank[q].bucket) \cup Told(rank[q].encoded)
        BY <3>2
      <4>2. t \in Told(rank'[q].bucket) \cup Told(rank'[q].encoded)
        <5>1. CASE q # r
          BY <1>6, <4>1, <5>1
        <5>2. CASE q = r
          BY <1>1, <1>4, <1>6, <4>1, <5>2, EmptyBlobFacts DEF s
        <5> QED BY <5>1, <5>2
      <4> QED BY <4>2 DEF Underway
    <3>3. CASE \E q \in Ranks : \E i \in DOMAIN writing[q] : t \in Told(writing[q][i].bucket)
      BY <1>8, <3>3 DEF Underway
    <3>4. CASE \E n \in DOMAIN files \cap Outstanding(e) : t \in Told(files[n])
      <4>1. Outstanding(e)' = Outstanding(e)
        BY <1>8 DEF Outstanding
      <4> QED BY <1>8, <3>4, <4>1 DEF Underway
    <3> QED BY <3>1, <3>2, <3>3, <3>4 DEF Underway
  <2> QED BY <2>1, <2>2
<1>15. Progress'
  <2>1. Loyal' = Loyal
    BY <1>8 DEF Loyal
  <2>2. ASSUME NEW t \in Tensors
        PROVE  /\ snapshot'[t] # weights[t] =>
                    ToCome(t)' /\ \A e \in Loyal : held[e][t] \in {snapshot'[t], weights[t]}
               /\ \A e \in Loyal : held[e][t] # weights[t] => snapshot'[t] # weights[t] \/ Underway(e, t)'
    BY <1>2, <1>13, <1>14 DEF Progress
  <2> QED BY <1>8, <2>1, <2>2 DEF Progress
<1>16. SyncInv'
  BY <1>1, <1>2, <1>8, <1>15 DEF SyncInv, Sending
<1>17. VersionInv'
  BY <1>1, <1>8 DEF VersionInv, Sending
<1> QED BY <1>10, <1>11, <1>12, <1>16, <1>17 DEF IInv, RanksInv

\* What a rank that encodes has before it.
LEMMA EncodingFacts ==
  ASSUME IInv, NEW r \in Ranks, Encoding(r)
  PROVE  /\ rank \in [Ranks -> RankStates] /\ rank[r] \in RankStates
         /\ rank[r].next \in Nat \ {0} /\ rank[r].pass \in 1 .. LastPass
         /\ Chunks(r, rank[r].pass) \in Seq(Seq(Tensors))
         /\ \A k \in DOMAIN Chunks(r, rank[r].pass) : k \in Nat
         /\ DOMAIN Chunks(r, rank[r].pass) = 1 .. Len(Chunks(r, rank[r].pass))
         /\ Len(Chunks(r, rank[r].pass)) \in Nat
         /\ snapshot \in Weights
<1>1. TypeOK /\ SyncInv /\ PassInv(r) /\ pc = "send" /\ Sending
  BY DEF IInv, RanksInv, Encoding, Sending
<1>2. rank \in [Ranks -> RankStates] /\ rank[r] \in RankStates
  BY <1>1 DEF TypeOK
<1>3. rank[r].next \in Nat \ {0} /\ rank[r].pass \in 1 .. LastPass + 1
  BY <1>2 DEF RankStates
<1>4. rank[r].pass <= LastPass
  BY <1>1 DEF PassInv
<1>5. rank[r].pass \in 1 .. LastPass
  BY <1>3, <1>4, ChunksCorrect
<1>6. Chunks(r, rank[r].pass) \in Seq(Seq(Tensors))
  BY <1>5, ChunksCorrect
<1>7. /\ DOMAIN Chunks(r, rank[r].pass) = 1 .. Len(Chunks(r, rank[r].pass))
      /\ Len(Chunks(r, rank[r].pass)) \in Nat
  BY <1>6, LenProperties
<1>8. snapshot \in Weights
  BY <1>1, SendFacts
<1> QED BY <1>2, <1>3, <1>5, <1>6, <1>7, <1>8

\* _pipeline_pass: the next chunk is fetched and the one before encoded.
LEMMA PipelineChunkStep ==
  ASSUME IInv, NEW r \in Ranks, PipelineChunk(r)
  PROVE  IInv'
<1> DEFINE s == rank[r]
           all == Chunks(r, s.pass)
           chunk == all[s.next]
           prev == [name \in {chunk[i] : i \in DOMAIN chunk} |-> snapshot[name]]
           next == s.next + 1
<1>1. /\ Encoding(r) /\ s.next <= Len(all)
      /\ rank' = [rank EXCEPT ![r] = Enqueued(@, EncodedChunk(s), next, chunk, prev)]
      /\ snapshot' = SnapshotWith(s.chunk)
      /\ UNCHANGED <<trainer, lock, disk, engines, restarted>>
  BY DEF PipelineChunk
<1>2. /\ s.next \in Nat \ {0} /\ all \in Seq(Seq(Tensors)) /\ DOMAIN all = 1 .. Len(all)
      /\ Len(all) \in Nat /\ snapshot \in Weights
  BY <1>1, EncodingFacts
<1> HIDE DEF all, s
<1>3. chunk \in Seq(Tensors) /\ next \in Nat \ {0}
  <2>1. s.next \in 1 .. Len(all)
    BY <1>1, <1>2
  <2> QED BY <1>2, <2>1, ElementOfSeq
<1> HIDE DEF chunk
<1>4. DOMAIN prev = InChunk(chunk) /\ \A t \in InChunk(chunk) : prev[t] = snapshot[t]
  BY DEF InChunk
<1>5. prev \in Partial
  <2>1. InChunk(chunk) \subseteq Tensors
    BY <1>3, LenProperties, ElementOfSeq DEF InChunk
  <2>2. prev \in [InChunk(chunk) -> Seq(Elements)]
    BY <1>2, <2>1 DEF Weights, InChunk
  <2> HIDE DEF prev
  <2> QED BY <2>1, <2>2 DEF Partial
<1>6. \A k \in DOMAIN all : k >= s.next => k >= next \/ InChunk(all[k]) \subseteq InChunk(chunk)
  <2> SUFFICES ASSUME NEW k \in DOMAIN all, k >= s.next, ~(k >= next)
               PROVE  InChunk(all[k]) \subseteq InChunk(chunk)
    OBVIOUS
  <2>1. k = s.next
    BY <1>2
  <2> QED BY <2>1 DEF chunk
<1>7. Fetched(r, next, chunk, prev)
  <2>1. \A t \in InChunk(chunk) : t \in DOMAIN prev /\ prev[t] = snapshot[t]
    BY <1>4
  <2> HIDE DEF prev, next
  <2> QED BY <1>3, <1>5, <1>6, <2>1 DEF Fetched, s, all
<1>8. Encodes(r, next, chunk, prev)
  <2> HIDE DEF prev, next
  <2> QED BY <1>1 DEF Encodes, s
<1> HIDE DEF prev, next
<1> QED BY <1>7, <1>8, EncodeStep

\* A rank that keeps its place and its buckets and goes to another stage.
SamePlace(s, new) ==
  /\ new \in RankStates
  /\ new.pass = s.pass /\ new.next = s.next /\ new.chunk = s.chunk /\ new.prev = s.prev
  /\ new.encoded = s.encoded /\ new.bucket = s.bucket /\ new.flushes = s.flushes

\* A rank that only goes on to another stage of its broadcast keeps the invariant.
LEMMA StageStep ==
  ASSUME IInv, NEW r \in Ranks, pc = "send", NEW new, SamePlace(rank[r], new),
         rank' = [rank EXCEPT ![r] = new],
         new.stage # "encode", new.stage = "call" => setting.transport = "nccl",
         new.stage = "barrier" => /\ new.encoded = EmptyBlob /\ new.next > Len(Chunks(r, new.pass))
                                  /\ new.chunk = NoChunk /\ new.bucket.params = << >>,
         snapshot' = snapshot, UNCHANGED <<trainer, disk, held, recorded, paused, restarted>>,
         calls' = calls \/ (setting.transport = "nccl" /\ calls' \in [Engines -> Seq(Ranks)])
  PROVE  IInv'
<1> DEFINE s == rank[r]
<1>1. /\ TypeOK /\ RanksInv /\ FilesInv /\ SyncInv /\ VersionInv /\ PassInv(r)
      /\ s \in RankStates /\ rank \in [Ranks -> RankStates] /\ pc = "send" /\ Sending
  BY DEF IInv, RanksInv, TypeOK, Sending
<1>2. /\ seeded /\ snapshot \in Weights /\ weights \in Weights /\ synced = weights
      /\ Progress /\ \A e \in Engines : paused[e]
  BY <1>1, SendFacts
<1>3. /\ new \in RankStates
      /\ new.pass = s.pass /\ new.next = s.next /\ new.chunk = s.chunk /\ new.prev = s.prev
      /\ new.encoded = s.encoded /\ new.bucket = s.bucket /\ new.flushes = s.flushes
  BY DEF SamePlace
<1>4. rank'[r] = new /\ \A q \in Ranks : q # r => rank'[q] = rank[q]
  BY <1>1
<1>5. /\ setting' = setting /\ pc' = pc /\ version' = version /\ seeded' = seeded /\ weights' = weights
      /\ synced' = synced /\ writing' = writing /\ files' = files
      /\ unpublished' = unpublished /\ publishes' = publishes /\ published' = published
      /\ held' = held /\ recorded' = recorded /\ paused' = paused
      /\ restarted' = restarted /\ snapshot' = snapshot
  BY DEF trainer, disk
<1>6. Advance
  BY <1>5 DEF Advance
<1>7. setting.transport \in {"nccl", "disk"}
  BY <1>1, SettingsAssumption DEF TypeOK
<1>8. TypeOK'
  <2>1. rank' \in [Ranks -> RankStates]
    BY <1>1, <1>3
  <2>2. calls' \in [Engines -> IF setting.transport = "nccl" THEN Seq(Ranks)
                               ELSE Seq([names : SUBSET FileNames, version : {version}])]
    BY <1>1 DEF TypeOK
  <2> QED BY <1>1, <1>5, <2>1, <2>2 DEF TypeOK
<1> HIDE DEF s
<1>9. \A q \in Ranks : /\ rank'[q].pass = rank[q].pass /\ rank'[q].next = rank[q].next
                       /\ rank'[q].chunk = rank[q].chunk /\ rank'[q].prev = rank[q].prev
                       /\ rank'[q].encoded = rank[q].encoded /\ rank'[q].bucket = rank[q].bucket
                       /\ rank'[q].flushes = rank[q].flushes
  BY <1>3, <1>4 DEF s
<1>10. ASSUME NEW q \in Ranks
       PROVE  PassInv(q)' /\ ChunkInv(q)'
  <2>1. PassInv(q) /\ ChunkInv(q) /\ rank'[0].pass = rank[0].pass
    BY <1>1, <1>9, RanksAssumption DEF RanksInv
  <2>2. ChunkInv(q)'
    BY <1>1, <1>5, <1>6, <1>9, <2>1, ChunkKept
  <2>3. CASE q # r
    BY <1>1, <1>4, <1>5, <1>6, <2>1, <2>2, <2>3, PassKept
  <2>4. CASE q = r
    <3>1. Restores(setting.encoding, new.bucket, Olds', weights) /\ Restores(setting.encoding, new.encoded, Olds', weights)
      <4>1. Restores(setting.encoding, s.bucket, Olds, weights) /\ Restores(setting.encoding, s.encoded, Olds, weights)
        BY <1>1 DEF PassInv, Carried, s
      <4> QED BY <1>3, <1>6, <4>1, CarriedKept
    <3>2. pc = "send" => s.pass = rank[0].pass /\ s.pass <= LastPass
      BY <1>1 DEF PassInv, s
    <3>3. PassInv(r)'
      BY <1>1, <1>3, <1>4, <1>5, <2>1, <3>1, <3>2 DEF PassInv, Carried
    <3> QED BY <2>2, <2>4, <3>3
  <2> QED BY <2>3, <2>4
<1>11. FilesInv'
  <2>1. setting.transport = "disk" => calls' = calls
    OBVIOUS
  <2> QED BY <1>1, <1>5, <1>6, <1>9, <2>1, FilesKept
<1>12. Progress'
  <2>1. Loyal' = Loyal
    BY <1>5 DEF Loyal
  <2>2. ASSUME NEW t \in Tensors, ToCome(t)
        PROVE  ToCome(t)'
    <3>1. PICK q \in Ranks : Left(q, rank[q], t)
      BY <2>2 DEF ToCome
    <3>2. Left(q, rank'[q], t)
      BY <1>9, <3>1, LeftKept
    <3> QED BY <3>2 DEF ToCome
  <2>3. ASSUME NEW t \in Tensors, NEW e \in Loyal, Underway(e, t)
        PROVE  Underway(e, t)'
    <3>1. Outstanding(e)' = Outstanding(e)
      BY <1>5, <1>7 DEF Outstanding
    <3> QED BY <1>5, <1>9, <2>3, <3>1 DEF Underway
  <2>4. ASSUME NEW t \in Tensors
        PROVE  /\ snapshot[t] # weights[t] =>
                    ToCome(t)' /\ \A e \in Loyal : held[e][t] \in {snapshot[t], weights[t]}
               /\ \A e \in Loyal : held[e][t] # weights[t] => snapshot[t] # weights[t] \/ Underway(e, t)'
    BY <1>2, <2>2, <2>3 DEF Progress
  <2> QED BY <1>5, <2>1, <2>4 DEF Progress
<1>13. SyncInv'
  BY <1>1, <1>2, <1>5, <1>12 DEF SyncInv, Sending
<1>14. VersionInv'
  BY <1>1, <1>5, <1>7 DEF VersionInv, Sending
<1> QED BY <1>8, <1>10, <1>11, <1>13, <1>14 DEF IInv, RanksInv

\* The last chunk of a pass, or the rest of the bucket.
LEMMA LastChunkStep ==
  ASSUME IInv, NEW r \in Ranks, LastChunk(r)
  PROVE  IInv'
<1> DEFINE s == rank[r]
           stage == IF HasUpdates(s.bucket) THEN "flush" ELSE "barrier"
           new == [s EXCEPT !.stage = stage]
<1>1. /\ Encoding(r) /\ s.next > Len(Chunks(r, s.pass))
      /\ snapshot' = SnapshotWith(s.chunk)
      /\ UNCHANGED <<trainer, lock, disk, engines, restarted>>
  BY DEF LastChunk
<1>2. /\ s.next \in Nat \ {0} /\ s \in RankStates /\ snapshot \in Weights
      /\ pc = "send" /\ s.stage = "encode" /\ s.encoded = EmptyBlob /\ rank \in [Ranks -> RankStates]
  <2>1. PassInv(r)
    BY DEF IInv, RanksInv
  <2> QED BY <1>1, <2>1, EncodingFacts DEF PassInv, Encoding
<1>3. CASE s.chunk # NoChunk
  <2>1. NoChunk \in Seq(Tensors) /\ InChunk(NoChunk) = {} /\ << >> \in Partial
    <3>1. << >> \in [{} -> Seq(Elements)]
      OBVIOUS
    <3>2. << >> \in Partial
      BY <3>1 DEF Partial
    <3> QED BY <3>2 DEF NoChunk, InChunk
  <2>2. Fetched(r, s.next, NoChunk, << >>)
    BY <1>2, <2>1 DEF Fetched
  <2>3. Encodes(r, s.next, NoChunk, << >>)
    BY <1>1, <1>3 DEF Encodes, LastChunk
  <2> QED BY <2>2, <2>3, EncodeStep
<1>4. CASE s.chunk = NoChunk
  <2>1. rank' = [rank EXCEPT ![r] = new]
    <3>1. rank' = [rank EXCEPT ![r] = [@ EXCEPT !.stage = stage]]
      BY <1>4 DEF LastChunk
    <3> QED BY <3>1
  <2>2. snapshot' = snapshot
    <3>1. weights \in Weights
      BY DEF IInv, TypeOK
    <3>2. InChunk(s.chunk) = {}
      BY <1>4 DEF NoChunk, InChunk
    <3>3. snapshot' \in Weights /\ \A t \in Tensors : snapshot'[t] = snapshot[t]
      BY <1>1, <1>2, <3>1, <3>2, SnapshotCorrect
    <3> QED BY <1>2, <3>3, WeightsFacts
  <2>3. SamePlace(s, new) /\ new.stage = stage
    BY <1>2 DEF SamePlace, RankStates
  <2>4. /\ stage \in {"flush", "barrier"}
        /\ stage = "barrier" => s.bucket.params = << >>
    BY DEF HasUpdates
  <2> HIDE DEF new, stage
  <2>5. /\ new.stage # "encode" /\ new.stage # "call"
        /\ new.stage = "barrier" => /\ new.encoded = EmptyBlob /\ new.next > Len(Chunks(r, new.pass))
                                    /\ new.chunk = NoChunk /\ new.bucket.params = << >>
    <3>1. /\ new.pass = s.pass /\ new.next = s.next /\ new.chunk = s.chunk
          /\ new.encoded = s.encoded /\ new.bucket = s.bucket /\ new.stage = stage
      BY <2>3 DEF SamePlace
    <3>2. new.stage # "encode" /\ new.stage # "call"
      BY <2>4, <3>1
    <3>3. new.stage = "barrier" => s.bucket.params = << >>
      BY <2>4, <3>1
    <3>4. new.encoded = EmptyBlob /\ new.next > Len(Chunks(r, new.pass)) /\ new.chunk = NoChunk
      BY <1>1, <1>2, <1>4, <3>1
    <3> QED BY <3>1, <3>2, <3>3, <3>4
  <2>6. UNCHANGED <<trainer, disk, held, recorded, paused, restarted>> /\ calls' = calls
    BY <1>1 DEF engines
  <2> QED BY <1>2, <2>1, <2>2, <2>3, <2>5, <2>6, StageStep
<1> QED BY <1>3, <1>4

\* A rank gets the lock of the engines.
LEMMA AcquireStep ==
  ASSUME IInv, NEW r \in Ranks, Acquire(r)
  PROVE  IInv'
<1> DEFINE s == rank[r]
           new == [s EXCEPT !.stage = "call", !.unsent = Engines]
<1>1. setting.transport = "nccl" /\ s.stage = "flush"
  BY DEF Acquire
<1>2. TypeOK /\ PassInv(r) /\ s \in RankStates
  BY DEF IInv, RanksInv, TypeOK
<1>3. pc = "send"
  BY <1>1, <1>2 DEF PassInv
<1>4. rank' = [rank EXCEPT ![r] = new]
  <2>1. rank \in [Ranks -> RankStates]
    BY <1>2 DEF TypeOK
  <2> QED BY <2>1 DEF Acquire
<1>5. SamePlace(s, new) /\ new.stage = "call"
  BY <1>2 DEF SamePlace, RankStates
<1> HIDE DEF new
<1>6. /\ snapshot' = snapshot /\ calls' = calls
      /\ UNCHANGED <<trainer, disk, held, recorded, paused, restarted>>
  BY DEF Acquire, engines
<1> QED BY <1>1, <1>3, <1>4, <1>5, <1>6, StageStep

\* A rank's call reaches an engine.
LEMMA CallEngineStep ==
  ASSUME IInv, NEW r \in Ranks, NEW e \in Engines, CallEngine(r, e)
  PROVE  IInv'
<1> DEFINE s == rank[r]
           new == [s EXCEPT !.unsent = @ \ {e}]
<1>1. s.stage = "call"
  BY DEF CallEngine
<1>2. TypeOK /\ PassInv(r) /\ s \in RankStates
  BY DEF IInv, RanksInv, TypeOK
<1>3. pc = "send" /\ setting.transport = "nccl"
  BY <1>1, <1>2 DEF PassInv
<1>4. rank' = [rank EXCEPT ![r] = new]
  <2>1. rank \in [Ranks -> RankStates]
    BY <1>2 DEF TypeOK
  <2> QED BY <2>1 DEF CallEngine
<1>5. SamePlace(s, new) /\ new.stage = "call"
  BY <1>1, <1>2 DEF SamePlace, RankStates
<1> HIDE DEF new
<1>6. calls' \in [Engines -> Seq(Ranks)]
  <2>1. calls \in [Engines -> Seq(Ranks)]
    BY <1>2, <1>3 DEF TypeOK
  <2>2. calls' = [calls EXCEPT ![e] = Append(@, r)]
    BY DEF CallEngine
  <2>3. Append(calls[e], r) \in Seq(Ranks)
    BY <2>1, AppendProperties
  <2> QED BY <2>1, <2>2, <2>3
<1>7. snapshot' = snapshot /\ UNCHANGED <<trainer, disk, held, recorded, paused, restarted>>
  BY DEF CallEngine
<1> QED BY <1>3, <1>4, <1>5, <1>6, <1>7, StageStep

\* A rank whose bucket is flushed: the chunk that did not fit is the next bucket.
LEMMA FlushedRanks ==
  ASSUME IInv, Advance, NEW r \in Ranks, rank[r].stage \in {"flush", "call"},
         rank' = [rank EXCEPT ![r] = Flushed(@)], pc' = pc, snapshot' = snapshot
  PROVE  /\ rank' \in [Ranks -> RankStates] /\ RanksInv' /\ pc = "send"
         /\ rank'[r].bucket = rank[r].encoded /\ rank'[r].encoded = EmptyBlob
         /\ rank'[r].flushes = rank[r].flushes + 1
         /\ \A q \in Ranks : q # r => rank'[q] = rank[q]
         /\ \A q \in Ranks : \A t : Left(q, rank'[q], t) <=> Left(q, rank[q], t)
<1> DEFINE s == rank[r]
           new == Flushed(s)
<1>1. /\ TypeOK /\ RanksInv /\ PassInv(r) /\ s \in RankStates /\ rank \in [Ranks -> RankStates]
  BY DEF IInv, RanksInv, TypeOK
<1>2. pc = "send"
  BY <1>1 DEF PassInv
<1>3. /\ new \in RankStates
      /\ new.pass = s.pass /\ new.next = s.next /\ new.chunk = s.chunk /\ new.prev = s.prev
      /\ new.bucket = s.encoded /\ new.encoded = EmptyBlob /\ new.stage = "encode"
      /\ new.flushes = s.flushes + 1
  <2>1. new = [s EXCEPT !.bucket = s.encoded, !.encoded = EmptyBlob, !.stage = "encode",
                        !.flushes = s.flushes + 1]
    BY DEF Flushed
  <2>2. s.encoded \in Blobs /\ EmptyBlob \in Blobs /\ s.flushes + 1 \in Nat
    BY <1>1, EmptyBlobFacts DEF RankStates
  <2> HIDE DEF new
  <2> QED BY <1>1, <2>1, <2>2 DEF RankStates
<1>4. rank' = [rank EXCEPT ![r] = new]
  OBVIOUS
<1> HIDE DEF new
<1>5. rank'[r] = new /\ \A q \in Ranks : q # r => rank'[q] = rank[q]
  BY <1>1, <1>4
<1>6. rank' \in [Ranks -> RankStates]
  BY <1>1, <1>3, <1>4
<1> HIDE DEF s
<1>7. \A q \in Ranks : /\ rank'[q].pass = rank[q].pass /\ rank'[q].next = rank[q].next
                       /\ rank'[q].chunk = rank[q].chunk /\ rank'[q].prev = rank[q].prev
  BY <1>3, <1>5 DEF s
<1>8. setting' = setting /\ weights' = weights
  BY DEF Advance
<1>9. ASSUME NEW q \in Ranks
      PROVE  PassInv(q)' /\ ChunkInv(q)'
  <2>1. PassInv(q) /\ ChunkInv(q) /\ rank'[0].pass = rank[0].pass
    BY <1>1, <1>7, RanksAssumption DEF RanksInv
  <2>2. ChunkInv(q)'
    BY <1>1, <1>7, <2>1, ChunkKept
  <2>3. CASE q # r
    BY <1>1, <1>5, <2>1, <2>2, <2>3, PassKept
  <2>4. CASE q = r
    <3>1. Restores(setting.encoding, new.bucket, Olds', weights) /\ Restores(setting.encoding, new.encoded, Olds', weights)
      <4>1. Restores(setting.encoding, s.encoded, Olds, weights)
        BY <1>1 DEF PassInv, Carried, s
      <4>2. Restores(setting.encoding, EmptyBlob, Olds', weights)
        BY EmptyBlobFacts, NothingCarried
      <4> QED BY <1>3, <4>1, <4>2, CarriedKept
    <3>2. pc = "send" => s.pass = rank[0].pass /\ s.pass <= LastPass
      BY <1>1 DEF PassInv, s
    <3>3. PassInv(r)'
      BY <1>2, <1>3, <1>5, <1>8, <2>1, <3>1, <3>2 DEF PassInv, Carried
    <3> QED BY <2>2, <2>4, <3>3
  <2> QED BY <2>3, <2>4
<1>10. \A q \in Ranks : \A t : Left(q, rank'[q], t) <=> Left(q, rank[q], t)
  BY <1>7, LeftKept
<1> QED BY <1>2, <1>3, <1>5, <1>6, <1>9, <1>10 DEF RanksInv, s

\* Every engine applies the bucket; the chunk that waited opens the next.
LEMMA BroadcastStep ==
  ASSUME IInv, NEW r \in Ranks, Broadcast(r)
  PROVE  IInv'
<1> DEFINE s == rank[r]
<1>1. /\ TypeOK /\ RanksInv /\ FilesInv /\ SyncInv /\ VersionInv /\ PassInv(r)
      /\ s.stage = "call" /\ setting.transport = "nccl"
      /\ weights \in Weights /\ held \in [Engines -> Weights] /\ calls \in [Engines -> Seq(Ranks)]
  <2>1. TypeOK /\ RanksInv /\ FilesInv /\ SyncInv /\ VersionInv /\ PassInv(r) /\ s.stage = "call"
    BY DEF IInv, RanksInv, Broadcast
  <2>2. setting.transport = "nccl"
    BY <2>1 DEF PassInv
  <2> QED BY <2>1, <2>2 DEF TypeOK
<1>2. /\ setting' = setting /\ pc' = pc /\ version' = version /\ seeded' = seeded /\ weights' = weights
      /\ synced' = synced /\ writing' = writing /\ files' = files
      /\ unpublished' = unpublished /\ publishes' = publishes /\ published' = published
      /\ paused' = paused /\ restarted' = restarted /\ snapshot' = snapshot
      /\ held' = [e \in Engines |-> Apply(setting.encoding, s.bucket, held[e])]
      /\ recorded' = [e \in Engines |-> version]
      /\ calls' = [e \in Engines |-> Tail(calls[e])]
      /\ rank' = [rank EXCEPT ![r] = Flushed(@)]
  BY DEF Broadcast, trainer, disk
<1>3. Restores(setting.encoding, s.bucket, Olds, weights)
  BY <1>1 DEF PassInv, Carried
<1> HIDE DEF s
<1>4. ASSUME NEW e \in Engines
      PROVE  /\ held'[e] \in Weights
             /\ e \in Loyal => \A t \in Tensors :
                  held'[e][t] = IF t \in Told(s.bucket) THEN weights[t] ELSE held[e][t]
  <2>1. held'[e] = Apply(setting.encoding, s.bucket, held[e]) /\ held[e] \in Weights
    BY <1>1, <1>2
  <2>2. e \in Loyal => held[e] \in Olds
    BY DEF Olds
  <2> QED BY <1>3, <2>1, <2>2, ApplyCorrect
<1>5. Advance
  <2>1. \A e \in Engines \ restarted' : e \in Loyal /\ e \in Engines
    BY <1>2 DEF Loyal
  <2>2. \A e \in Engines \ restarted' : \A t \in Tensors : held'[e][t] \in {held[e][t], weights[t]}
    BY <1>4, <2>1
  <2> QED BY <1>2, <2>2 DEF Advance
<1>6. /\ rank' \in [Ranks -> RankStates] /\ RanksInv' /\ pc = "send"
      /\ rank'[r].bucket = s.encoded /\ rank'[r].encoded = EmptyBlob
      /\ rank'[r].flushes = s.flushes + 1
      /\ \A q \in Ranks : q # r => rank'[q] = rank[q]
      /\ \A q \in Ranks : \A t : Left(q, rank'[q], t) <=> Left(q, rank[q], t)
  <2>1. s.stage \in {"flush", "call"}
    BY <1>1
  <2> QED BY <1>2, <1>5, <2>1, FlushedRanks DEF s
<1>7. TypeOK'
  <2>1. calls' \in [Engines -> Seq(Ranks)]
    <3>1. \A e \in Engines : calls[e] # << >>
      BY DEF Broadcast
    <3>2. \A e \in Engines : Tail(calls[e]) \in Seq(Ranks)
      BY <1>1, <3>1, HeadTailProperties
    <3> QED BY <1>2, <3>2
  <2>2. recorded' \in [Engines -> Nat] /\ held' \in [Engines -> Weights]
    BY <1>1, <1>2, <1>4 DEF TypeOK
  <2> QED BY <1>1, <1>2, <1>6, <2>1, <2>2 DEF TypeOK
<1>8. FilesInv'
  <2>1. ASSUME NEW q \in Ranks
        PROVE  \/ rank'[q].flushes = rank[q].flushes
               \/ writing[q] = << >> /\ rank'[q].flushes = rank[q].flushes + 1
    BY <1>1, <1>6 DEF FilesInv, s
  <2>2. setting.transport # "disk"
    BY <1>1
  <2> QED BY <1>1, <1>2, <1>5, <2>1, <2>2, FilesKept
<1>9. /\ Sending /\ seeded /\ synced = weights /\ Progress /\ \A e \in Engines : paused[e]
  <2>1. Sending
    BY <1>6 DEF Sending
  <2> QED BY <1>1, <2>1, SendFacts
<1>10. ASSUME NEW t \in Tensors, NEW e \in Loyal, Underway(e, t), t \notin Told(s.bucket)
       PROVE  Underway(e, t)'
  <2>1. Outstanding(e)' = Outstanding(e)
    BY <1>1, <1>2 DEF Outstanding
  <2>2. CASE \E q \in Ranks : t \in Told(rank[q].bucket) \cup Told(rank[q].encoded)
    <3>1. PICK q \in Ranks : t \in Told(rank[q].bucket) \cup Told(rank[q].encoded)
      BY <2>2
    <3>2. t \in Told(rank'[q].bucket) \cup Told(rank'[q].encoded)
      BY <1>6, <1>10, <3>1 DEF s
    <3> QED BY <3>2 DEF Underway
  <2> QED BY <1>2, <1>10, <2>1, <2>2 DEF Underway
<1>11. Progress'
  <2>1. Loyal' = Loyal
    BY <1>2 DEF Loyal
  <2>2. ASSUME NEW t \in Tensors, ToCome(t)
        PROVE  ToCome(t)'
    BY <1>6, <2>2 DEF ToCome
  <2>3. ASSUME NEW t \in Tensors
        PROVE  /\ snapshot[t] # weights[t] =>
                    ToCome(t)' /\ \A e \in Loyal : held'[e][t] \in {snapshot[t], weights[t]}
               /\ \A e \in Loyal : held'[e][t] # weights[t] => snapshot[t] # weights[t] \/ Underway(e, t)'
    <3>1. \A e \in Loyal : held'[e][t] = IF t \in Told(s.bucket) THEN weights[t] ELSE held[e][t]
      BY <1>4 DEF Loyal
    <3>2. /\ snapshot[t] # weights[t] =>
               ToCome(t) /\ \A e \in Loyal : held[e][t] \in {snapshot[t], weights[t]}
          /\ \A e \in Loyal : held[e][t] # weights[t] => snapshot[t] # weights[t] \/ Underway(e, t)
      BY <1>9 DEF Progress
    <3> QED BY <1>10, <2>2, <3>1, <3>2
  <2> QED BY <1>2, <2>1, <2>3 DEF Progress
<1>12. SyncInv'
  BY <1>2, <1>6, <1>9, <1>11 DEF SyncInv, Sending
<1>13. VersionInv'
  BY <1>1, <1>2 DEF VersionInv
<1> QED BY <1>6, <1>7, <1>8, <1>12, <1>13 DEF IInv

\* The flushed bucket is the last file to be written.
LEMMA EnqueueFileStep ==
  ASSUME IInv, NEW r \in Ranks, EnqueueFile(r)
  PROVE  IInv'
<1> DEFINE s == rank[r]
           name == <<r, s.flushes>>
           file == [name |-> name, bucket |-> s.bucket]
           queue == writing[r]
           m == Len(queue)
<1>1. /\ TypeOK /\ RanksInv /\ FilesInv /\ SyncInv /\ VersionInv /\ PassInv(r)
      /\ s.stage = "flush" /\ setting.transport = "disk" /\ s \in RankStates
  BY DEF IInv, RanksInv, EnqueueFile, TypeOK
<1>2. /\ setting' = setting /\ pc' = pc /\ version' = version /\ seeded' = seeded /\ weights' = weights
      /\ synced' = synced /\ files' = files /\ publishes' = publishes /\ published' = published
      /\ held' = held /\ recorded' = recorded /\ calls' = calls
      /\ paused' = paused /\ restarted' = restarted /\ snapshot' = snapshot
      /\ writing' = [writing EXCEPT ![r] = Append(@, file)]
      /\ unpublished' = [unpublished EXCEPT ![r] = @ \cup {name}]
      /\ rank' = [rank EXCEPT ![r] = Flushed(@)]
  BY DEF EnqueueFile, trainer, engines
<1>3. /\ queue \in Seq([name : FileNames, bucket : Blobs]) /\ m \in Nat /\ DOMAIN queue = 1 .. m
      /\ writing \in [Ranks -> Seq([name : FileNames, bucket : Blobs])]
      /\ unpublished \in [Ranks -> SUBSET FileNames]
      /\ name \in FileNames /\ file \in [name : FileNames, bucket : Blobs]
      /\ s.flushes \in Nat
  <2>1. /\ writing \in [Ranks -> Seq([name : FileNames, bucket : Blobs])]
        /\ unpublished \in [Ranks -> SUBSET FileNames]
    BY <1>1 DEF TypeOK
  <2>2. s.bucket \in Blobs /\ s.flushes \in Nat
    BY <1>1 DEF RankStates
  <2>3. queue \in Seq([name : FileNames, bucket : Blobs]) /\ m \in Nat /\ DOMAIN queue = 1 .. m
    BY <2>1, LenProperties
  <2> QED BY <2>1, <2>2, <2>3 DEF FileNames
<1>4. Advance
  BY <1>2 DEF Advance
<1> HIDE DEF s, name, file
<1>5. /\ rank' \in [Ranks -> RankStates] /\ RanksInv' /\ pc = "send"
      /\ rank'[r].bucket = s.encoded /\ rank'[r].encoded = EmptyBlob
      /\ rank'[r].flushes = s.flushes + 1
      /\ \A q \in Ranks : q # r => rank'[q] = rank[q]
      /\ \A q \in Ranks : \A t : Left(q, rank'[q], t) <=> Left(q, rank[q], t)
  <2>1. s.stage \in {"flush", "call"}
    BY <1>1
  <2> QED BY <1>2, <1>4, <2>1, FlushedRanks DEF s
<1>6. /\ writing'[r] \in Seq([name : FileNames, bucket : Blobs]) /\ Len(writing'[r]) = m + 1
      /\ DOMAIN writing'[r] = 1 .. m + 1
      /\ \A i \in 1 .. m : writing'[r][i] = queue[i]
      /\ writing'[r][m + 1] = file
      /\ \A q \in Ranks : q # r => writing'[q] = writing[q]
  <2>1. writing'[r] = Append(queue, file) /\ \A q \in Ranks : q # r => writing'[q] = writing[q]
    BY <1>2, <1>3
  <2> HIDE DEF m, queue
  <2>2. Append(queue, file) \in Seq([name : FileNames, bucket : Blobs])
    BY <1>3, AppendProperties
  <2>3. /\ Len(Append(queue, file)) = m + 1 /\ Append(queue, file)[m + 1] = file
        /\ \A i \in 1 .. m : Append(queue, file)[i] = queue[i]
    BY <1>3, AppendProperties DEF m
  <2>4. DOMAIN Append(queue, file) = 1 .. m + 1
    BY <2>2, <2>3, LenProperties
  <2> QED BY <2>1, <2>2, <2>3, <2>4
<1> HIDE DEF m, queue
<1>7. /\ unpublished'[r] = unpublished[r] \cup {name}
      /\ \A q \in Ranks : q # r => unpublished'[q] = unpublished[q]
  BY <1>2, <1>3
<1>8. TypeOK'
  <2>1. writing' \in [Ranks -> Seq([name : FileNames, bucket : Blobs])]
    BY <1>2, <1>3, <1>6
  <2>2. unpublished' \in [Ranks -> SUBSET FileNames]
    BY <1>2, <1>3
  <2> QED BY <1>1, <1>2, <1>5, <2>1, <2>2 DEF TypeOK
<1>9. \A b : Restores(setting.encoding, b, Olds, weights) => Restores(setting.encoding, b, Olds', weights)
  BY <1>4, CarriedKept
<1>10. ASSUME NEW q \in Ranks, NEW i \in DOMAIN writing'[q]
       PROVE  /\ writing'[q][i].name = <<q, rank'[q].flushes - Len(writing'[q]) + i - 1>>
              /\ writing'[q][i].name \in unpublished'[q]
              /\ Restores(setting.encoding, writing'[q][i].bucket, Olds', weights)
  <2>1. ASSUME i \in DOMAIN writing[q]
        PROVE  /\ writing[q][i].name = <<q, rank[q].flushes - Len(writing[q]) + i - 1>>
               /\ writing[q][i].name \in unpublished[q]
               /\ Restores(setting.encoding, writing[q][i].bucket, Olds', weights)
    BY <1>1, <1>9, <2>1 DEF FilesInv, Carried
  <2>2. CASE q # r
    <3>1. writing'[q] = writing[q] /\ unpublished'[q] = unpublished[q] /\ rank'[q] = rank[q]
      BY <1>5, <1>6, <1>7, <2>2
    <3> QED BY <2>1, <3>1
  <2>3. CASE q = r /\ i \in 1 .. m
    <3>1. writing'[q][i] = writing[q][i] /\ i \in DOMAIN writing[q] /\ unpublished[q] \subseteq unpublished'[q]
      BY <1>3, <1>6, <1>7, <2>3 DEF queue
    <3>2. rank[q].flushes = s.flushes /\ Len(writing[q]) = m
      BY <2>3 DEF s, m, queue
    <3>3. rank'[q].flushes - Len(writing'[q]) + i - 1 = rank[q].flushes - Len(writing[q]) + i - 1
      <4>1. rank'[q].flushes = s.flushes + 1 /\ Len(writing'[q]) = m + 1
        BY <1>5, <1>6, <2>3
      <4> QED BY <1>3, <2>3, <3>2, <4>1
    <3> QED BY <2>1, <3>1, <3>3
  <2>4. CASE q = r /\ i = m + 1
    <3>1. writing'[q][i] = file /\ file.name = name /\ file.bucket = s.bucket
      BY <1>6, <2>4 DEF file
    <3>2. rank'[q].flushes - Len(writing'[q]) + i - 1 = s.flushes
      <4>1. rank'[q].flushes = s.flushes + 1 /\ Len(writing'[q]) = m + 1
        BY <1>5, <1>6, <2>4
      <4>2. \A f, k \in Nat : (f + 1) - (k + 1) + (k + 1) - 1 = f
        OBVIOUS
      <4>3. i = m + 1
        BY <2>4
      <4> QED BY ONLY <1>3, <4>1, <4>2, <4>3
    <3>3. Restores(setting.encoding, s.bucket, Olds, weights)
      BY <1>1 DEF PassInv, Carried, s
    <3>4. name = <<q, s.flushes>> /\ name \in unpublished'[q]
      BY <1>7, <2>4 DEF name
    <3> QED BY <1>9, <3>1, <3>2, <3>3, <3>4
  <2>5. q = r => i \in 1 .. m \/ i = m + 1
    BY <1>3, <1>6
  <2> QED BY <2>2, <2>3, <2>4, <2>5
<1>11. ASSUME NEW n \in DOMAIN files
       PROVE  /\ n[2] < rank'[n[1]].flushes - Len(writing'[n[1]])
              /\ Restores(setting.encoding, files[n], Olds', weights)
  <2>1. /\ n[2] < rank[n[1]].flushes - Len(writing[n[1]])
        /\ Restores(setting.encoding, files[n], Olds', weights)
    BY <1>1, <1>9 DEF FilesInv, Carried
  <2>2. n[1] \in Ranks
    BY <1>1 DEF TypeOK, FileNames
  <2>3. rank'[n[1]].flushes - Len(writing'[n[1]]) = rank[n[1]].flushes - Len(writing[n[1]])
    <3>1. CASE n[1] # r
      BY <1>5, <1>6, <2>2, <3>1
    <3>2. CASE n[1] = r
      <4>1. /\ rank'[n[1]].flushes = s.flushes + 1 /\ Len(writing'[n[1]]) = m + 1
            /\ rank[n[1]].flushes = s.flushes /\ Len(writing[n[1]]) = m
        BY <1>5, <1>6, <3>2 DEF s, m, queue
      <4> QED BY <1>3, <4>1
    <3> QED BY <3>1, <3>2
  <2> QED BY <2>1, <2>3
<1>12. ASSUME NEW q \in Ranks, NEW n \in unpublished'[q]
       PROVE  n \in DOMAIN files \/ \E i \in DOMAIN writing'[q] : writing'[q][i].name = n
  <2>1. ASSUME n \in unpublished[q]
        PROVE  n \in DOMAIN files \/ \E i \in DOMAIN writing[q] : writing[q][i].name = n
    BY <1>1, <2>1 DEF FilesInv
  <2>2. CASE q # r
    BY <1>6, <1>7, <2>1, <2>2
  <2>3. CASE q = r /\ n = name
    <3>1. m + 1 \in DOMAIN writing'[q] /\ writing'[q][m + 1].name = name
      BY <1>3, <1>6, <2>3 DEF file
    <3> QED BY <2>3, <3>1
  <2>4. CASE q = r /\ n \in unpublished[q]
    <3>1. CASE n \in DOMAIN files
      BY <3>1
    <3>2. CASE \E i \in DOMAIN writing[q] : writing[q][i].name = n
      <4>1. PICK i \in DOMAIN writing[q] : writing[q][i].name = n
        BY <3>2
      <4>2. i \in 1 .. m /\ i \in 1 .. m + 1
        BY <1>3, <2>4, <4>1 DEF queue
      <4>3. writing'[q][i] = writing[q][i] /\ i \in DOMAIN writing'[q]
        BY <1>6, <2>4, <4>2 DEF queue
      <4> QED BY <4>1, <4>3
    <3> QED BY <2>1, <2>4, <3>1, <3>2
  <2> QED BY <1>7, <2>2, <2>3, <2>4
<1>13. FilesInv'
  <2>1. /\ \A i \in DOMAIN publishes : publishes[i] \subseteq DOMAIN files
        /\ setting.transport = "disk" =>
             \A e \in Engines : \A i \in DOMAIN calls[e] : calls[e][i].names \subseteq DOMAIN files
    BY <1>1 DEF FilesInv
  <2>2. setting.transport # "nccl" /\ pc = "send" /\ Sending
    BY <1>1, <1>5 DEF Sending
  <2>3. Sending'
    BY <1>2, <1>5 DEF Sending
  <2> QED BY <1>2, <1>10, <1>11, <1>12, <2>1, <2>2, <2>3 DEF FilesInv, Carried
<1>14. /\ Sending /\ seeded /\ synced = weights /\ Progress /\ \A e \in Engines : paused[e]
  <2>1. Sending
    BY <1>5 DEF Sending
  <2> QED BY <1>1, <2>1, SendFacts
<1>15. ASSUME NEW t \in Tensors, NEW e \in Loyal, Underway(e, t)
       PROVE  Underway(e, t)'
  <2>1. CASE \E q \in Ranks : t \in Told(rank[q].bucket) \cup Told(rank[q].encoded)
    <3>1. PICK q \in Ranks : t \in Told(rank[q].bucket) \cup Told(rank[q].encoded)
      BY <2>1
    <3>2. CASE q = r /\ t \in Told(s.bucket)
      <4>1. m + 1 \in DOMAIN writing'[r] /\ writing'[r][m + 1].bucket = s.bucket
        BY <1>3, <1>6 DEF file
      <4> QED BY <3>2, <4>1 DEF Underway
    <3>3. CASE q # r \/ t \notin Told(s.bucket)
      <4>1. t \in Told(rank'[q].bucket) \cup Told(rank'[q].encoded)
        BY <1>5, <3>1, <3>3 DEF s
      <4> QED BY <4>1 DEF Underway
    <3> QED BY <3>2, <3>3
  <2>2. CASE \E q \in Ranks : \E i \in DOMAIN writing[q] : t \in Told(writing[q][i].bucket)
    <3>1. PICK q \in Ranks : \E i \in DOMAIN writing[q] : t \in Told(writing[q][i].bucket)
      BY <2>2
    <3>2. PICK i \in DOMAIN writing[q] : t \in Told(writing[q][i].bucket)
      BY <3>1
    <3>3. i \in DOMAIN writing'[q] /\ writing'[q][i] = writing[q][i]
      <4>1. CASE q # r
        BY <1>6, <4>1
      <4>2. CASE q = r
        <5>1. i \in 1 .. m /\ i \in 1 .. m + 1
          BY <1>3, <4>2 DEF queue
        <5> QED BY <1>6, <4>2, <5>1 DEF queue
      <4> QED BY <4>1, <4>2
    <3> QED BY <3>2, <3>3 DEF Underway
  <2>3. CASE \E n \in DOMAIN files \cap Outstanding(e) : t \in Told(files[n])
    <3>1. Outstanding(e) \subseteq Outstanding(e)'
      <4>1. UNION {unpublished[q] : q \in Ranks} \subseteq UNION {unpublished'[q] : q \in Ranks}
        <5>1. \A q \in Ranks : unpublished[q] \subseteq unpublished'[q]
          BY <1>7
        <5> QED BY <5>1
      <4> QED BY <1>2, <4>1 DEF Outstanding
    <3> QED BY <1>2, <2>3, <3>1 DEF Underway
  <2> QED BY <1>15, <2>1, <2>2, <2>3 DEF Underway
<1>16. Progress'
  <2>1. Loyal' = Loyal
    BY <1>2 DEF Loyal
  <2>2. ASSUME NEW t \in Tensors, ToCome(t)
        PROVE  ToCome(t)'
    BY <1>5, <2>2 DEF ToCome
  <2>3. ASSUME NEW t \in Tensors
        PROVE  /\ snapshot[t] # weights[t] =>
                    ToCome(t)' /\ \A e \in Loyal : held[e][t] \in {snapshot[t], weights[t]}
               /\ \A e \in Loyal : held[e][t] # weights[t] => snapshot[t] # weights[t] \/ Underway(e, t)'
    BY <1>14, <1>15, <2>2 DEF Progress
  <2> QED BY <1>2, <2>1, <2>3 DEF Progress
<1>17. SyncInv'
  BY <1>2, <1>5, <1>14, <1>16 DEF SyncInv, Sending
<1>18. VersionInv'
  BY <1>1, <1>2, <1>14 DEF VersionInv, Sending
<1> QED BY <1>5, <1>8, <1>13, <1>17, <1>18 DEF IInv

\* The writer thread: the first file of the queue is there, under a name no file had.
LEMMA WriteFileStep ==
  ASSUME IInv, NEW r \in Ranks, WriteFile(r)
  PROVE  IInv'
<1> DEFINE s == rank[r]
           queue == writing[r]
           m == Len(queue)
           f == Head(queue)
<1>1. /\ TypeOK /\ RanksInv /\ FilesInv /\ SyncInv /\ VersionInv
      /\ rank \in [Ranks -> RankStates] /\ queue # << >>
      /\ writing \in [Ranks -> Seq([name : FileNames, bucket : Blobs])]
  BY DEF IInv, WriteFile, TypeOK
<1>2. /\ setting' = setting /\ pc' = pc /\ version' = version /\ seeded' = seeded /\ weights' = weights
      /\ synced' = synced /\ publishes' = publishes /\ published' = published
      /\ unpublished' = unpublished /\ rank' = rank
      /\ held' = held /\ recorded' = recorded /\ calls' = calls
      /\ paused' = paused /\ restarted' = restarted /\ snapshot' = snapshot
      /\ writing' = [writing EXCEPT ![r] = Tail(@)]
      /\ files' = [n \in DOMAIN files \cup {f.name} |-> IF n = f.name THEN f.bucket ELSE files[n]]
  BY DEF WriteFile, trainer, engines
<1>3. /\ queue \in Seq([name : FileNames, bucket : Blobs]) /\ m \in Nat \ {0} /\ DOMAIN queue = 1 .. m
      /\ f = queue[1] /\ f \in [name : FileNames, bucket : Blobs]
      /\ s.flushes \in Nat
  <2>1. s.flushes \in Nat
    <3>1. s \in RankStates
      BY <1>1
    <3> QED BY <3>1 DEF RankStates
  <2>2. queue \in Seq([name : FileNames, bucket : Blobs])
    BY <1>1
  <2>3. m \in Nat \ {0} /\ DOMAIN queue = 1 .. m
    BY <1>1, <2>2, EmptySeq, LenProperties
  <2>4. f \in [name : FileNames, bucket : Blobs]
    BY <1>1, <2>2, HeadTailProperties
  <2> QED BY <2>1, <2>2, <2>3, <2>4
<1>4. Advance
  BY <1>2 DEF Advance
<1> HIDE DEF s, f
<1>5. /\ writing'[r] \in Seq([name : FileNames, bucket : Blobs]) /\ Len(writing'[r]) = m - 1
      /\ DOMAIN writing'[r] = 1 .. m - 1
      /\ \A i \in 1 .. m - 1 : writing'[r][i] = queue[i + 1]
      /\ \A q \in Ranks : q # r => writing'[q] = writing[q]
  <2>1. writing'[r] = Tail(queue) /\ \A q \in Ranks : q # r => writing'[q] = writing[q]
    BY <1>1, <1>2
  <2>2. /\ Tail(queue) \in Seq([name : FileNames, bucket : Blobs]) /\ Len(Tail(queue)) = m - 1
        /\ \A i \in 1 .. m - 1 : Tail(queue)[i] = queue[i + 1]
    BY <1>1, <1>3, HeadTailProperties
  <2>3. DOMAIN Tail(queue) = 1 .. m - 1
    BY <2>2, LenProperties
  <2> QED BY <2>1, <2>2, <2>3
<1>6. /\ pc = "send" /\ setting.transport # "nccl" /\ Sending
  <2>1. pc = "send" /\ setting.transport # "nccl"
    BY <1>1 DEF FilesInv
  <2> QED BY <2>1 DEF Sending
<1> HIDE DEF m, queue
<1>7. /\ f.name \in FileNames /\ f.bucket \in Blobs
      /\ f.name[1] = r /\ f.name[2] = s.flushes - m /\ f.name \in unpublished[r]
      /\ Restores(setting.encoding, f.bucket, Olds, weights)
  <2>1. 1 \in DOMAIN writing[r] /\ writing[r][1] = f
    BY <1>3 DEF queue
  <2>2. /\ f.name = <<r, s.flushes - m + 1 - 1>> /\ f.name \in unpublished[r]
        /\ Restores(setting.encoding, f.bucket, Olds, weights)
    BY <1>1, <2>1 DEF FilesInv, Carried, s, m, queue
  <2>3. s.flushes - m + 1 - 1 = s.flushes - m
    BY <1>3
  <2> QED BY <1>3, <2>2, <2>3
<1>8. /\ DOMAIN files \subseteq DOMAIN files' /\ f.name \in DOMAIN files' /\ files'[f.name] = f.bucket
      /\ \A n \in DOMAIN files' : n = f.name \/ n \in DOMAIN files
      /\ \A n \in DOMAIN files : n # f.name /\ files'[n] = files[n]
  <2>1. \A n \in DOMAIN files : n # f.name
    <3> SUFFICES ASSUME f.name \in DOMAIN files PROVE FALSE
      OBVIOUS
    <3>1. f.name[2] < rank[f.name[1]].flushes - Len(writing[f.name[1]])
      BY <1>1 DEF FilesInv
    <3>2. rank[f.name[1]].flushes = s.flushes /\ Len(writing[f.name[1]]) = m
      BY <1>7 DEF s, m, queue
    <3> QED BY <1>3, <1>7, <3>1, <3>2
  <2> QED BY <1>2, <2>1
<1>9. TypeOK'
  <2>1. writing' \in [Ranks -> Seq([name : FileNames, bucket : Blobs])]
    BY <1>1, <1>2, <1>5
  <2>2. \A n \in DOMAIN files' : n \in FileNames /\ files'[n] \in Blobs
    BY <1>1, <1>7, <1>8 DEF TypeOK
  <2> QED BY <1>1, <1>2, <2>1, <2>2 DEF TypeOK
<1>10. RanksInv'
  <2>1. ASSUME NEW q \in Ranks
        PROVE  PassInv(q)' /\ ChunkInv(q)'
    BY <1>1, <1>2, <1>4, PassKept, ChunkKept DEF RanksInv
  <2> QED BY <2>1 DEF RanksInv
<1>11. \A b : Restores(setting.encoding, b, Olds, weights) => Restores(setting.encoding, b, Olds', weights)
  BY <1>4, CarriedKept
<1>12. ASSUME NEW q \in Ranks, NEW i \in DOMAIN writing'[q]
       PROVE  /\ writing'[q][i].name = <<q, rank[q].flushes - Len(writing'[q]) + i - 1>>
              /\ writing'[q][i].name \in unpublished[q]
              /\ Restores(setting.encoding, writing'[q][i].bucket, Olds', weights)
  <2>1. ASSUME NEW j \in DOMAIN writing[q]
        PROVE  /\ writing[q][j].name = <<q, rank[q].flushes - Len(writing[q]) + j - 1>>
               /\ writing[q][j].name \in unpublished[q]
               /\ Restores(setting.encoding, writing[q][j].bucket, Olds', weights)
    BY <1>1, <1>11 DEF FilesInv, Carried
  <2>2. CASE q # r
    BY <1>5, <2>1, <2>2
  <2>3. CASE q = r
    <3>1. i \in 1 .. m - 1 /\ i + 1 \in DOMAIN writing[q] /\ writing'[q][i] = writing[q][i + 1]
      <4>1. i \in 1 .. m - 1
        BY <1>5, <2>3
      <4>2. i + 1 \in 1 .. m
        BY <1>3, <4>1
      <4> QED BY <1>3, <1>5, <2>3, <4>1, <4>2 DEF queue
    <3>2. rank[q].flushes - Len(writing'[q]) + i - 1 = rank[q].flushes - Len(writing[q]) + (i + 1) - 1
      <4>1. rank[q].flushes = s.flushes /\ Len(writing'[q]) = m - 1 /\ Len(writing[q]) = m
        BY <1>5, <2>3 DEF s, m, queue
      <4>2. \A f0, k, j \in Int : f0 - (k - 1) + j - 1 = f0 - k + (j + 1) - 1
        OBVIOUS
      <4>3. i \in Int /\ m \in Int /\ s.flushes \in Int
        BY <1>3, <3>1
      <4>4. s.flushes - (m - 1) + i - 1 = s.flushes - m + (i + 1) - 1
        BY ONLY <4>2, <4>3
      <4> QED BY ONLY <4>1, <4>4, Zenon
    <3> QED BY <2>1, <3>1, <3>2
  <2> QED BY <2>2, <2>3
<1>13. ASSUME NEW n \in DOMAIN files'
       PROVE  /\ n[2] < rank[n[1]].flushes - Len(writing'[n[1]])
              /\ Restores(setting.encoding, files'[n], Olds', weights)
  <2>1. CASE n = f.name
    <3>1. rank[n[1]].flushes = s.flushes /\ Len(writing'[n[1]]) = m - 1
      BY <1>5, <1>7, <2>1 DEF s
    <3>2. n[2] < rank[n[1]].flushes - Len(writing'[n[1]])
      BY <1>3, <1>7, <2>1, <3>1
    <3> QED BY <1>7, <1>8, <1>11, <2>1, <3>2
  <2>2. CASE n \in DOMAIN files
    <3>1. /\ n[2] < rank[n[1]].flushes - Len(writing[n[1]])
          /\ Restores(setting.encoding, files[n], Olds', weights)
      BY <1>1, <1>11, <2>2 DEF FilesInv, Carried
    <3>2. n[1] \in Ranks /\ n[2] \in Nat
      BY <1>1, <2>2 DEF TypeOK, FileNames
    <3>3. n[2] < rank[n[1]].flushes - Len(writing'[n[1]])
      <4>1. CASE n[1] # r
        BY <1>5, <3>1, <3>2, <4>1
      <4>2. CASE n[1] = r
        <5>1. /\ rank[n[1]].flushes = s.flushes /\ Len(writing'[n[1]]) = m - 1
              /\ Len(writing[n[1]]) = m
          BY <1>5, <4>2 DEF s, m, queue
        <5> QED BY <1>3, <3>1, <3>2, <5>1
      <4> QED BY <4>1, <4>2
    <3> QED BY <1>8, <2>2, <3>1, <3>3
  <2> QED BY <1>8, <2>1, <2>2
<1>14. ASSUME NEW q \in Ranks, NEW n \in unpublished[q]
       PROVE  n \in DOMAIN files' \/ \E i \in DOMAIN writing'[q] : writing'[q][i].name = n
  <2>1. n \in DOMAIN files \/ \E i \in DOMAIN writing[q] : writing[q][i].name = n
    BY <1>1 DEF FilesInv
  <2>2. CASE n \in DOMAIN files
    BY <1>8, <2>2
  <2>3. CASE \E i \in DOMAIN writing[q] : writing[q][i].name = n
    <3>1. PICK i \in DOMAIN writing[q] : writing[q][i].name = n
      BY <2>3
    <3>2. CASE q # r
      BY <1>5, <3>1, <3>2
    <3>3. CASE q = r /\ i = 1
      <4>1. n = f.name
        BY <1>3, <3>1, <3>3 DEF queue
      <4> QED BY <1>8, <4>1
    <3>4. CASE q = r /\ i # 1
      <4>1. i \in 1 .. m
        BY <1>3, <3>4 DEF queue
      <4>2. i - 1 \in 1 .. m - 1 /\ (i - 1) + 1 = i
        BY <1>3, <3>4, <4>1
      <4>3. i - 1 \in DOMAIN writing'[q] /\ writing'[q][i - 1] = writing[q][i]
        BY <1>5, <3>4, <4>2 DEF queue
      <4> QED BY <3>1, <4>3
    <3> QED BY <3>2, <3>3, <3>4
  <2> QED BY <2>1, <2>2, <2>3
<1>15. FilesInv'
  <2>1. \A i \in DOMAIN publishes : publishes[i] \subseteq DOMAIN files'
    BY <1>1, <1>8 DEF FilesInv
  <2>2. setting.transport = "disk" =>
          \A e \in Engines : \A i \in DOMAIN calls[e] : calls[e][i].names \subseteq DOMAIN files'
    BY <1>1, <1>8 DEF FilesInv
  <2>3. Sending'
    BY <1>2, <1>6 DEF Sending
  <2>4. /\ setting' = setting /\ pc' = pc /\ weights' = weights /\ publishes' = publishes
        /\ unpublished' = unpublished /\ rank' = rank /\ calls' = calls
    BY <1>2
  <2>5. /\ \A q \in Ranks : \A i \in DOMAIN writing'[q] :
             /\ writing'[q][i].name = <<q, rank'[q].flushes - Len(writing'[q]) + i - 1>>
             /\ writing'[q][i].name \in unpublished'[q]
             /\ Restores(setting'.encoding, writing'[q][i].bucket, Olds', weights')
        /\ \A n \in DOMAIN files' :
             /\ n[2] < rank'[n[1]].flushes - Len(writing'[n[1]])
             /\ Restores(setting'.encoding, files'[n], Olds', weights')
        /\ \A q \in Ranks : \A n \in unpublished'[q] :
             n \in DOMAIN files' \/ \E i \in DOMAIN writing'[q] : writing'[q][i].name = n
    BY ONLY <1>12, <1>13, <1>14, <2>4
  <2>6. setting'.transport # "nccl" /\ pc' = "send"
    BY ONLY <1>6, <2>4
  <2> QED BY ONLY <2>1, <2>2, <2>3, <2>4, <2>5, <2>6 DEF FilesInv, Carried
<1>16. /\ seeded /\ synced = weights /\ Progress /\ \A e \in Engines : paused[e]
  BY <1>1, <1>6, SendFacts
<1>17. ASSUME NEW t \in Tensors, NEW e \in Loyal, Underway(e, t)
       PROVE  Underway(e, t)'
  <2>1. Outstanding(e)' = Outstanding(e)
    BY <1>2 DEF Outstanding
  <2>2. CASE \E q \in Ranks : t \in Told(rank[q].bucket) \cup Told(rank[q].encoded)
    BY <1>2, <2>2 DEF Underway
  <2>3. CASE \E q \in Ranks : \E i \in DOMAIN writing[q] : t \in Told(writing[q][i].bucket)
    <3>1. PICK q \in Ranks : \E i \in DOMAIN writing[q] : t \in Told(writing[q][i].bucket)
      BY <2>3
    <3>2. PICK i \in DOMAIN writing[q] : t \in Told(writing[q][i].bucket)
      BY <3>1
    <3>3. CASE q # r
      BY <1>5, <3>2, <3>3 DEF Underway
    <3>4. CASE q = r /\ i = 1
      <4>1. t \in Told(files'[f.name])
        BY <1>3, <1>8, <3>2, <3>4 DEF queue
      <4>2. f.name \in Outstanding(e)
        BY <1>7 DEF Outstanding
      <4> QED BY <1>8, <2>1, <4>1, <4>2 DEF Underway
    <3>5. CASE q = r /\ i # 1
      <4>1. i \in 1 .. m
        BY <1>3, <3>5 DEF queue
      <4>2. i - 1 \in 1 .. m - 1 /\ (i - 1) + 1 = i
        BY <1>3, <3>5, <4>1
      <4>3. i - 1 \in DOMAIN writing'[q] /\ writing'[q][i - 1] = writing[q][i]
        BY <1>5, <3>5, <4>2 DEF queue
      <4> QED BY <3>2, <4>3 DEF Underway
    <3> QED BY <3>3, <3>4, <3>5
  <2>4. CASE \E n \in DOMAIN files \cap Outstanding(e) : t \in Told(files[n])
    BY <1>8, <2>1, <2>4 DEF Underway
  <2> QED BY <1>17, <2>2, <2>3, <2>4 DEF Underway
<1>18. Progress'
  <2>1. Loyal' = Loyal
    BY <1>2 DEF Loyal
  <2>2. \A t \in Tensors : ToCome(t)' <=> ToCome(t)
    BY <1>2 DEF ToCome
  <2>3. ASSUME NEW t \in Tensors
        PROVE  /\ snapshot[t] # weights[t] =>
                    ToCome(t)' /\ \A e \in Loyal : held[e][t] \in {snapshot[t], weights[t]}
               /\ \A e \in Loyal : held[e][t] # weights[t] => snapshot[t] # weights[t] \/ Underway(e, t)'
    BY <1>16, <1>17, <2>2 DEF Progress
  <2> QED BY <1>2, <2>1, <2>3 DEF Progress
<1>19. SyncInv'
  BY <1>2, <1>6, <1>16, <1>18 DEF SyncInv, Sending
<1>20. VersionInv'
  BY <1>1, <1>2, <1>6 DEF VersionInv, Sending
<1> QED BY <1>9, <1>10, <1>15, <1>19, <1>20 DEF IInv

\* The end of a pass: nothing is in a bucket, and the files of the pass are there.
LEMMA EndPassStep ==
  ASSUME IInv, EndPass
  PROVE  IInv'
<1> DEFINE batch == UNION {unpublished[q] : q \in Ranks}
           New(s) == [s EXCEPT !.pass = @ + 1, !.next = 1, !.stage = "encode"]
<1>1. /\ TypeOK /\ RanksInv /\ FilesInv /\ SyncInv /\ VersionInv
      /\ rank \in [Ranks -> RankStates] /\ pc = "send" /\ Sending
      /\ \A q \in Ranks : rank[q].stage = "barrier"
      /\ setting.transport = "disk" => \A q \in Ranks : writing[q] = << >>
  BY DEF IInv, EndPass, TypeOK, Sending, Drained
<1>2. /\ setting' = setting /\ version' = version /\ seeded' = seeded /\ weights' = weights
      /\ synced' = synced /\ writing' = writing /\ files' = files
      /\ held' = held /\ recorded' = recorded /\ calls' = calls
      /\ paused' = paused /\ restarted' = restarted /\ snapshot' = snapshot
      /\ unpublished' = [q \in Ranks |-> {}]
      /\ rank' = [q \in Ranks |-> New(rank[q])]
      /\ pc' = IF \E q \in Ranks : rank[q].pass = LastPass THEN "finalize" ELSE "send"
  BY DEF EndPass, engines
<1>3. IF setting.transport = "disk" /\ batch # {}
        THEN publishes' = Append(publishes, batch) /\ published' = TRUE
        ELSE publishes' = publishes /\ published' = published
  BY DEF EndPass
<1>4. setting.transport \in {"nccl", "disk"} /\ LastPass \in Nat
  BY <1>1, SettingsAssumption, ChunksCorrect DEF TypeOK
<1>5. ASSUME NEW q \in Ranks
      PROVE  /\ rank[q] \in RankStates /\ rank[q].encoded = EmptyBlob /\ rank[q].chunk = NoChunk
             /\ rank[q].bucket.params = << >> /\ rank[q].next > Len(Chunks(q, rank[q].pass))
             /\ rank[q].pass = rank[0].pass /\ rank[q].pass \in 1 .. LastPass
             /\ Restores(setting.encoding, rank[q].bucket, Olds, weights)
             /\ writing[q] = << >>
  <2>1. PassInv(q) /\ rank[q] \in RankStates /\ rank[q].stage = "barrier" /\ pc = "send"
    BY <1>1 DEF RanksInv
  <2>2. /\ rank[q].encoded = EmptyBlob /\ rank[q].chunk = NoChunk
        /\ rank[q].bucket.params = << >> /\ rank[q].next > Len(Chunks(q, rank[q].pass))
        /\ rank[q].pass = rank[0].pass /\ rank[q].pass <= LastPass
        /\ Restores(setting.encoding, rank[q].bucket, Olds, weights)
    BY <2>1 DEF PassInv, Carried
  <2>3. rank[q].pass \in 1 .. LastPass + 1
    BY <2>1 DEF RankStates
  <2>4. rank[q].pass \in 1 .. LastPass
    BY <1>4, <2>2, <2>3
  <2>5. writing[q] = << >>
    BY <1>1, <1>4 DEF FilesInv
  <2> QED BY <2>1, <2>2, <2>4, <2>5
<1>6. ASSUME NEW q \in Ranks
      PROVE  /\ rank'[q] \in RankStates /\ rank'[q].pass = rank[q].pass + 1 /\ rank'[q].next = 1
             /\ rank'[q].stage = "encode" /\ rank'[q].encoded = EmptyBlob /\ rank'[q].chunk = NoChunk
             /\ rank'[q].bucket = rank[q].bucket /\ rank'[q].flushes = rank[q].flushes
  <2> DEFINE s == rank[q]
             after == s.pass + 1
             new == [s EXCEPT !.pass = after, !.next = 1, !.stage = "encode"]
  <2>1. rank'[q] = new
    BY <1>2
  <2>2. s \in RankStates /\ after \in 1 .. LastPass + 1 /\ s.encoded = EmptyBlob /\ s.chunk = NoChunk
    BY <1>4, <1>5
  <2> HIDE DEF s, after
  <2>3. new \in RankStates
    <3> DEFINE first == 1
               begun == [s EXCEPT !.next = first]
               moved == [begun EXCEPT !.stage = "encode"]
    <3>1. moved \in RankStates
      <4>1. first \in Nat \ {0}
        OBVIOUS
      <4> HIDE DEF first
      <4>2. begun \in RankStates
        BY ONLY <2>2, <4>1 DEF RankStates
      <4> HIDE DEF begun
      <4> QED BY ONLY <4>2 DEF RankStates
    <3>2. new = [moved EXCEPT !.pass = after]
      BY ONLY <2>2 DEF RankStates
    <3> HIDE DEF moved
    <3>3. [moved EXCEPT !.pass = after] \in RankStates
      BY ONLY <2>2, <3>1 DEF RankStates
    <3> HIDE DEF new
    <3> QED BY ONLY <3>2, <3>3
  <2>4. /\ new.pass = after /\ new.next = 1 /\ new.stage = "encode"
        /\ new.encoded = s.encoded /\ new.chunk = s.chunk
        /\ new.bucket = s.bucket /\ new.flushes = s.flushes
    BY ONLY <2>2 DEF RankStates
  <2> HIDE DEF new
  <2> QED BY <2>1, <2>2, <2>3, <2>4 DEF s, after
<1>7. /\ 0 \in Ranks /\ rank[0].pass \in 1 .. LastPass
      /\ \A q \in Ranks : rank'[q].pass = rank[0].pass + 1
      /\ pc' = IF rank[0].pass = LastPass THEN "finalize" ELSE "send"
  <2>1. 0 \in Ranks
    BY RanksAssumption
  <2>2. (\E q \in Ranks : rank[q].pass = LastPass) <=> rank[0].pass = LastPass
    BY <1>5, <2>1
  <2>3. \A q \in Ranks : rank'[q].pass = rank[0].pass + 1
    BY <1>5, <1>6
  <2> QED BY <1>2, <1>5, <2>1, <2>2, <2>3
<1>8. rank' \in [Ranks -> RankStates]
  <2>1. \A q \in Ranks : New(rank[q]) \in RankStates
    BY <1>2, <1>6
  <2> HIDE DEF New
  <2> QED BY <1>2, <2>1
<1> HIDE DEF New
<1>9. /\ pc' \in {"send", "finalize"} /\ Sending' /\ Advance
  <2>1. pc' \in {"send", "finalize"}
    BY <1>7
  <2> QED BY <1>2, <2>1 DEF Sending, Advance
<1>10. ASSUME NEW q \in Ranks
       PROVE  PassInv(q)' /\ ChunkInv(q)'
  <2>1. /\ Restores(setting.encoding, rank'[q].bucket, Olds', weights)
        /\ Restores(setting.encoding, rank'[q].encoded, Olds', weights)
    BY <1>5, <1>6, <1>9, CarriedKept, EmptyBlobFacts, NothingCarried
  <2>2. pc' = "send" => rank'[q].pass = rank'[0].pass /\ rank'[q].pass <= LastPass
    BY <1>4, <1>7
  <2>3. pc' = "finalize" => rank'[q].pass = LastPass + 1
    BY <1>7
  <2>4. rank'[q].bucket.params = << >>
    BY <1>5, <1>6
  <2>5. PassInv(q)'
    BY <1>2, <1>6, <2>1, <2>2, <2>3, <2>4 DEF PassInv, Carried
  <2>6. ChunkInv(q)'
    <3>1. InChunk(rank'[q].chunk) = {}
      BY <1>6 DEF InChunk, NoChunk
    <3> QED BY <3>1 DEF ChunkInv
  <2> QED BY <2>5, <2>6
<1>11. batch \subseteq DOMAIN files
  <2> SUFFICES ASSUME NEW q \in Ranks, NEW n \in unpublished[q] PROVE n \in DOMAIN files
    OBVIOUS
  <2>1. n \in DOMAIN files \/ \E i \in DOMAIN writing[q] : writing[q][i].name = n
    BY <1>1 DEF FilesInv
  <2> QED BY <1>5, <2>1
<1>12. /\ publishes \in Seq(SUBSET FileNames) /\ batch \in SUBSET FileNames
  <2>1. unpublished \in [Ranks -> SUBSET FileNames] /\ publishes \in Seq(SUBSET FileNames)
    BY <1>1 DEF TypeOK
  <2> QED BY <2>1
<1> HIDE DEF batch
<1>13. /\ publishes' \in Seq(SUBSET FileNames)
       /\ \A i \in DOMAIN publishes : i \in DOMAIN publishes' /\ publishes'[i] = publishes[i]
       /\ \A i \in DOMAIN publishes' : i \in DOMAIN publishes \/ publishes'[i] = batch
       /\ setting.transport = "disk" => \A n \in batch : \E i \in DOMAIN publishes' : n \in publishes'[i]
       /\ published' => published \/ publishes' # << >>
       /\ publishes # << >> => publishes' # << >>
       /\ setting.transport = "nccl" => publishes' = publishes
       /\ published' \in BOOLEAN
  <2>1. CASE setting.transport = "disk" /\ batch # {}
    <3> DEFINE n == Len(publishes)
    <3>1. publishes' = Append(publishes, batch) /\ published' = TRUE
      BY <1>3, <2>1
    <3>2. n \in Nat /\ DOMAIN publishes = 1 .. n
      BY <1>12, LenProperties
    <3>3. /\ publishes' \in Seq(SUBSET FileNames) /\ publishes' # << >> /\ Len(publishes') = n + 1
          /\ \A i \in 1 .. n : publishes'[i] = publishes[i]
          /\ publishes'[n + 1] = batch
      BY <1>12, <3>1, AppendProperties
    <3>4. DOMAIN publishes' = 1 .. n + 1
      BY <3>3, LenProperties
    <3> HIDE DEF n
    <3>5. /\ \A i \in DOMAIN publishes : i \in DOMAIN publishes' /\ publishes'[i] = publishes[i]
          /\ \A i \in DOMAIN publishes' : i \in DOMAIN publishes \/ publishes'[i] = batch
          /\ n + 1 \in DOMAIN publishes'
      BY ONLY <3>2, <3>3, <3>4
    <3> QED BY <2>1, <3>1, <3>3, <3>5
  <2>2. CASE ~(setting.transport = "disk" /\ batch # {})
    <3>1. publishes' = publishes /\ published' = published
      BY <1>3, <2>2
    <3>2. published \in BOOLEAN
      BY <1>1 DEF TypeOK
    <3> QED BY <1>12, <2>2, <3>1, <3>2
  <2> QED BY <2>1, <2>2
<1>14. TypeOK'
  <2>1. unpublished' \in [Ranks -> SUBSET FileNames]
    BY <1>2
  <2>2. pc' \in {"update", "train", "send", "finalize"}
    BY <1>9
  <2> QED BY <1>1, <1>2, <1>8, <1>13, <2>1, <2>2 DEF TypeOK
<1>15. FilesInv'
  <2>1. \A n \in DOMAIN files :
          /\ n[2] < rank'[n[1]].flushes - Len(writing[n[1]])
          /\ Restores(setting.encoding, files[n], Olds', weights)
    <3> SUFFICES ASSUME NEW n \in DOMAIN files
                 PROVE  /\ n[2] < rank'[n[1]].flushes - Len(writing[n[1]])
                        /\ Restores(setting.encoding, files[n], Olds', weights)
      OBVIOUS
    <3>1. /\ n[2] < rank[n[1]].flushes - Len(writing[n[1]])
          /\ Restores(setting.encoding, files[n], Olds, weights)
      BY <1>1 DEF FilesInv, Carried
    <3>2. n[1] \in Ranks
      BY <1>1 DEF TypeOK, FileNames
    <3> QED BY <1>6, <1>9, <3>1, <3>2, CarriedKept
  <2>2. \A i \in DOMAIN publishes' : publishes'[i] \subseteq DOMAIN files
    BY <1>1, <1>11, <1>13 DEF FilesInv
  <2>3. /\ \A q \in Ranks : unpublished'[q] = {}
        /\ \A q \in Ranks : writing'[q] = << >>
    BY <1>2, <1>5
  <2>4. setting.transport = "disk" =>
          \A e \in Engines : \A i \in DOMAIN calls[e] : calls[e][i].names \subseteq DOMAIN files
    BY <1>1 DEF FilesInv
  <2>5. setting.transport = "nccl" => publishes' = << >>
    BY <1>1, <1>13 DEF FilesInv
  <2> QED BY <1>2, <1>9, <2>1, <2>2, <2>3, <2>4, <2>5 DEF FilesInv, Carried
<1>16. /\ seeded /\ synced = weights /\ Progress /\ \A e \in Engines : paused[e]
  BY <1>1, SendFacts
<1>17. ASSUME NEW t \in Tensors, ToCome(t)
       PROVE  ToCome(t)'
  <2>1. PICK q \in Ranks : Left(q, rank[q], t)
    BY <1>17 DEF ToCome
  <2>2. t \notin InChunk(rank[q].chunk)
    BY <1>5 DEF InChunk, NoChunk
  <2>3. PICK p \in 1 .. LastPass : \E k \in DOMAIN Chunks(q, p) :
          /\ t \in InChunk(Chunks(q, p)[k])
          /\ p > rank[q].pass \/ (p = rank[q].pass /\ k >= rank[q].next)
    BY <2>1, <2>2 DEF Left
  <2>4. PICK k \in DOMAIN Chunks(q, p) :
          /\ t \in InChunk(Chunks(q, p)[k])
          /\ p > rank[q].pass \/ (p = rank[q].pass /\ k >= rank[q].next)
    BY <2>3
  <2>5. k \in Nat /\ k >= 1 /\ k <= Len(Chunks(q, p)) /\ Len(Chunks(q, p)) \in Nat
    <3>1. Chunks(q, p) \in Seq(Seq(Tensors))
      BY ChunksCorrect
    <3>2. DOMAIN Chunks(q, p) = 1 .. Len(Chunks(q, p)) /\ Len(Chunks(q, p)) \in Nat
      BY <3>1, LenProperties
    <3> QED BY <3>2
  <2>6. rank[q].next \in Nat /\ rank[q].pass \in Nat
    <3>1. rank[q].next \in Nat
      BY <1>5 DEF RankStates
    <3> QED BY <1>5, <3>1
  <2>7. p > rank[q].pass
    <3> SUFFICES ASSUME p = rank[q].pass, k >= rank[q].next PROVE FALSE
      BY <2>4
    <3>1. rank[q].next > Len(Chunks(q, p))
      BY <1>5
    <3> QED BY <2>5, <2>6, <3>1
  <2>8. p > rank'[q].pass \/ (p = rank'[q].pass /\ k >= rank'[q].next)
    BY <1>4, <1>6, <2>5, <2>6, <2>7
  <2>9. Left(q, rank'[q], t)
    BY <2>4, <2>8 DEF Left
  <2> QED BY <2>9 DEF ToCome
<1>18. ASSUME NEW t \in Tensors, NEW e \in Loyal, Underway(e, t)
       PROVE  Underway(e, t)'
  <2>1. ~\E q \in Ranks : t \in Told(rank[q].bucket) \cup Told(rank[q].encoded)
    <3>1. \A q \in Ranks : Told(rank[q].bucket) = {} /\ Told(rank[q].encoded) = {}
      BY <1>5, EmptyBlobFacts DEF Told
    <3> QED BY <3>1
  <2>2. ~\E q \in Ranks : \E i \in DOMAIN writing[q] : t \in Told(writing[q][i].bucket)
    BY <1>5
  <2>3. PICK n \in DOMAIN files \cap Outstanding(e) : t \in Told(files[n])
    BY <1>18, <2>1, <2>2 DEF Underway
  <2>4. n \in Outstanding(e)'
    <3> DEFINE told == IF setting.transport = "disk" THEN UNION {calls[e][i].names : i \in DOMAIN calls[e]} ELSE {}
               announced == UNION {publishes'[i] : i \in DOMAIN publishes'}
    <3>1. Outstanding(e) = batch \cup (UNION {publishes[i] : i \in DOMAIN publishes}) \cup told
      BY DEF Outstanding, batch
    <3>2. announced \cup told \subseteq Outstanding(e)'
      BY <1>2 DEF Outstanding
    <3> HIDE DEF told
    <3>3. ASSUME n \in batch
          PROVE  n \in announced
      <4>1. setting.transport = "disk"
        BY <1>1, <1>4, <3>3 DEF FilesInv, batch
      <4>2. \E i \in DOMAIN publishes' : n \in publishes'[i]
        BY <1>13, <3>3, <4>1
      <4> QED BY <4>2
    <3>4. UNION {publishes[i] : i \in DOMAIN publishes} \subseteq announced
      BY <1>13
    <3> HIDE DEF announced
    <3> QED BY <2>3, <3>1, <3>2, <3>3, <3>4
  <2> QED BY <1>2, <2>3, <2>4 DEF Underway
<1>19. Progress'
  <2>1. Loyal' = Loyal
    BY <1>2 DEF Loyal
  <2>2. ASSUME NEW t \in Tensors
        PROVE  /\ snapshot[t] # weights[t] =>
                    ToCome(t)' /\ \A e \in Loyal : held[e][t] \in {snapshot[t], weights[t]}
               /\ \A e \in Loyal : held[e][t] # weights[t] => snapshot[t] # weights[t] \/ Underway(e, t)'
    BY <1>16, <1>17, <1>18 DEF Progress
  <2> QED BY <1>2, <2>1, <2>2 DEF Progress
<1>20. SyncInv'
  BY <1>2, <1>9, <1>16, <1>19 DEF SyncInv
<1>21. VersionInv'
  <2>1. ASSUME setting.transport = "disk", published', NEW e \in Engines
        PROVE  recorded[e] = version \/ publishes' # << >> \/ calls[e] # << >>
    BY <1>1, <1>13, <2>1 DEF VersionInv
  <2> QED BY <1>2, <1>9, <2>1 DEF VersionInv
<1> QED BY <1>10, <1>14, <1>15, <1>20, <1>21 DEF IInv, RanksInv

\* A step that only hands files on keeps what is said of the files and the ranks.
LEMMA HandedOn ==
  ASSUME IInv, Advance, Sending, pc' = pc, setting.transport = "disk",
         UNCHANGED <<rank, snapshot, writing, files, unpublished>>,
         \A i \in DOMAIN publishes' : publishes'[i] \subseteq DOMAIN files,
         \A e \in Engines : \A i \in DOMAIN calls'[e] : calls'[e][i].names \subseteq DOMAIN files
  PROVE  RanksInv' /\ FilesInv'
<1>1. TypeOK /\ RanksInv /\ FilesInv
  BY DEF IInv
<1>2. setting' = setting /\ weights' = weights
  BY DEF Advance
<1>3. RanksInv'
  <2>1. ASSUME NEW q \in Ranks
        PROVE  PassInv(q)' /\ ChunkInv(q)'
    BY <1>1, PassKept, ChunkKept DEF RanksInv
  <2> QED BY <2>1 DEF RanksInv
<1>4. \A b : Restores(setting.encoding, b, Olds, weights) => Restores(setting'.encoding, b, Olds', weights')
  BY <1>2, CarriedKept
<1>5. /\ \A q \in Ranks : \A i \in DOMAIN writing'[q] :
           /\ writing'[q][i].name = <<q, rank'[q].flushes - Len(writing'[q]) + i - 1>>
           /\ writing'[q][i].name \in unpublished'[q]
           /\ Restores(setting'.encoding, writing'[q][i].bucket, Olds', weights')
      /\ \A n \in DOMAIN files' :
           /\ n[2] < rank'[n[1]].flushes - Len(writing'[n[1]])
           /\ Restores(setting'.encoding, files'[n], Olds', weights')
      /\ \A q \in Ranks : \A n \in unpublished'[q] :
           n \in DOMAIN files' \/ \E i \in DOMAIN writing'[q] : writing'[q][i].name = n
  BY <1>1, <1>4 DEF FilesInv, Carried
<1>6. pc # "send" => \A q \in Ranks : writing[q] = << >> /\ unpublished[q] = {}
  BY <1>1 DEF FilesInv
<1>7. /\ \A i \in DOMAIN publishes' : publishes'[i] \subseteq DOMAIN files'
      /\ \A e \in Engines : \A i \in DOMAIN calls'[e] : calls'[e][i].names \subseteq DOMAIN files'
      /\ setting'.transport # "nccl" /\ Sending'
      /\ pc' # "send" => \A q \in Ranks : writing'[q] = << >> /\ unpublished'[q] = {}
  BY <1>2, <1>6 DEF Sending
<1> QED BY ONLY <1>3, <1>5, <1>7 DEF FilesInv, Carried

\* The executor: a batch moves from rank 0 to the calls of every engine.
LEMMA AnnounceStep ==
  ASSUME IInv, Announce
  PROVE  IInv'
<1> DEFINE batch == Head(publishes)
           call == [names |-> batch, version |-> version]
           Calls == Seq([names : SUBSET FileNames, version : {version}])
<1>1. /\ TypeOK /\ RanksInv /\ FilesInv /\ SyncInv /\ VersionInv
      /\ publishes # << >> /\ publishes \in Seq(SUBSET FileNames)
  BY DEF IInv, Announce, TypeOK
<1>2. /\ setting' = setting /\ pc' = pc /\ version' = version /\ seeded' = seeded /\ weights' = weights
      /\ synced' = synced /\ writing' = writing /\ files' = files /\ published' = published
      /\ unpublished' = unpublished /\ rank' = rank
      /\ held' = held /\ recorded' = recorded
      /\ paused' = paused /\ restarted' = restarted /\ snapshot' = snapshot
      /\ publishes' = Tail(publishes)
      /\ calls' = [e \in Engines |-> Append(calls[e], call)]
  BY DEF Announce, trainer
<1>3. setting.transport # "nccl" /\ Sending
  BY <1>1 DEF FilesInv
<1>4. setting.transport = "disk"
  BY <1>1, <1>3, SettingsAssumption DEF TypeOK
<1>5. Advance
  BY <1>2 DEF Advance
<1> HIDE DEF batch
<1>6. /\ publishes' \in Seq(SUBSET FileNames) /\ batch \in SUBSET FileNames
      /\ 1 \in DOMAIN publishes /\ batch = publishes[1]
      /\ \A i \in DOMAIN publishes' : \E j \in DOMAIN publishes : publishes'[i] = publishes[j]
      /\ \A j \in DOMAIN publishes : j = 1 \/ \E i \in DOMAIN publishes' : publishes'[i] = publishes[j]
  <2> DEFINE m == Len(publishes)
  <2>1. m \in Nat \ {0} /\ DOMAIN publishes = 1 .. m
    BY <1>1, EmptySeq, LenProperties
  <2>2. /\ batch \in SUBSET FileNames /\ batch = publishes[1]
        /\ publishes' \in Seq(SUBSET FileNames) /\ Len(publishes') = m - 1
        /\ \A i \in 1 .. m - 1 : publishes'[i] = publishes[i + 1]
    BY <1>1, <1>2, HeadTailProperties DEF batch
  <2>3. DOMAIN publishes' = 1 .. m - 1
    BY <2>2, LenProperties
  <2> HIDE DEF m
  <2>4. ASSUME NEW i \in DOMAIN publishes'
        PROVE  \E j \in DOMAIN publishes : publishes'[i] = publishes[j]
    <3>1. i + 1 \in DOMAIN publishes /\ publishes'[i] = publishes[i + 1]
      BY <2>1, <2>2, <2>3
    <3> QED BY <3>1
  <2>5. ASSUME NEW j \in DOMAIN publishes, j # 1
        PROVE  \E i \in DOMAIN publishes' : publishes'[i] = publishes[j]
    <3>1. j - 1 \in 1 .. m - 1 /\ (j - 1) + 1 = j
      BY <2>1, <2>5
    <3>2. publishes'[j - 1] = publishes[j]
      BY <2>2, <3>1
    <3> QED BY <2>3, <3>1, <3>2
  <2>6. 1 \in DOMAIN publishes
    BY <2>1
  <2> QED BY <2>2, <2>4, <2>5, <2>6
<1>7. ASSUME NEW e \in Engines
      PROVE  /\ calls[e] \in Calls
             /\ calls'[e] \in Calls /\ calls'[e] # << >>
             /\ \A i \in DOMAIN calls'[e] : calls'[e][i] = call \/ \E j \in DOMAIN calls[e] : calls'[e][i] = calls[e][j]
             /\ \A j \in DOMAIN calls[e] : \E i \in DOMAIN calls'[e] : calls'[e][i] = calls[e][j]
             /\ \E i \in DOMAIN calls'[e] : calls'[e][i] = call
  <2> DEFINE m == Len(calls[e])
  <2>1. calls[e] \in Calls
    BY <1>1, <1>4 DEF TypeOK
  <2>2. call \in [names : SUBSET FileNames, version : {version}]
    BY <1>6
  <2>3. calls'[e] = Append(calls[e], call)
    BY <1>2
  <2> HIDE DEF call
  <2>4. m \in Nat /\ DOMAIN calls[e] = 1 .. m
    BY <2>1, LenProperties
  <2>5. /\ calls'[e] \in Calls /\ calls'[e] # << >> /\ Len(calls'[e]) = m + 1
        /\ \A i \in 1 .. m : calls'[e][i] = calls[e][i]
        /\ calls'[e][m + 1] = call
    BY <2>1, <2>2, <2>3, AppendProperties
  <2>6. DOMAIN calls'[e] = 1 .. m + 1
    BY <2>5, LenProperties
  <2> HIDE DEF m, Calls
  <2>7. \A i \in 1 .. m + 1 : i \in 1 .. m \/ i = m + 1
    BY <2>4
  <2>8. m + 1 \in 1 .. m + 1 /\ \A i \in 1 .. m : i \in 1 .. m + 1
    BY <2>4
  <2> QED BY <2>1, <2>4, <2>5, <2>6, <2>7, <2>8
<1>8. TypeOK'
  <2>1. calls' \in [Engines -> Calls]
    BY <1>2, <1>7
  <2> QED BY <1>1, <1>2, <1>4, <1>6, <2>1 DEF TypeOK
<1> HIDE DEF Calls
<1>9. RanksInv' /\ FilesInv'
  <2>1. /\ \A i \in DOMAIN publishes : publishes[i] \subseteq DOMAIN files
        /\ \A e \in Engines : \A i \in DOMAIN calls[e] : calls[e][i].names \subseteq DOMAIN files
    BY <1>1, <1>4 DEF FilesInv
  <2>2. \A i \in DOMAIN publishes' : publishes'[i] \subseteq DOMAIN files
    BY <1>6, <2>1
  <2>3. call.names \subseteq DOMAIN files
    BY <1>6, <2>1
  <2> HIDE DEF call
  <2>4. \A e \in Engines : \A i \in DOMAIN calls'[e] : calls'[e][i].names \subseteq DOMAIN files
    BY <1>7, <2>1, <2>3
  <2> QED BY <1>2, <1>3, <1>4, <1>5, <2>2, <2>4, HandedOn
<1>10. /\ seeded /\ synced = weights /\ Progress /\ \A e \in Engines : paused[e]
  BY <1>1, <1>3, SendFacts
<1>11. ASSUME NEW t \in Tensors, NEW e \in Engines, Underway(e, t)
       PROVE  Underway(e, t)'
  <2> DEFINE announced == UNION {publishes[i] : i \in DOMAIN publishes}
             told == UNION {calls[e][i].names : i \in DOMAIN calls[e]}
             others == UNION {unpublished[q] : q \in Ranks}
             after == UNION {publishes'[i] : i \in DOMAIN publishes'}
             asked == UNION {calls'[e][i].names : i \in DOMAIN calls'[e]}
  <2>1. Outstanding(e) = others \cup announced \cup told
    BY <1>4 DEF Outstanding
  <2>2. Outstanding(e)' = others \cup after \cup asked
    BY <1>2, <1>4 DEF Outstanding
  <2>3. announced \subseteq after \cup asked
    <3> SUFFICES ASSUME NEW j \in DOMAIN publishes, NEW n \in publishes[j]
                 PROVE  n \in after \cup asked
      OBVIOUS
    <3>1. CASE j = 1
      <4>1. PICK i \in DOMAIN calls'[e] : calls'[e][i] = call
        BY <1>7
      <4>2. n \in calls'[e][i].names
        BY <1>6, <3>1, <4>1
      <4> QED BY <4>2
    <3>2. CASE \E i \in DOMAIN publishes' : publishes'[i] = publishes[j]
      BY <3>2
    <3> QED BY <1>6, <3>1, <3>2
  <2>4. told \subseteq asked
    <3> SUFFICES ASSUME NEW j \in DOMAIN calls[e], NEW n \in calls[e][j].names
                 PROVE  n \in asked
      OBVIOUS
    <3>1. PICK i \in DOMAIN calls'[e] : calls'[e][i] = calls[e][j]
      BY <1>7
    <3> QED BY <3>1
  <2> HIDE DEF announced, told, others, after, asked
  <2>5. Outstanding(e) \subseteq Outstanding(e)'
    BY <2>1, <2>2, <2>3, <2>4
  <2> QED BY <1>2, <1>11, <2>5 DEF Underway
<1>12. Progress'
  <2>1. Loyal' = Loyal /\ Loyal \subseteq Engines
    BY <1>2 DEF Loyal
  <2>2. \A t \in Tensors : ToCome(t)' <=> ToCome(t)
    BY <1>2 DEF ToCome
  <2>3. ASSUME NEW t \in Tensors
        PROVE  /\ snapshot[t] # weights[t] =>
                    ToCome(t)' /\ \A e \in Loyal : held[e][t] \in {snapshot[t], weights[t]}
               /\ \A e \in Loyal : held[e][t] # weights[t] => snapshot[t] # weights[t] \/ Underway(e, t)'
    BY <1>10, <1>11, <2>1, <2>2 DEF Progress
  <2> QED BY <1>2, <2>1, <2>3 DEF Progress
<1>13. SyncInv'
  BY <1>2, <1>3, <1>10, <1>12 DEF SyncInv, Sending
<1>14. VersionInv'
  <2>1. \A e \in Engines : calls'[e] # << >>
    BY <1>7
  <2> QED BY <1>2, <1>3, <2>1 DEF VersionInv, Sending
<1> QED BY <1>8, <1>9, <1>13, <1>14 DEF IInv

\* An engine loads the files it was told of: they are there, and right for what it holds.
LEMMA LoadFilesStep ==
  ASSUME IInv, NEW e \in Engines, LoadFiles(e)
  PROVE  IInv'
<1> DEFINE call == Head(calls[e])
           Calls == Seq([names : SUBSET FileNames, version : {version}])
<1>1. /\ TypeOK /\ RanksInv /\ FilesInv /\ SyncInv /\ VersionInv
      /\ setting.transport = "disk" /\ calls[e] # << >>
      /\ calls \in [Engines -> Calls] /\ held \in [Engines -> Weights] /\ recorded \in [Engines -> Nat]
      /\ version \in Nat
  BY DEF IInv, LoadFiles, TypeOK
<1>2. /\ setting' = setting /\ pc' = pc /\ version' = version /\ seeded' = seeded /\ weights' = weights
      /\ synced' = synced /\ writing' = writing /\ files' = files /\ published' = published
      /\ unpublished' = unpublished /\ rank' = rank /\ publishes' = publishes
      /\ paused' = paused /\ restarted' = restarted /\ snapshot' = snapshot
      /\ held' = [held EXCEPT ![e] = ApplyFiles(call.names, held[e])]
      /\ recorded' = [recorded EXCEPT ![e] = call.version]
      /\ calls' = [calls EXCEPT ![e] = Tail(@)]
  BY DEF LoadFiles, trainer, disk
<1>3. Sending
  BY <1>1 DEF FilesInv
<1> HIDE DEF call
<1>4. /\ call.names \subseteq DOMAIN files /\ call.version = version /\ calls'[e] \in Calls
      /\ \A i \in DOMAIN calls'[e] : \E j \in DOMAIN calls[e] : calls'[e][i] = calls[e][j]
      /\ \A j \in DOMAIN calls[e] : calls[e][j] = call \/ \E i \in DOMAIN calls'[e] : calls'[e][i] = calls[e][j]
      /\ \A d \in Engines : d # e => calls'[d] = calls[d]
  <2> DEFINE m == Len(calls[e])
  <2>1. calls[e] \in Calls
    BY <1>1
  <2>2. m \in Nat \ {0} /\ DOMAIN calls[e] = 1 .. m
    BY <1>1, <2>1, EmptySeq, LenProperties
  <2>3. calls'[e] = Tail(calls[e]) /\ \A d \in Engines : d # e => calls'[d] = calls[d]
    BY <1>1, <1>2
  <2>4. /\ call \in [names : SUBSET FileNames, version : {version}] /\ call = calls[e][1]
        /\ calls'[e] \in Calls /\ Len(calls'[e]) = m - 1
        /\ \A i \in 1 .. m - 1 : calls'[e][i] = calls[e][i + 1]
    <3> DEFINE Set == [names : SUBSET FileNames, version : {version}]
               queue == calls[e]
    <3>1. queue \in Seq(Set) /\ queue # << >>
      BY <1>1, <2>1
    <3> HIDE DEF Set, queue, m
    <3>2. /\ Head(queue) \in Set /\ Tail(queue) \in Seq(Set) /\ Len(Tail(queue)) = Len(queue) - 1
          /\ \A i \in 1 .. Len(queue) - 1 : Tail(queue)[i] = queue[i + 1]
      BY ONLY <3>1, HeadTailProperties
    <3>3. Head(queue) = queue[1]
      OBVIOUS
    <3> QED BY ONLY <2>3, <3>2, <3>3 DEF Set, queue, m, call
  <2>5. DOMAIN calls'[e] = 1 .. m - 1
    BY <2>4, LenProperties
  <2> HIDE DEF m
  <2>6. ASSUME NEW i \in DOMAIN calls'[e]
        PROVE  \E j \in DOMAIN calls[e] : calls'[e][i] = calls[e][j]
    <3>1. i + 1 \in DOMAIN calls[e] /\ calls'[e][i] = calls[e][i + 1]
      BY <2>2, <2>4, <2>5
    <3> QED BY <3>1
  <2>7. ASSUME NEW j \in DOMAIN calls[e], calls[e][j] # call
        PROVE  \E i \in DOMAIN calls'[e] : calls'[e][i] = calls[e][j]
    <3>1. j - 1 \in 1 .. m - 1 /\ (j - 1) + 1 = j
      <4>1. j # 1
        BY <2>4, <2>7
      <4> QED BY <2>2, <4>1
    <3>2. calls'[e][j - 1] = calls[e][j]
      BY <2>4, <3>1
    <3> QED BY <2>5, <3>1, <3>2
  <2>8. call.names \subseteq DOMAIN files
    <3>1. 1 \in DOMAIN calls[e]
      BY <2>2
    <3> QED BY <1>1, <2>4, <3>1 DEF FilesInv
  <2> QED BY <2>3, <2>4, <2>6, <2>7, <2>8
<1>5. /\ held'[e] \in Weights
      /\ e \in Loyal => \A t \in Tensors :
           held'[e][t] = IF \E n \in call.names : t \in Told(files[n]) THEN weights[t] ELSE held[e][t]
      /\ \A d \in Engines : d # e => held'[d] = held[d]
  <2>1. held'[e] = ApplyFiles(call.names, held[e]) /\ held[e] \in Weights
        /\ \A d \in Engines : d # e => held'[d] = held[d]
    BY <1>1, <1>2
  <2>2. e \in Loyal => held[e] \in Olds
    BY DEF Olds
  <2>3. \A n \in call.names \cap DOMAIN files : Restores(setting.encoding, files[n], Olds, weights)
    BY <1>1 DEF FilesInv, Carried
  <2>4. call.names \cap DOMAIN files = call.names
    BY <1>4
  <2>5. Loaded(call.names, Olds, weights, held[e], held'[e])
    BY <2>1, <2>3, ApplyFilesCorrect DEF RightFiles
  <2>6. e \in Loyal => \A t \in Tensors :
          held'[e][t] = IF \E n \in call.names : t \in Told(files[n]) THEN weights[t] ELSE held[e][t]
    BY ONLY <2>2, <2>4, <2>5 DEF Loaded
  <2> QED BY <2>1, <2>5, <2>6 DEF Loaded
<1>6. Advance
  <2>1. ASSUME NEW d \in Engines \ restarted', NEW t \in Tensors
        PROVE  held'[d][t] \in {held[d][t], weights[t]}
    <3>1. d = e => e \in Loyal
      BY <1>2 DEF Loyal
    <3> QED BY <1>5, <3>1
  <2> QED BY <1>2, <2>1 DEF Advance
<1>7. TypeOK'
  <2>1. calls' \in [Engines -> Calls]
    BY <1>1, <1>2, <1>4
  <2>2. held' \in [Engines -> Weights] /\ recorded' \in [Engines -> Nat]
    BY <1>1, <1>2, <1>4, <1>5
  <2> QED BY <1>1, <1>2, <2>1, <2>2 DEF TypeOK
<1> HIDE DEF Calls
<1>8. RanksInv' /\ FilesInv'
  <2>1. /\ \A i \in DOMAIN publishes' : publishes'[i] \subseteq DOMAIN files
        /\ \A d \in Engines : \A i \in DOMAIN calls[d] : calls[d][i].names \subseteq DOMAIN files
    BY <1>1, <1>2 DEF FilesInv
  <2>2. ASSUME NEW d \in Engines, NEW i \in DOMAIN calls'[d]
        PROVE  calls'[d][i].names \subseteq DOMAIN files
    BY <1>4, <2>1
  <2> QED BY <1>1, <1>2, <1>3, <1>6, <2>1, <2>2, HandedOn
<1>9. /\ seeded /\ synced = weights /\ Progress /\ \A d \in Engines : paused[d]
  BY <1>1, <1>3, SendFacts
<1>10. ASSUME NEW t \in Tensors, NEW d \in Loyal, Underway(d, t), held'[d][t] # weights[t]
       PROVE  Underway(d, t)'
  <2>1. CASE \/ \E q \in Ranks : t \in Told(rank[q].bucket) \cup Told(rank[q].encoded)
             \/ \E q \in Ranks : \E i \in DOMAIN writing[q] : t \in Told(writing[q][i].bucket)
    BY <1>2, <2>1 DEF Underway
  <2>2. CASE \E n \in DOMAIN files \cap Outstanding(d) : t \in Told(files[n])
    <3>1. PICK n \in DOMAIN files \cap Outstanding(d) : t \in Told(files[n])
      BY <2>2
    <3> DEFINE told == UNION {calls[d][i].names : i \in DOMAIN calls[d]}
               asked == UNION {calls'[d][i].names : i \in DOMAIN calls'[d]}
               others == (UNION {unpublished[q] : q \in Ranks}) \cup (UNION {publishes[i] : i \in DOMAIN publishes})
    <3>2. Outstanding(d) = others \cup told
      BY <1>1 DEF Outstanding
    <3>3. Outstanding(d)' = others \cup asked
      BY <1>1, <1>2 DEF Outstanding
    <3>4. ASSUME n \in told
          PROVE  n \in asked
      <4>1. PICK j \in DOMAIN calls[d] : n \in calls[d][j].names
        BY <3>4
      <4>2. CASE d # e
        BY <1>4, <2>2, <4>1, <4>2 DEF Loyal
      <4>3. CASE d = e
        <5>1. n \notin call.names
          BY <1>5, <1>10, <3>1, <4>3
        <5>2. PICK i \in DOMAIN calls'[e] : calls'[e][i] = calls[e][j]
          BY <1>4, <4>1, <4>3, <5>1
        <5> QED BY <4>1, <4>3, <5>2
      <4> QED BY <4>2, <4>3
    <3> HIDE DEF told, asked, others
    <3>5. n \in Outstanding(d)'
      BY <3>1, <3>2, <3>3, <3>4
    <3> QED BY <1>2, <3>1, <3>5 DEF Underway
  <2> QED BY <1>10, <2>1, <2>2 DEF Underway
<1>11. Progress'
  <2>1. Loyal' = Loyal /\ Loyal \subseteq Engines
    BY <1>2 DEF Loyal
  <2>2. \A t \in Tensors : ToCome(t)' <=> ToCome(t)
    BY <1>2 DEF ToCome
  <2>3. \A d \in Loyal : \A t \in Tensors : held'[d][t] \in {held[d][t], weights[t]}
    BY <1>2, <1>6 DEF Advance, Loyal
  <2>4. ASSUME NEW t \in Tensors
        PROVE  /\ snapshot[t] # weights[t] =>
                    ToCome(t)' /\ \A d \in Loyal : held'[d][t] \in {snapshot[t], weights[t]}
               /\ \A d \in Loyal : held'[d][t] # weights[t] => snapshot[t] # weights[t] \/ Underway(d, t)'
    <3>1. /\ snapshot[t] # weights[t] =>
               ToCome(t) /\ \A d \in Loyal : held[d][t] \in {snapshot[t], weights[t]}
          /\ \A d \in Loyal : held[d][t] # weights[t] => snapshot[t] # weights[t] \/ Underway(d, t)
      BY <1>9 DEF Progress
    <3> QED BY <1>10, <2>2, <2>3, <3>1
  <2> QED BY <1>2, <2>1, <2>4 DEF Progress
<1>12. SyncInv'
  BY <1>2, <1>3, <1>9, <1>11 DEF SyncInv, Sending
<1>13. VersionInv'
  <2>1. recorded'[e] = version /\ \A d \in Engines : d # e => recorded'[d] = recorded[d] /\ calls'[d] = calls[d]
    BY <1>1, <1>2, <1>4
  <2>2. ASSUME published, NEW d \in Engines
        PROVE  recorded'[d] = version \/ publishes # << >> \/ calls'[d] # << >>
    BY <1>1, <1>3, <2>1, <2>2 DEF VersionInv
  <2> QED BY <1>2, <1>3, <2>2 DEF VersionInv, Sending
<1> QED BY <1>7, <1>8, <1>12, <1>13 DEF IInv

-----------------------------------------------------------------------------
(***************************************************************************)
(* Between two syncs.                                                      *)
(***************************************************************************)

\* Outside of a sync nothing is in a bucket, a file or a call.
LEMMA Resting ==
  ASSUME TypeOK, RanksInv, FilesInv, pc # "send", pc' \in {"update", "train"},
         UNCHANGED <<setting, rank, writing, unpublished, calls>>, files' = << >>, publishes' = << >>,
         setting.transport = "disk" => \A e \in Engines : calls[e] = << >>
  PROVE  RanksInv' /\ FilesInv'
<1>1. ASSUME NEW q \in Ranks
      PROVE  PassInv(q)' /\ ChunkInv(q)'
  <2>1. PassInv(q) /\ rank'[q] = rank[q] /\ rank[q] \in RankStates
    BY DEF RanksInv, TypeOK
  <2>2. /\ rank[q].stage = "encode" /\ rank[q].encoded = EmptyBlob /\ rank[q].chunk = NoChunk
        /\ rank[q].bucket.params = << >> /\ rank[q].bucket \in Blobs
    BY <2>1 DEF PassInv, RankStates
  <2>3. /\ Restores(setting'.encoding, rank'[q].bucket, Olds', weights')
        /\ Restores(setting'.encoding, rank'[q].encoded, Olds', weights')
    BY <2>1, <2>2, EmptyBlobFacts, NothingCarried
  <2>4. PassInv(q)'
    BY <2>1, <2>2, <2>3 DEF PassInv, Carried
  <2>5. InChunk(rank'[q].chunk) = {}
    BY <2>1, <2>2 DEF InChunk, NoChunk
  <2>6. ChunkInv(q)'
    BY <2>5 DEF ChunkInv
  <2> QED BY <2>4, <2>6
<1>2. FilesInv'
  <2>1. /\ \A q \in Ranks : writing'[q] = << >> /\ unpublished'[q] = {}
        /\ setting'.transport = "disk" => \A e \in Engines : calls'[e] = << >>
        /\ files' = << >> /\ publishes' = << >> /\ pc' # "send" /\ ~Sending'
    BY DEF FilesInv, Sending
  <2> QED BY ONLY <2>1 DEF FilesInv
<1> QED BY <1>1, <1>2 DEF RanksInv

\* After the last pass every tensor was compared, and what was sent is applied.
LEMMA FinalizeStep ==
  ASSUME IInv, Finalize
  PROVE  IInv'
<1>1. /\ TypeOK /\ RanksInv /\ FilesInv /\ SyncInv /\ VersionInv
      /\ pc = "finalize" /\ Sending /\ pc' = "train"
      /\ setting.transport \in {"nccl", "disk"}
      /\ held \in [Engines -> Weights] /\ recorded \in [Engines -> Nat] /\ version \in Nat
  BY SettingsAssumption DEF IInv, TypeOK, Finalize, Sending
<1>2. /\ setting' = setting /\ version' = version /\ seeded' = seeded /\ weights' = weights
      /\ synced' = synced /\ writing' = writing /\ published' = published
      /\ unpublished' = unpublished /\ rank' = rank /\ publishes' = publishes
      /\ calls' = calls /\ held' = held
      /\ restarted' = restarted /\ snapshot' = snapshot
      /\ files' = << >> /\ recorded' = FinalVersion
      /\ paused' = [e \in Engines |-> FALSE]
  BY DEF Finalize
<1>3. /\ publishes = << >>
      /\ setting.transport = "disk" => \A e \in Engines : calls[e] = << >>
      /\ \A q \in Ranks : writing[q] = << >> /\ unpublished[q] = {}
  <2>1. setting.transport = "disk" => publishes = << >> /\ \A e \in Engines : calls[e] = << >>
    BY DEF Finalize, Applied
  <2>2. /\ setting.transport = "nccl" => publishes = << >>
        /\ \A q \in Ranks : writing[q] = << >> /\ unpublished[q] = {}
    BY <1>1 DEF FilesInv
  <2> QED BY <1>1, <2>1, <2>2
<1>4. RanksInv' /\ FilesInv'
  BY <1>1, <1>2, <1>3, Resting
<1>5. /\ seeded /\ snapshot \in Weights /\ weights \in Weights /\ synced = weights /\ Progress
  BY <1>1, SendFacts
<1>6. ASSUME NEW q \in Ranks
      PROVE  /\ rank[q].pass = LastPass + 1
             /\ InChunk(rank[q].chunk) = {}
             /\ Told(rank[q].bucket) = {} /\ Told(rank[q].encoded) = {}
  <2>1. PassInv(q)
    BY <1>1 DEF RanksInv
  <2>2. /\ rank[q].pass = LastPass + 1 /\ rank[q].encoded = EmptyBlob /\ rank[q].chunk = NoChunk
        /\ rank[q].bucket.params = << >>
    BY <1>1, <2>1 DEF PassInv
  <2> QED BY <2>2, EmptyBlobFacts DEF Told, InChunk, NoChunk
<1>7. LastPass \in Nat
  BY ChunksCorrect
<1>8. ASSUME NEW t \in Tensors
      PROVE  ~ToCome(t)
  <2> SUFFICES ASSUME NEW q \in Ranks, Left(q, rank[q], t) PROVE FALSE
    BY DEF ToCome
  <2>1. PICK p \in 1 .. LastPass : p > rank[q].pass \/ p = rank[q].pass
    BY <1>6 DEF Left
  <2> QED BY <1>6, <1>7, <2>1
<1>9. ASSUME NEW t \in Tensors, NEW e \in Engines
      PROVE  ~Underway(e, t)
  <2>1. Outstanding(e) = {}
    BY <1>1, <1>3 DEF Outstanding
  <2>2. ~\E r \in Ranks : t \in Told(rank[r].bucket) \cup Told(rank[r].encoded)
    BY <1>6
  <2>3. ~\E r \in Ranks : \E i \in DOMAIN writing[r] : t \in Told(writing[r][i].bucket)
    BY <1>3
  <2> QED BY ONLY <2>1, <2>2, <2>3 DEF Underway
<1>10. \A t \in Tensors : snapshot[t] = weights[t]
  BY <1>5, <1>8 DEF Progress
<1>11. ASSUME NEW e \in Loyal
       PROVE  held[e] = weights
  <2>1. e \in Engines
    BY DEF Loyal
  <2>2. \A t \in Tensors : held[e][t] = weights[t]
    BY <1>5, <1>9, <1>10, <2>1 DEF Progress
  <2> QED BY <1>1, <1>5, <2>1, <2>2, WeightsFacts
<1>12. snapshot = weights
  BY <1>5, <1>10, WeightsFacts
<1>13. TypeOK'
  <2>1. recorded' \in [Engines -> Nat]
    BY <1>1, <1>2 DEF FinalVersion
  <2>2. \A n \in DOMAIN files' : n \in FileNames /\ files'[n] \in Blobs
    BY <1>2
  <2> QED BY <1>1, <1>2, <2>1, <2>2 DEF TypeOK
<1>14. SyncInv'
  <2>1. Loyal' = Loyal
    BY <1>2 DEF Loyal
  <2>2. ~Sending'
    BY <1>1 DEF Sending
  <2> QED BY <1>1, <1>2, <1>5, <1>11, <1>12, <2>1, <2>2 DEF SyncInv
<1>15. VersionInv'
  <2>1. ASSUME setting.transport = "disk", NEW e \in Engines
        PROVE  recorded'[e] = version
    <3>1. CASE ~published
      BY <1>1, <1>2, <2>1, <3>1 DEF FinalVersion
    <3>2. CASE published
      <4>1. recorded[e] = version
        BY <1>1, <1>3, <2>1, <3>2 DEF VersionInv
      <4> QED BY <1>2, <3>2, <4>1 DEF FinalVersion
    <3> QED BY <3>1, <3>2
  <2> QED BY <1>1, <1>2, <2>1 DEF VersionInv, Sending
<1> QED BY <1>4, <1>13, <1>14, <1>15 DEF IInv

\* What rests stays at rest.
LEMMA RestFacts ==
  ASSUME IInv, ~Sending
  PROVE  /\ TypeOK /\ RanksInv /\ FilesInv /\ SyncInv /\ VersionInv /\ pc # "send"
         /\ files = << >> /\ publishes = << >>
         /\ setting.transport = "disk" => \A e \in Engines : calls[e] = << >>
         /\ \A q \in Ranks : writing[q] = << >> /\ unpublished[q] = {}
         /\ setting.transport = "disk" => \A e \in Engines : recorded[e] = version
<1>1. TypeOK /\ RanksInv /\ FilesInv /\ SyncInv /\ VersionInv /\ pc # "send"
  BY DEF IInv, Sending
<1> QED BY <1>1 DEF FilesInv, VersionInv

\* A restarted engine is not loyal any more.
LEMMA RestartEngineStep ==
  ASSUME IInv, NEW e \in Engines, RestartEngine(e)
  PROVE  IInv'
<1>1. /\ setting' = setting /\ pc' = pc /\ version' = version /\ seeded' = seeded /\ weights' = weights
      /\ synced' = synced /\ writing' = writing /\ published' = published /\ files' = files
      /\ unpublished' = unpublished /\ rank' = rank /\ publishes' = publishes
      /\ calls' = calls /\ recorded' = recorded /\ paused' = paused /\ snapshot' = snapshot
      /\ held' = [held EXCEPT ![e] = Base]
      /\ restarted' = restarted \cup {e}
      /\ pc = "train" /\ ~Sending
  BY DEF RestartEngine, trainer, disk, Sending
<1>2. /\ TypeOK /\ SyncInv /\ VersionInv /\ RanksInv' /\ FilesInv'
  BY <1>1, RestFacts, Resting
<1>3. TypeOK'
  <2>1. held' \in [Engines -> Weights] /\ restarted' \subseteq Engines
    BY <1>1, <1>2, WeightsFacts DEF TypeOK
  <2> QED BY <1>1, <1>2, <2>1 DEF TypeOK
<1>4. \A d \in Loyal' : d \in Loyal /\ held'[d] = held[d]
  BY <1>1, <1>2 DEF Loyal, TypeOK
<1>5. seeded /\ ~Sending'
  BY <1>1, <1>2 DEF SyncInv, Sending
<1>6. SyncInv'
  BY <1>1, <1>2, <1>4, <1>5 DEF SyncInv
<1>7. VersionInv'
  BY <1>1, <1>2, <1>5 DEF VersionInv
<1> QED BY <1>2, <1>3, <1>6, <1>7 DEF IInv

\* A training step moves the trainer away from what the engines hold.
LEMMA TrainStep ==
  ASSUME IInv, Train
  PROVE  IInv'
<1>1. /\ setting' = setting /\ version' = version /\ seeded' = seeded
      /\ synced' = synced /\ writing' = writing /\ published' = published /\ files' = files
      /\ unpublished' = unpublished /\ rank' = rank /\ publishes' = publishes /\ held' = held
      /\ calls' = calls /\ recorded' = recorded /\ paused' = paused /\ snapshot' = snapshot
      /\ restarted' = restarted /\ weights' \in Trained
      /\ pc = "train" /\ pc' = "update" /\ ~Sending
  BY DEF Train, disk, engines, Sending
<1>2. /\ TypeOK /\ SyncInv /\ VersionInv /\ RanksInv' /\ FilesInv'
  BY <1>1, RestFacts, Resting
<1>3. TypeOK'
  <2>1. weights' \in Weights
    BY <1>1, WeightsFacts
  <2> QED BY <1>1, <1>2, <2>1 DEF TypeOK
<1>4. seeded /\ ~Sending' /\ Loyal' = Loyal
  BY <1>1, <1>2 DEF SyncInv, Sending, Loyal
<1>5. SyncInv'
  BY <1>1, <1>2, <1>4 DEF SyncInv
<1>6. VersionInv'
  BY <1>1, <1>2, <1>4 DEF VersionInv
<1> QED BY <1>2, <1>3, <1>5, <1>6 DEF IInv

\* The first update: engines and snapshot have the checkpoint.
LEMMA SeedStep ==
  ASSUME IInv, Seed
  PROVE  IInv'
<1>1. /\ setting' = setting /\ version' = version /\ weights' = weights
      /\ writing' = writing /\ published' = published /\ files' = files
      /\ unpublished' = unpublished /\ rank' = rank /\ publishes' = publishes /\ held' = held
      /\ calls' = calls /\ paused' = paused /\ restarted' = restarted
      /\ ~seeded /\ seeded' = TRUE /\ snapshot' = weights /\ synced' = weights
      /\ recorded' = IF setting.transport = "disk" THEN [e \in Engines |-> version] ELSE recorded
      /\ pc = "update" /\ pc' = "train" /\ ~Sending
  BY DEF Seed, disk, Sending
<1>2. /\ TypeOK /\ SyncInv /\ VersionInv /\ RanksInv' /\ FilesInv'
  BY <1>1, RestFacts, Resting
<1>3. TypeOK'
  <2>1. weights \in Weights /\ recorded' \in [Engines -> Nat]
    BY <1>1, <1>2 DEF TypeOK
  <2> QED BY <1>1, <1>2, <2>1 DEF TypeOK
<1>4. ~Sending' /\ Loyal' = Loyal /\ Loyal \subseteq Engines
  BY <1>1 DEF Sending, Loyal
<1>5. SyncInv'
  BY <1>1, <1>2, <1>4 DEF SyncInv
<1>6. VersionInv'
  BY <1>1, <1>2, <1>4 DEF VersionInv
<1> QED BY <1>2, <1>3, <1>5, <1>6 DEF IInv

\* The state a rank starts a sync with.
LEMMA StartFacts ==
  /\ AtStart \in RankStates /\ AtStart.pass = 1 /\ AtStart.next = 1 /\ AtStart.stage = "encode"
  /\ AtStart.chunk = NoChunk /\ AtStart.bucket = EmptyBlob /\ AtStart.encoded = EmptyBlob
<1>1. EmptyBlob \in Blobs /\ NoChunk \in Seq(Tensors) /\ << >> \in Partial /\ 1 \in 1 .. LastPass + 1
  <2>1. EmptyBlob \in Blobs /\ LastPass \in Nat
    BY EmptyBlobFacts, ChunksCorrect
  <2>2. NoChunk \in Seq(Tensors)
    BY EmptySeq DEF NoChunk
  <2>3. << >> \in Partial
    <3>1. << >> \in [{} -> Seq(Elements)] /\ {} \in SUBSET Tensors
      OBVIOUS
    <3> QED BY <3>1 DEF Partial
  <2> QED BY <2>1, <2>2, <2>3
<1> QED BY <1>1 DEF AtStart, RankStates

\* A sync begins: every tensor is ahead of a rank, and the engines hold the snapshot.
LEMMA PauseStep ==
  ASSUME IInv, Pause
  PROVE  IInv'
<1>1. /\ setting' = setting /\ version' = version + 1 /\ seeded' = seeded /\ weights' = weights
      /\ synced' = weights /\ writing' = writing /\ published' = FALSE /\ files' = << >>
      /\ unpublished' = unpublished /\ publishes' = publishes /\ held' = held
      /\ calls' = calls /\ recorded' = recorded /\ snapshot' = snapshot /\ restarted' = restarted
      /\ rank' = [q \in Ranks |-> AtStart] /\ paused' = [e \in Engines |-> TRUE]
      /\ pc = "update" /\ seeded /\ pc' = "send" /\ ~Sending /\ Sending'
  BY DEF Pause, Sending
<1>2. /\ TypeOK /\ SyncInv /\ FilesInv
      /\ files = << >> /\ publishes = << >>
      /\ setting.transport = "disk" => \A e \in Engines : calls[e] = << >>
      /\ \A q \in Ranks : writing[q] = << >> /\ unpublished[q] = {}
  BY <1>1, RestFacts
<1>3. /\ AtStart \in RankStates /\ AtStart.pass = 1 /\ AtStart.next = 1 /\ AtStart.stage = "encode"
      /\ AtStart.chunk = NoChunk /\ AtStart.bucket = EmptyBlob /\ AtStart.encoded = EmptyBlob
  BY StartFacts
<1>4. rank' \in [Ranks -> RankStates] /\ \A q \in Ranks : rank'[q] = AtStart
  BY <1>1, <1>3
<1>5. 0 \in Ranks /\ LastPass \in Nat \ {0}
  BY RanksAssumption, SubpassesAssumption DEF LastPass
<1>6. TypeOK'
  <2>1. calls' \in [Engines -> IF setting.transport = "nccl" THEN Seq(Ranks)
                               ELSE Seq([names : SUBSET FileNames, version : {version'}])]
    <3>1. calls \in [Engines -> IF setting.transport = "nccl" THEN Seq(Ranks)
                                ELSE Seq([names : SUBSET FileNames, version : {version}])]
      BY <1>2 DEF TypeOK
    <3>2. CASE setting.transport = "nccl"
      BY <1>1, <3>1, <3>2
    <3>3. CASE setting.transport # "nccl"
      <4>1. \A e \in Engines : calls[e] = << >>
        BY <1>2, <3>3, SettingsAssumption DEF TypeOK
      <4>2. \A e \in Engines : calls[e] \in Seq([names : SUBSET FileNames, version : {version'}])
        BY <4>1, EmptySeq
      <4> QED BY <1>1, <3>1, <3>3, <4>2
    <3> QED BY <3>2, <3>3
  <2>2. version' \in Nat /\ paused' \in [Engines -> BOOLEAN] /\ weights \in Weights
    BY <1>1, <1>2 DEF TypeOK
  <2>3. \A n \in DOMAIN files' : n \in FileNames /\ files'[n] \in Blobs
    BY <1>1
  <2> HIDE DEF AtStart
  <2> QED BY <1>1, <1>2, <1>4, <2>1, <2>2, <2>3 DEF TypeOK
<1>7. ASSUME NEW q \in Ranks
      PROVE  PassInv(q)' /\ ChunkInv(q)'
  <2>1. Restores(setting'.encoding, EmptyBlob, Olds', weights') /\ EmptyBlob.params = << >>
    BY EmptyBlobFacts, NothingCarried DEF EmptyBlob
  <2>2. /\ rank'[q].stage = "encode" /\ rank'[q].pass = 1 /\ rank'[0].pass = 1
        /\ rank'[q].chunk = NoChunk /\ rank'[q].bucket = EmptyBlob /\ rank'[q].encoded = EmptyBlob
    BY <1>3, <1>4, <1>5
  <2>3. PassInv(q)'
    BY <1>1, <1>5, <2>1, <2>2 DEF PassInv, Carried
  <2>4. InChunk(rank'[q].chunk) = {}
    BY <2>2 DEF InChunk, NoChunk
  <2>5. ChunkInv(q)'
    BY <2>4 DEF ChunkInv
  <2> QED BY <2>3, <2>5
<1>8. FilesInv'
  <2>1. /\ \A q \in Ranks : writing'[q] = << >> /\ unpublished'[q] = {}
        /\ setting'.transport = "disk" => \A e \in Engines : calls'[e] = << >>
        /\ files' = << >> /\ publishes' = << >> /\ Sending'
    BY <1>1, <1>2
  <2> QED BY ONLY <2>1 DEF FilesInv
<1>9. snapshot = synced /\ \A e \in Loyal : held[e] = snapshot
  BY <1>1, <1>2 DEF SyncInv
<1>10. ASSUME NEW t \in Tensors
       PROVE  ToCome(t)'
  <2>1. PICK r \in Ranks : \E p \in 1 .. LastPass : \E k \in DOMAIN Chunks(r, p) : t \in InChunk(Chunks(r, p)[k])
    BY ChunksCorrect
  <2>2. PICK p \in 1 .. LastPass : \E k \in DOMAIN Chunks(r, p) : t \in InChunk(Chunks(r, p)[k])
    BY <2>1
  <2>3. PICK k \in DOMAIN Chunks(r, p) : t \in InChunk(Chunks(r, p)[k])
    BY <2>2
  <2>4. k \in Nat /\ k >= 1
    <3>1. Chunks(r, p) \in Seq(Seq(Tensors))
      BY ChunksCorrect
    <3> QED BY <3>1, LenProperties
  <2>5. rank'[r].pass = 1 /\ rank'[r].next = 1
    BY <1>3, <1>4
  <2>6. p > rank'[r].pass \/ (p = rank'[r].pass /\ k >= rank'[r].next)
    BY <1>5, <2>4, <2>5
  <2>7. Left(r, rank'[r], t)
    BY <2>3, <2>6 DEF Left
  <2> QED BY <2>7 DEF ToCome
<1>11. Progress'
  <2>1. Loyal' = Loyal
    BY <1>1 DEF Loyal
  <2>2. ASSUME NEW t \in Tensors
        PROVE  /\ snapshot[t] # weights[t] =>
                    ToCome(t)' /\ \A e \in Loyal : held[e][t] \in {snapshot[t], weights[t]}
               /\ \A e \in Loyal : held[e][t] # weights[t] => snapshot[t] # weights[t] \/ Underway(e, t)'
    BY <1>9, <1>10
  <2> QED BY <1>1, <2>1, <2>2 DEF Progress
<1>12. SyncInv'
  BY <1>1, <1>11 DEF SyncInv
<1>13. VersionInv'
  BY <1>1 DEF VersionInv
<1> QED BY <1>6, <1>7, <1>8, <1>12, <1>13 DEF IInv, RanksInv

-----------------------------------------------------------------------------
(***************************************************************************)
(* The theorems.                                                           *)
(***************************************************************************)

\* At the start the trainer and the engines have the checkpoint.
LEMMA InitIInv ==
  ASSUME Init
  PROVE  IInv
<1>1. /\ setting \in Settings /\ pc = "update" /\ version = 0 /\ seeded = FALSE
      /\ weights = Base /\ synced = Base
      /\ rank = [r \in Ranks |-> AtStart]
      /\ writing = [r \in Ranks |-> << >>] /\ files = << >>
      /\ unpublished = [r \in Ranks |-> {}] /\ publishes = << >> /\ published = FALSE
      /\ calls = [e \in Engines |-> << >>]
      /\ held = [e \in Engines |-> Base] /\ recorded = [e \in Engines |-> 0]
      /\ paused = [e \in Engines |-> FALSE] /\ restarted = {}
      /\ ~Sending
  BY DEF Init, Sending
<1>2. /\ AtStart \in RankStates /\ AtStart.stage = "encode"
      /\ AtStart.chunk = NoChunk /\ AtStart.bucket = EmptyBlob /\ AtStart.encoded = EmptyBlob
  BY StartFacts
<1> HIDE DEF AtStart
<1>3. TypeOK
  <2>1. /\ rank \in [Ranks -> RankStates] /\ held \in [Engines -> Weights]
        /\ weights \in Weights /\ synced \in Weights
    BY <1>1, <1>2, WeightsFacts
  <2>2. /\ writing \in [Ranks -> Seq([name : FileNames, bucket : Blobs])]
        /\ unpublished \in [Ranks -> SUBSET FileNames] /\ publishes \in Seq(SUBSET FileNames)
    BY <1>1, EmptySeq
  <2>3. calls \in [Engines -> IF setting.transport = "nccl" THEN Seq(Ranks)
                              ELSE Seq([names : SUBSET FileNames, version : {version}])]
    BY <1>1, EmptySeq
  <2>4. \A n \in DOMAIN files : n \in FileNames /\ files[n] \in Blobs
    BY <1>1
  <2> QED BY <1>1, <2>1, <2>2, <2>3, <2>4 DEF TypeOK
<1>4. ASSUME NEW q \in Ranks
      PROVE  PassInv(q) /\ ChunkInv(q)
  <2>1. Carried(EmptyBlob) /\ EmptyBlob.params = << >>
    BY EmptyBlobFacts, NothingCarried DEF Carried
  <2>2. InChunk(rank[q].chunk) = {}
    BY <1>1, <1>2 DEF InChunk, NoChunk
  <2>3. PassInv(q)
    BY <1>1, <1>2, <2>1 DEF PassInv
  <2>4. ChunkInv(q)
    BY <2>2 DEF ChunkInv
  <2> QED BY <2>3, <2>4
<1>5. FilesInv
  <2>1. /\ \A q \in Ranks : writing[q] = << >> /\ unpublished[q] = {}
        /\ \A e \in Engines : calls[e] = << >>
        /\ files = << >> /\ publishes = << >>
    BY <1>1
  <2> QED BY ONLY <2>1 DEF FilesInv
<1>6. SyncInv /\ VersionInv
  BY <1>1 DEF SyncInv, VersionInv
<1> QED BY <1>3, <1>4, <1>5, <1>6 DEF IInv, RanksInv

\* Every step keeps the invariant.
LEMMA NextIInv ==
  ASSUME IInv, [Next]_vars
  PROVE  IInv'
<1>1. CASE Sync
  <2>1. CASE Train
    BY <2>1, TrainStep
  <2>2. CASE Seed
    BY <2>2, SeedStep
  <2>3. CASE Pause
    BY <2>3, PauseStep
  <2>4. CASE EndPass
    BY <2>4, EndPassStep
  <2>5. CASE Announce
    BY <2>5, AnnounceStep
  <2>6. CASE Finalize
    BY <2>6, FinalizeStep
  <2>7. ASSUME NEW r \in Ranks, Work(r)
        PROVE  IInv'
    <3>1. CASE PipelineChunk(r)
      BY <3>1, PipelineChunkStep
    <3>2. CASE LastChunk(r)
      BY <3>2, LastChunkStep
    <3>3. CASE Acquire(r)
      BY <3>3, AcquireStep
    <3>4. CASE Broadcast(r)
      BY <3>4, BroadcastStep
    <3>5. CASE \E e \in Engines : CallEngine(r, e)
      BY <3>5, CallEngineStep
    <3>6. CASE EnqueueFile(r)
      BY <3>6, EnqueueFileStep
    <3>7. CASE WriteFile(r)
      BY <3>7, WriteFileStep
    <3> QED BY <2>7, <3>1, <3>2, <3>3, <3>4, <3>5, <3>6, <3>7 DEF Work
  <2>8. CASE \E e \in Engines : LoadFiles(e)
    BY <2>8, LoadFilesStep
  <2> QED BY <1>1, <2>1, <2>2, <2>3, <2>4, <2>5, <2>6, <2>7, <2>8 DEF Sync
<1>2. CASE \E e \in Engines : RestartEngine(e)
  BY <1>2, RestartEngineStep
<1>3. CASE Finished \/ UNCHANGED vars
  <2>1. /\ UNCHANGED <<setting, pc, version, seeded, weights, synced, snapshot, rank, lock, restarted>>
        /\ UNCHANGED <<writing, files, unpublished, publishes, published>>
        /\ UNCHANGED <<calls, held, recorded, paused>>
    BY <1>3 DEF Finished, vars, trainer, disk, engines
  <2>2. TypeOK' <=> TypeOK
    BY <2>1 DEF TypeOK
  <2>3. /\ Loyal' = Loyal /\ Olds' = Olds /\ (Sending' <=> Sending)
        /\ \A b : Carried(b)' <=> Carried(b)
    BY <2>1 DEF Loyal, Olds, Sending, Carried
  <2>4. RanksInv' <=> RanksInv
    <3>1. \A q \in Ranks : (PassInv(q)' <=> PassInv(q)) /\ (ChunkInv(q)' <=> ChunkInv(q))
      BY <2>1, <2>3 DEF PassInv, ChunkInv
    <3> QED BY <3>1 DEF RanksInv
  <2>5. FilesInv' <=> FilesInv
    BY <2>1, <2>3 DEF FilesInv
  <2>6. Progress' <=> Progress
    <3>1. /\ \A t : ToCome(t)' <=> ToCome(t)
          /\ \A e \in Engines : Outstanding(e)' = Outstanding(e)
      BY <2>1 DEF ToCome, Outstanding
    <3>2. \A e \in Engines : \A t : Underway(e, t)' <=> Underway(e, t)
      BY <2>1, <3>1 DEF Underway
    <3>3. Loyal \subseteq Engines
      BY DEF Loyal
    <3> QED BY <2>1, <2>3, <3>1, <3>2, <3>3 DEF Progress
  <2>7. (SyncInv' <=> SyncInv) /\ (VersionInv' <=> VersionInv)
    BY <2>1, <2>3, <2>6 DEF SyncInv, VersionInv
  <2> QED BY <2>2, <2>4, <2>5, <2>7 DEF IInv
<1> QED BY <1>1, <1>2, <1>3 DEF Next

\* The invariant holds in every state.
THEOREM Inductive == Spec => []IInv
<1>1. Init => IInv
  BY InitIInv
<1>2. IInv /\ [Next]_vars => IInv'
  BY NextIInv
<1> QED BY <1>1, <1>2, PTL DEF Spec

\* Every variable stays what it is, and every blob within its bounds.
THEOREM TypeCorrect == Spec => []TypeOK
<1>1. IInv => TypeOK
  BY DEF IInv
<1> QED BY <1>1, Inductive, PTL

\* After every sync an engine that was not restarted holds, element by
\* element, what the trainer held when the sync began, and says so.
THEOREM InSyncCorrect == Spec => []InSync
<1>1. ASSUME IInv
      PROVE  InSync
  <2>1. ASSUME NEW e \in Engines \ restarted, ~paused[e]
        PROVE  held[e] = synced
    <3>1. SyncInv /\ ~Sending /\ e \in Loyal
      BY <1>1, <2>1 DEF IInv, SyncInv, Loyal
    <3>2. CASE seeded
      BY <3>1, <3>2 DEF SyncInv
    <3>3. CASE ~seeded
      BY <2>1, <3>1, <3>3 DEF SyncInv
    <3> QED BY <3>2, <3>3
  <2>2. VersionTracks
    BY <1>1 DEF IInv, VersionInv, VersionTracks, Sending
  <2> QED BY <2>1, <2>2 DEF InSync
<1>2. IInv => InSync
  BY <1>1
<1> QED BY <1>2, Inductive, PTL
=============================================================================
