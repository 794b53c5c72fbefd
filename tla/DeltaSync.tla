------------------------------ MODULE DeltaSync ------------------------------
(***************************************************************************)
(* UpdateWeightFromDistributedDelta: the source ranks of the trainer diff  *)
(* their tensors against the snapshot of the last sync and send what       *)
(* changed, in buckets, over NCCL or through files, while the rollout      *)
(* engines are paused.                                                     *)
(***************************************************************************)
EXTENDS DeltaEncoding

CONSTANTS
    Engines,
    Ranks,          \* the pipeline ranks that send; rank 0 also coordinates
    Dense,          \* of a rank, its chunks of non-expert tensors
    Experts,        \* of a rank, its expert tensors
    Subpasses,      \* _EXPERT_SUBPASSES
    Elements,       \* what an element of a tensor may be
    Base,           \* the weights of the HF checkpoint
    Trained,        \* the weights a training step may end with
    ElementSize, ByteLimit,
    Settings,       \* transports and encodings
    MaxSyncs, MaxRestarts

ASSUME RanksAssumption == IsFiniteSet(Ranks) /\ 0 \in Ranks
ASSUME SubpassesAssumption == Subpasses \in Nat \ {0}
ASSUME SettingsAssumption ==
    Settings \subseteq [transport : {"nccl", "disk"}, encoding : {"indices", "deltas"}]

Tensors == DOMAIN Base

(* Training changes no shape, and every tensor is in the model of a rank.  *)
ASSUME WeightsAssumption == \A w \in Trained \cup {Base} :
    w \in [Tensors -> Seq(Elements)] /\ \A t \in Tensors : Len(w[t]) = Len(Base[t])
ASSUME ChunksAssumption ==
    /\ \A r \in Ranks : Dense[r] \in Seq(Seq(Tensors)) /\ Experts[r] \in Seq(Tensors)
    /\ \A t \in Tensors : \E r \in Ranks :
         \/ \E k \in DOMAIN Dense[r] : \E i \in DOMAIN Dense[r][k] : Dense[r][k][i] = t
         \/ \E j \in DOMAIN Experts[r] : Experts[r][j] = t

VARIABLES
    setting, pc,
    version,       \* weight_version
    seeded,        \* _snapshot_seeded
    weights,       \* the trainer's, by tensor
    synced,        \* the trainer's when the last sync began
    snapshot,      \* DeltaState.snapshot, of all ranks
    rank,          \* of a rank: where it is in its passes, and its bucket
    lock,          \* rollout_engine_lock
    writing,       \* of a rank: the files its writer thread has yet to write
    files,         \* of this sync, written
    unpublished,   \* of a rank: _pending_files
    publishes,     \* _pending_publishes: batches the executor has to announce
    published,     \* _published_any
    calls,         \* of an engine: the update calls it has not served
    held, recorded, paused,   \* of an engine: weights, weight version, paused
    restarted  \* engines started again

trainer == <<setting, pc, version, seeded, weights, synced>>
disk    == <<writing, files, unpublished, publishes, published>>
engines == <<calls, held, recorded, paused>>
vars    == <<trainer, snapshot, rank, lock, disk, engines, restarted>>

Free == -1
NoChunk == << >>

(* _send_weights: one pass over the chunks of non-expert tensors, then     *)
(* Subpasses passes over equal slices of the expert tensors.         *)
Slice(r, i) == LET n == Len(Experts[r])
               IN  SubSeq(Experts[r], ((i - 1) * n) \div Subpasses + 1, (i * n) \div Subpasses)
Chunks(r, pass) == IF pass = 1 THEN Dense[r] ELSE [k \in DOMAIN Slice(r, pass - 1) |-> <<Slice(r, pass - 1)[k]>>]
LastPass == Subpasses + 1

AtStart == [pass |-> 1, next |-> 1, chunk |-> NoChunk, prev |-> << >>, encoded |-> EmptyBlob,
            bucket |-> EmptyBlob, stage |-> "encode", unsent |-> {}, flushes |-> 0]

Init ==
    /\ setting \in Settings
    /\ pc = "update" /\ version = 0 /\ seeded = FALSE
    /\ weights = Base /\ synced = Base /\ snapshot = << >>
    /\ rank = [r \in Ranks |-> AtStart]
    /\ lock = Free
    /\ writing = [r \in Ranks |-> << >>] /\ files = << >>
    /\ unpublished = [r \in Ranks |-> {}] /\ publishes = << >> /\ published = FALSE
    /\ calls = [e \in Engines |-> << >>]
    /\ held = [e \in Engines |-> Base] /\ recorded = [e \in Engines |-> 0]
    /\ paused = [e \in Engines |-> FALSE]
    /\ restarted = {}

(* An engine restarted for fault tolerance loads the HF checkpoint again. *)
RestartEngine(e) ==
    /\ pc = "train" /\ Cardinality(restarted) < MaxRestarts
    /\ held' = [held EXCEPT ![e] = Base]
    /\ restarted' = restarted \cup {e}
    /\ UNCHANGED <<trainer, snapshot, rank, lock, disk, calls, recorded, paused>>

Train ==
    /\ pc = "train" /\ version < MaxSyncs
    /\ weights' \in Trained
    /\ pc' = "update"
    /\ UNCHANGED <<setting, version, seeded, synced, snapshot, rank, lock, disk, engines, restarted>>

(* The first update_weights: _seed_snapshot, no weights are sent. *)
Seed ==
    /\ pc = "update" /\ ~seeded
    /\ seeded' = TRUE
    /\ snapshot' = weights /\ synced' = weights
    /\ recorded' = IF setting.transport = "disk" THEN [e \in Engines |-> version] ELSE recorded
    /\ pc' = "train"
    /\ UNCHANGED <<setting, version, weights, rank, lock, disk, calls, held, paused, restarted>>

(* Pause the engines, and only then let the ranks pass the barrier. *)
Pause ==
    /\ pc = "update" /\ seeded
    /\ version' = version + 1
    /\ paused' = [e \in Engines |-> TRUE]
    /\ rank' = [r \in Ranks |-> AtStart]
    /\ synced' = weights
    /\ files' = << >> /\ published' = FALSE
    /\ pc' = "send"
    /\ UNCHANGED <<setting, seeded, weights, snapshot, lock, writing, unpublished, publishes,
                   calls, held, recorded, restarted>>

-----------------------------------------------------------------------------
(* A rank's pass over its chunks. *)

Encoding(r) == pc = "send" /\ rank[r].stage = "encode"

EncodedChunk(s) ==
    Encode(setting.encoding, [i \in DOMAIN s.chunk |-> Diff(s.chunk[i], weights[s.chunk[i]], s.prev[s.chunk[i]])])

(* _enqueue_chunk: the snapshot takes the new tensors, the encoded chunk   *)
(* goes to the bucket, which is flushed first when it would grow too large.*)
Enqueued(s, encoded, next, chunk, prev) ==
    LET moved == [s EXCEPT !.next = next, !.chunk = chunk, !.prev = prev]
    IN  IF ~HasUpdates(encoded) THEN moved
        ELSE IF ShouldFlushBeforeAdd(s.bucket, encoded, ElementSize, ByteLimit)
             THEN [moved EXCEPT !.encoded = encoded, !.stage = "flush"]
             ELSE [moved EXCEPT !.bucket = Add(@, encoded)]

SnapshotWith(chunk) ==
    [name \in DOMAIN snapshot |-> IF \E i \in DOMAIN chunk : chunk[i] = name THEN weights[name] ELSE snapshot[name]]

(* One iteration of _pipeline_pass: fetch the snapshot of the next chunk,  *)
(* then encode the one before.                                             *)
PipelineChunk(r) ==
    /\ Encoding(r)
    /\ rank[r].next <= Len(Chunks(r, rank[r].pass))
    /\ LET chunk == Chunks(r, rank[r].pass)[rank[r].next]
           prev  == [name \in {chunk[i] : i \in DOMAIN chunk} |-> snapshot[name]]
       IN  \E encoded \in {EncodedChunk(rank[r])} :
               rank' = [rank EXCEPT ![r] = Enqueued(@, encoded, rank[r].next + 1, chunk, prev)]
    /\ snapshot' = SnapshotWith(rank[r].chunk)
    /\ UNCHANGED <<trainer, lock, disk, engines, restarted>>

LastChunk(r) ==
    /\ Encoding(r)
    /\ rank[r].next > Len(Chunks(r, rank[r].pass))
    /\ \E encoded \in {EncodedChunk(rank[r])} :
           rank' = [rank EXCEPT ![r] =
               IF rank[r].chunk # NoChunk THEN Enqueued(@, encoded, rank[r].next, NoChunk, << >>)
               ELSE [@ EXCEPT !.stage = IF HasUpdates(rank[r].bucket) THEN "flush" ELSE "barrier"]]
    /\ snapshot' = SnapshotWith(rank[r].chunk)
    /\ UNCHANGED <<trainer, lock, disk, engines, restarted>>

(* After _flush_bucket: the chunk that did not fit opens the next bucket. *)
Flushed(s) == [s EXCEPT !.bucket = s.encoded, !.encoded = EmptyBlob, !.stage = "encode",
                        !.flushes = @ + 1]

-----------------------------------------------------------------------------
(* NCCL: lock, call every engine, broadcast, unlock. *)

(* Mutant: the broadcast does not wait for the lock. *)
AcquireAnyway(r) ==
    /\ setting.transport = "nccl" /\ rank[r].stage = "flush"
    /\ lock' = r
    /\ rank' = [rank EXCEPT ![r].stage = "call", ![r].unsent = Engines]
    /\ UNCHANGED <<trainer, snapshot, disk, engines, restarted>>
Acquire(r) ==
    /\ setting.transport = "nccl" /\ rank[r].stage = "flush"
    /\ lock = Free
    /\ lock' = r
    /\ rank' = [rank EXCEPT ![r].stage = "call", ![r].unsent = Engines]
    /\ UNCHANGED <<trainer, snapshot, disk, engines, restarted>>

CallEngine(r, e) ==
    /\ rank[r].stage = "call" /\ e \in rank[r].unsent
    /\ calls' = [calls EXCEPT ![e] = Append(@, r)]
    /\ rank' = [rank EXCEPT ![r].unsent = @ \ {e}]
    /\ UNCHANGED <<trainer, snapshot, lock, disk, held, recorded, paused, restarted>>

(* The broadcast ends when every engine serves the call of this rank. *)
Broadcast(r) ==
    /\ rank[r].stage = "call" /\ rank[r].unsent = {}
    /\ \A e \in Engines : calls[e] # << >> /\ Head(calls[e]) = r
    /\ held' = [e \in Engines |-> Apply(setting.encoding, rank[r].bucket, held[e])]
    /\ recorded' = [e \in Engines |-> version]
    /\ calls' = [e \in Engines |-> Tail(calls[e])]
    /\ lock' = Free
    /\ rank' = [rank EXCEPT ![r] = Flushed(@)]
    /\ UNCHANGED <<trainer, snapshot, disk, paused, restarted>>

-----------------------------------------------------------------------------
(* Disk: the writer thread, the publication of a pass, the executor. *)

EnqueueFile(r) ==
    /\ setting.transport = "disk" /\ rank[r].stage = "flush"
    /\ LET name == <<r, rank[r].flushes>>
       IN  /\ writing' = [writing EXCEPT ![r] = Append(@, [name |-> name, bucket |-> rank[r].bucket])]
           /\ unpublished' = [unpublished EXCEPT ![r] = @ \cup {name}]
    /\ rank' = [rank EXCEPT ![r] = Flushed(@)]
    /\ UNCHANGED <<trainer, snapshot, lock, files, publishes, published, engines, restarted>>

WriteFile(r) ==
    /\ writing[r] # << >>
    /\ LET f == Head(writing[r])
       IN  files' = [n \in DOMAIN files \cup {f.name} |-> IF n = f.name THEN f.bucket ELSE files[n]]
    /\ writing' = [writing EXCEPT ![r] = Tail(@)]
    /\ UNCHANGED <<trainer, snapshot, rank, lock, unpublished, publishes, published, engines, restarted>>

(* The barrier at the end of a pass and, for files, _publish_batch: every  *)
(* writer is drained before rank 0 announces the files.                    *)
Drained == \A r \in Ranks : writing[r] = << >>

EndPass ==
    /\ pc = "send"
    /\ \A r \in Ranks : rank[r].stage = "barrier"
    /\ setting.transport = "disk" => Drained
    /\ LET batch == UNION {unpublished[r] : r \in Ranks}
       IN  IF setting.transport = "disk" /\ batch # {}
           THEN publishes' = Append(publishes, batch) /\ published' = TRUE
           ELSE UNCHANGED <<publishes, published>>
    /\ unpublished' = [r \in Ranks |-> {}]
    /\ rank' = [r \in Ranks |->
                  [rank[r] EXCEPT !.pass = @ + 1, !.next = 1, !.stage = "encode"]]
    /\ pc' = IF \E r \in Ranks : rank[r].pass = LastPass THEN "finalize" ELSE "send"
    /\ UNCHANGED <<setting, version, seeded, weights, synced, snapshot, lock, writing, files, engines, restarted>>

(* The executor thread calls update_weights_from_disk of every engine. *)
Announce ==
    /\ publishes # << >>
    /\ calls' = [e \in Engines |-> Append(calls[e], [names |-> Head(publishes), version |-> version])]
    /\ publishes' = Tail(publishes)
    /\ UNCHANGED <<trainer, snapshot, rank, lock, writing, files, unpublished, published,
                   held, recorded, paused, restarted>>

(* The files of a batch are of different tensors: their order is free.  A  *)
(* file that is not there leaves its tensors as they are.                  *)
ApplyFiles(names, old) ==
    [t \in DOMAIN old |->
        LET Has(n) == \E i \in DOMAIN files[n].params : files[n].params[i].name = t
        IN  IF \E n \in names \cap DOMAIN files : Has(n)
            THEN Apply(setting.encoding, files[CHOOSE n \in names \cap DOMAIN files : Has(n)], old)[t]
            ELSE old[t]]

LoadFiles(e) ==
    /\ setting.transport = "disk" /\ calls[e] # << >>
    /\ held' = [held EXCEPT ![e] = ApplyFiles(Head(calls[e]).names, held[e])]
    /\ recorded' = [recorded EXCEPT ![e] = Head(calls[e]).version]
    /\ calls' = [calls EXCEPT ![e] = Tail(@)]
    /\ UNCHANGED <<trainer, snapshot, rank, lock, disk, paused, restarted>>

(* _finalize_sync: wait for what was published, bump the version of        *)
(* engines that were sent nothing, remove the files, continue.             *)
Applied == publishes = << >> /\ \A e \in Engines : calls[e] = << >>

(* Mutant: a sync without a change leaves the engines' version. *)
FinalVersionUnbumped == recorded
FinalVersion ==
    IF setting.transport = "disk" /\ ~published THEN [e \in Engines |-> version] ELSE recorded

Finalize ==
    /\ pc = "finalize"
    /\ setting.transport = "disk" => Applied
    /\ recorded' = FinalVersion
    /\ files' = << >>
    /\ paused' = [e \in Engines |-> FALSE]
    /\ pc' = "train"
    /\ UNCHANGED <<setting, version, seeded, weights, synced, snapshot, rank, lock, writing, unpublished,
                   publishes, published, calls, held, restarted>>

Finished == pc = "train" /\ version = MaxSyncs /\ UNCHANGED vars

Work(r) == \/ PipelineChunk(r) \/ LastChunk(r)
           \/ Acquire(r) \/ Broadcast(r) \/ \E e \in Engines : CallEngine(r, e)
           \/ EnqueueFile(r) \/ WriteFile(r)

Sync == \/ Train \/ Seed \/ Pause \/ EndPass \/ Announce \/ Finalize
        \/ \E r \in Ranks : Work(r)
        \/ \E e \in Engines : LoadFiles(e)

Next == Sync \/ Finished \/ \E e \in Engines : RestartEngine(e)

Spec == Init /\ [][Next]_vars
FairSpec == Spec /\ WF_vars(Sync)

-----------------------------------------------------------------------------
(* Properties. *)

(* The engines' recorded version follows the updater's over syncs that     *)
(* change nothing too, with files (set_weight_version).                    *)
VersionTracks ==
  pc = "train" /\ setting.transport = "disk" => \A e \in Engines : recorded[e] = version

(* "The apply is lossless and there is no drift": an engine that generates *)
(* holds, element by element, what the trainer held when the last sync     *)
(* began, whatever the encoding, the buckets and the transport; and says   *)
(* so.                                                                     *)
InSync ==
  /\ \A e \in Engines \ restarted : ~paused[e] => held[e] = synced
  /\ VersionTracks

(* The same of an engine that was restarted: it generates with what the    *)
(* trainer held, or still with the checkpoint it was started from.         *)
NoDrift == \A e \in Engines : ~paused[e] => held[e] \in {synced, Base}

(* Two ranks that broadcast to the same engines do not block each other:   *)
(* every sync ends.                                                        *)
SyncEnds == (pc = "send") ~> (pc = "train")
=============================================================================
