---------------------------- MODULE DeltaEncoding ----------------------------
(***************************************************************************)
(* The wire layout of the delta weight sync: what encode_indices and       *)
(* encode_deltas make of one chunk of parameters, how DeltaBucket merges   *)
(* chunks, and what the engine reads back.                                 *)
(*                                                                         *)
(* A tensor is a sequence of elements.  A position of width w is stored    *)
(* in w bytes: its value and w - 1 more, which the abstraction leaves      *)
(* empty.  A diff is a record of the tensor's name, its current elements   *)
(* and the (0-based) positions that differ from the snapshot.              *)
(***************************************************************************)
EXTENDS Integers, Sequences, FiniteSets

CONSTANTS MaxShort   \* the largest gap two bytes can hold (65535)

ASSUME MaxShortAssumption == MaxShort \in Nat

Blank == -1
EmptyBlob == [pos |-> << >>, vals |-> << >>, params |-> << >>]
Bytes(positions, width) ==
    [n \in 1 .. width * Len(positions) |->
        IF n % width = 1 THEN positions[(n \div width) + 1] ELSE Blank]

(* _bytewise_diff_mask *)
Diff(name, current, snapshot) ==
    [name |-> name, values |-> current,
     mask |-> { i \in 0 .. Len(current) - 1 : current[i + 1] # snapshot[i + 1] }]

(* nonzero of the mask: its positions in increasing order.                 *)
Positions(d) ==
    [k \in 1 .. Cardinality(d.mask) |->
        CHOOSE i \in d.mask : Cardinality({j \in d.mask : j < i}) = k - 1]

(* encode_indices: four bytes for each absolute position.                  *)
Indices(d) == [positions |-> Positions(d), width |-> 4]

(* encode_deltas: gaps to the position before, in two bytes if they fit.   *)
Deltas(d) ==
    LET at   == Positions(d)
        gaps == [k \in DOMAIN at |-> at[k] - (IF k = 1 THEN -1 ELSE at[k - 1]) - 1]
    IN  [positions |-> gaps, width |-> IF \A k \in DOMAIN gaps : gaps[k] <= MaxShort THEN 2 ELSE 4]

Packed(encoding, d) == IF encoding = "indices" THEN Indices(d) ELSE Deltas(d)

(* The places of what is appended are moved behind what is there.          *)
Rebased(p, blob) ==
    [p EXCEPT !.pos_start = @ + Len(blob.pos),  !.pos_end = @ + Len(blob.pos),
              !.val_start = @ + Len(blob.vals), !.val_end = @ + Len(blob.vals)]
Join(blob, part) ==
    [pos |-> blob.pos \o part.pos, vals |-> blob.vals \o part.vals,
     params |-> blob.params \o [i \in DOMAIN part.params |-> Rebased(part.params[i], blob)]]

(* One tensor; one without a change is left out.                           *)
EncodeOne(encoding, d) ==
    LET packed == Packed(encoding, d)
        at     == Positions(d)
    IN  IF d.mask = {} THEN EmptyBlob
        ELSE [pos    |-> Bytes(packed.positions, packed.width),
              vals   |-> [k \in DOMAIN at |-> d.values[at[k] + 1]],
              params |-> << [name |-> d.name, width |-> packed.width,
                             pos_start |-> 0, pos_end |-> packed.width * Len(at),
                             val_start |-> 0, val_end |-> Len(at)] >>]

(* One chunk: its changed tensors one behind the other.                    *)
Encode(encoding, diffs) ==
    LET upTo[i \in 0 .. Len(diffs)] ==
            IF i = 0 THEN EmptyBlob ELSE Join(upTo[i - 1], EncodeOne(encoding, diffs[i]))
    IN  upTo[Len(diffs)]

-----------------------------------------------------------------------------
(* DeltaBucket *)

HasUpdates(bucket) == bucket.params # << >>
ByteSize(part, element) == Len(part.pos) + element * Len(part.vals)

ShouldFlushBeforeAdd(bucket, chunk, element, limit) ==
    HasUpdates(bucket) /\ ByteSize(bucket, element) + ByteSize(chunk, element) > limit

(* Mutant: the places of a second chunk are those of its own blob. *)
AddAsIs(bucket, chunk) ==
    [pos |-> bucket.pos \o chunk.pos, vals |-> bucket.vals \o chunk.vals,
     params |-> bucket.params \o chunk.params]
Add(bucket, chunk) == Join(bucket, chunk)

-----------------------------------------------------------------------------
(* The engine: read each tensor's positions, undo the gaps, overwrite the  *)
(* elements there.                                                         *)
Raw(bucket, p) ==
    [k \in 1 .. (p.pos_end - p.pos_start) \div p.width |->
        bucket.pos[p.pos_start + (k - 1) * p.width + 1]]

Decode(encoding, raw) ==
    LET at[k \in 0 .. Len(raw)] == IF k = 0 THEN -1 ELSE at[k - 1] + raw[k] + 1
    IN  IF encoding = "indices" THEN raw ELSE [k \in DOMAIN raw |-> at[k]]

Overwrite(encoding, bucket, p, tensor) ==
    LET at == Decode(encoding, Raw(bucket, p))
    IN  [i \in DOMAIN tensor |->
            IF \E k \in DOMAIN at : at[k] = i - 1
            THEN bucket.vals[p.val_start + (CHOOSE k \in DOMAIN at : at[k] = i - 1)]
            ELSE tensor[i]]

Apply(encoding, bucket, weights) ==
    [name \in DOMAIN weights |->
        IF \E i \in DOMAIN bucket.params : bucket.params[i].name = name
        THEN Overwrite(encoding, bucket,
                       bucket.params[CHOOSE i \in DOMAIN bucket.params : bucket.params[i].name = name],
                       weights[name])
        ELSE weights[name]]
=============================================================================
