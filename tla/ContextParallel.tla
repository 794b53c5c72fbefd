-------------------------- MODULE ContextParallel --------------------------
(***************************************************************************)
(* How a sequence is cut over the ranks of a context-parallel group, and   *)
(* put together again: slime/backends/megatron_utils/cp_utils.py, and the  *)
(* functions of loss.py that take log-probabilities out of the logits of a *)
(* packed micro-batch.                                                     *)
(*                                                                         *)
(* In the zigzag layout rank r of cp holds chunks r and 2cp-1-r of each    *)
(* sample.  In the all-gather layout it holds the r-th contiguous piece of *)
(* the whole packed stream.  A token is <<sample, position>>; positions,   *)
(* offsets and slices count from 0 as in the code.                         *)
(***************************************************************************)
EXTENDS Integers, Sequences, FiniteSets, SequencesExt

LOCAL Larger(a, b)  == IF a > b THEN a ELSE b
LOCAL Smaller(a, b) == IF a < b THEN a ELSE b

\* s[lo:hi], where hi may lie past the end.
Slice(s, lo, hi) == IF lo < hi THEN SubSeq(s, lo + 1, Smaller(hi, Len(s))) ELSE << >>

Repeat(x, n) == [k \in 1 .. n |-> x]

PadToken == <<0, 0>>
TokensOf(i, total) == [k \in 1 .. total |-> <<i, k - 1>>]

-----------------------------------------------------------------------------
(* The two chunks of a rank.  width is the length that is cut: the         *)
(* sample's own (thd), or the padded one (bshd).                           *)

ChunkSize(width, cp) == (width + 2 * cp - 1) \div (2 * cp)

ChunkAt(place, size) == <<place * size, (place + 1) * size>>

Chunks(width, cp, r) ==
  << ChunkAt(r, ChunkSize(width, cp)), ChunkAt(2 * cp - r - 1, ChunkSize(width, cp)) >>

Bounds(lo, hi) == IF lo < hi THEN <<lo, hi>> ELSE <<0, 0>>

\* The part of a chunk from lo on and before hi.
Within(chunk, lo, hi) == Bounds(Larger(chunk[1], lo), Smaller(chunk[2], hi))

\* The logits of a chunk that predict a token of the response.
LogitsOffset(total, resp, width, cp, r) ==
  [h \in 1 .. 2 |-> Within(Chunks(width, cp, r)[h], total - resp - 1, total - 1)]

OneOn(logits) == IF logits[1] < logits[2] THEN <<logits[1] + 1, logits[2] + 1>> ELSE <<0, 0>>

TokensOffset(total, resp, width, cp, r) ==
  [h \in 1 .. 2 |-> OneOn(LogitsOffset(total, resp, width, cp, r)[h])]

\* The two pieces at `at' of a tensor that starts at `first'.
TwoSlices(s, at, first) ==
  Slice(s, at[1][1] - first, at[1][2] - first) \o Slice(s, at[2][1] - first, at[2][2] - first)

SliceWithCp(tokens, pad, width, cp, r) ==
  LET whole == IF cp = 1 THEN width ELSE 2 * cp * ChunkSize(width, cp)
      padded == tokens \o Repeat(pad, whole - Len(tokens))
  IN  IF cp = 1 THEN padded ELSE TwoSlices(padded, Chunks(width, cp, r), 0)

\* What a rank keeps of a tensor over the whole response.
SliceLogProb(full, total, resp, width, cp, r) ==
  IF cp = 1 THEN full
  ELSE TwoSlices(full, LogitsOffset(total, resp, width, cp, r), total - resp - 1)

\* The loss mask of what a rank keeps (get_sum_of_sample_mean).
ChunkedMask(mask, total, resp, width, cp, r) ==
  IF cp = 1 THEN mask
  ELSE TwoSlices(mask, TokensOffset(total, resp, width, cp, r), total - resp)

\* A rank's share of the all-reduce that rebuilds a response.  The callers
\* leave the width out: it is that of thd.
Spread(local, total, resp, cp, r) ==
  LET first == total - resp - 1
      Filled(at, size) ==
        [k \in 1 .. resp |->
          CASE k + first \in at[1][1] + 1 .. at[1][2] -> local[k + first - at[1][1]]
            [] k + first \in at[2][1] + 1 .. at[2][2] -> local[size + k + first - at[2][1]]
            [] OTHER -> 0]
      Placed(at) == Filled(at, at[1][2] - at[1][1])
  IN  Placed(LogitsOffset(total, resp, total, cp, r))

Covered(at) == (at[1][2] - at[1][1]) + (at[2][2] - at[2][1])

\* The assertion of all_gather_with_cp: the tensor is cut as thd would.
Gatherable(local, total, resp, cp, r) ==
  cp > 1 => Len(local) = Covered(LogitsOffset(total, resp, total, cp, r))

\* all_gather_with_cp: locals[r] is the tensor of rank r.
AllGather(locals, total, resp, cp) ==
  IF cp = 1 THEN locals[0]
  ELSE LET shares == [r \in 0 .. cp - 1 |-> Spread(locals[r], total, resp, cp, r)]
       IN  [k \in 1 .. resp |-> FoldFunction(+, 0, [r \in 0 .. cp - 1 |-> shares[r][k]])]

-----------------------------------------------------------------------------
(* A micro-batch mb is a sequence of records [id, total, resp, width].     *)
(* Its log-probs on a rank are pairs <<token of the logit, token that it   *)
(* is compared with>>.                                                     *)

\* The length of the first n samples in the packed stream of a rank.
Before(mb, n, Size(_)) == FoldFunction(+, 0, [j \in 1 .. n |-> Size(mb[j])])

Total(s) == s.total
Width(s) == s.width

PieceLen(mb, cp) == (Before(mb, Len(mb), Total) + cp - 1) \div cp

OwnPiece(whole, mb, cp, r) ==
  LET n == PieceLen(mb, cp)
  IN  Slice(whole \o Repeat(PadToken, n * cp - Len(whole)), r * n, (r + 1) * n)

\* get_batch: the input tokens of rank r.
PackedTokens(mb, layout, cp, r) ==
  IF layout = "allgather"
  THEN OwnPiece(FlattenSeq([k \in 1 .. Len(mb) |-> TokensOf(mb[k].id, mb[k].total)]), mb, cp, r)
  ELSE FlattenSeq([k \in 1 .. Len(mb) |->
         SliceWithCp(TokensOf(mb[k].id, mb[k].total), PadToken, mb[k].width, cp, r)])

\* A chunk's targets: those of the response at their logits, the rest unused.
Targets(id, start, size, logits) ==
  [k \in 1 .. size |->
    IF start + k - 1 \in logits[1] .. logits[2] - 1 THEN <<id, start + k>> ELSE PadToken]

ShiftedFirstChunk(s, cp, r, h) ==
  Targets(s.id, Chunks(s.width, cp, r)[1][1], ChunkSize(s.width, cp),
          LogitsOffset(s.total, s.resp, s.width, cp, r)[h])

ShiftedChunk(s, cp, r, h) ==
  Targets(s.id, Chunks(s.width, cp, r)[h][1], ChunkSize(s.width, cp),
          LogitsOffset(s.total, s.resp, s.width, cp, r)[h])

\* _build_shifted_tokens: the token each logit of rank r is compared with.
ShiftedTokens(mb, layout, cp, r) ==
  LET Shifted(s, size) == Tail(TokensOf(s.id, s.total)) \o Repeat(PadToken, size - s.total + 1)
  IN  CASE layout = "allgather" ->
             OwnPiece(FlattenSeq([k \in 1 .. Len(mb) |-> Shifted(mb[k], mb[k].total)]), mb, cp, r)
        [] layout # "allgather" /\ cp = 1 ->
             FlattenSeq([k \in 1 .. Len(mb) |-> Shifted(mb[k], mb[k].width)])
        [] OTHER ->
             FlattenSeq([k \in 1 .. Len(mb) |->
               ShiftedChunk(mb[k], cp, r, 1) \o ShiftedChunk(mb[k], cp, r, 2)])

\* _extract_per_sample: the response of sample k in rank r's stream.
Extract(stream, mb, k, layout, cp, r) ==
  LET s == mb[k]
      prompt == s.total - s.resp
      at == LogitsOffset(s.total, s.resp, s.width, cp, r)
      own == Chunks(s.width, cp, r)
      TwoChunks(t) == 2 * ChunkSize(t.width, cp)
      Half(h, base) == Slice(stream, base + at[h][1] - own[h][1], base + at[h][2] - own[h][1])
      start == r * PieceLen(mb, cp)
      lo == Larger(Before(mb, k - 1, Total) + prompt - 1, start)
      hi == Smaller(Before(mb, k, Total) - 1, start + PieceLen(mb, cp))
  IN  CASE layout = "allgather" -> Slice(stream, lo - start, hi - start)
        [] layout # "allgather" /\ cp = 1 ->
             LET pos == Before(mb, k - 1, Width)
             IN  Slice(stream, pos + prompt - 1, pos + s.total - 1)
        [] OTHER ->
             LET pos == Before(mb, k - 1, TwoChunks)
             IN  Half(1, pos) \o Half(2, pos + ChunkSize(s.width, cp))

Compared(input, target) == [t \in 1 .. Len(input) |-> <<input[t], target[t]>>]

OwnLogProbs(mb, k, layout, cp, r) ==
  Extract(Compared(PackedTokens(mb, layout, cp, r), ShiftedTokens(mb, layout, cp, r)),
          mb, k, layout, cp, r)

\* _allgather_cp_redistribute: the pieces of all ranks, then the zigzag slice.
Redistribute(mb, k, cp, r) ==
  LET s == mb[k]
      first == Before(mb, k - 1, Total) + s.total - s.resp - 1
      At(q, before, own) == {<<q, before + j, own[j]>> : j \in DOMAIN own}
      Piece(q) ==       \* what rank q has of the response, and where it goes
        At(q, Larger(first, q * PieceLen(mb, cp)) - first, OwnLogProbs(mb, k, "allgather", cp, q))
      Only(here) ==     \* nobody's, or a sum of several, is no log-prob
        IF Cardinality(here) = 1 THEN (CHOOSE x \in here : TRUE)[3] ELSE <<PadToken, PadToken>>
      Full(pieces) == [j \in 1 .. s.resp |-> Only({x \in pieces : x[2] = j})]
  IN  SliceLogProb(Full(UNION {Piece(q) : q \in 0 .. cp - 1}), s.total, s.resp, s.width, cp, r)

\* get_log_probs_and_entropy, for one sample on rank r.
LogProbs(mb, k, layout, cp, r) ==
  IF layout = "allgather" THEN Redistribute(mb, k, cp, r) ELSE OwnLogProbs(mb, k, layout, cp, r)
=============================================================================
