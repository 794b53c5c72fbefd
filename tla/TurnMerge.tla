------------------------------ MODULE TurnMerge ------------------------------
(***************************************************************************)
(* slime/agent/trajectory.py: the turns of an agent, each a prompt that    *)
(* was sent and the output that came back, replayed into one segment to    *)
(* train on.                                                               *)
(*                                                                         *)
(* A token is its identity; its log-prob, as the engine returned it, is    *)
(* written as the token again, and NoProb is 0.0.                          *)
(***************************************************************************)
EXTENDS Naturals, Sequences, SequencesExt

NoProb == << >>

CommonPrefixLen(a, b) == Max({n \in 0 .. Len(a) : IsPrefix(SubSeq(a, 1, n), b)})

EmptySegment(prompt) ==
  [prompt_ids |-> prompt, response_ids |-> << >>, loss_mask |-> << >>,
   rollout_log_probs |-> << >>, output_spans |-> {}]

Repeated(x, n) == [k \in 1 .. n |-> x]

CutSpansKept(seg, matched) == {}

\* The outputs that are cut in the middle, from their first token on.
CutSpans(seg, matched) ==
  {span \in seg.output_spans : span[1] < matched /\ matched < span[2]}

\* The first matched tokens of the response; a partial output is not trained on.
Truncated(seg, matched) ==
  LET Blank(k) == \E span \in CutSpans(seg, matched) : span[1] < k
  IN  [seg EXCEPT
        !.response_ids = SubSeq(@, 1, matched),
        !.loss_mask = [k \in 1 .. matched |-> IF Blank(k) THEN 0 ELSE @[k]],
        !.rollout_log_probs = [k \in 1 .. matched |-> IF Blank(k) THEN NoProb ELSE @[k]],
        !.output_spans = {<<span[1], IF span[2] < matched THEN span[2] ELSE matched>> :
                            span \in {s \in @ : s[1] < matched}}]

WithContext(seg, ids) ==
  [seg EXCEPT !.response_ids = @ \o ids,
              !.loss_mask = @ \o Repeated(0, Len(ids)),
              !.rollout_log_probs = @ \o Repeated(NoProb, Len(ids))]

WithOutput(seg, ids) ==
  [seg EXCEPT !.response_ids = @ \o ids,
              !.loss_mask = @ \o Repeated(1, Len(ids)),
              !.rollout_log_probs = @ \o ids,
              !.output_spans = @ \cup {<<Len(seg.response_ids), Len(seg.response_ids) + Len(ids)>>}]

\* The prompt of the next turn against prompt + response so far.
Stitched(seg, prompt) ==
  IF ~IsPrefix(seg.prompt_ids, prompt) THEN EmptySegment(prompt)
  ELSE LET suffix == SubSeq(prompt, Len(seg.prompt_ids) + 1, Len(prompt))
           matched == CommonPrefixLen(seg.response_ids, suffix)
       IN  WithContext(Truncated(seg, matched), SubSeq(suffix, matched + 1, Len(suffix)))

\* The turns, one after another; the first starts the segment with its prompt.
MergeTurns(turns) ==
  LET merged[n \in DOMAIN turns] ==
        WithOutput(IF n = 1 THEN EmptySegment(turns[1].prompt_ids)
                   ELSE Stitched(merged[n - 1], turns[n].prompt_ids),
                   turns[n].output_ids)
  IN  merged[Len(turns)]

\* merge_turn_segments: every segment that has a response.
MergeTurnSegments(segments) ==
  LET out[n \in 0 .. Len(segments)] ==
        IF n = 0 THEN << >>
        ELSE LET tokens == MergeTurns(segments[n].turns)
             IN  IF tokens.response_ids = << >> THEN out[n - 1]
                 ELSE Append(out[n - 1], [kind |-> segments[n].kind, turns |-> segments[n].turns,
                                          tokens |-> tokens])
  IN  out[Len(segments)]

-----------------------------------------------------------------------------
(* What a merged segment is to be, said without the replay.                *)

\* An output is kept if every later prompt of the segment contains it, in the
\* place where it was generated.
Kept(turns, i) ==
  \A j \in i + 1 .. Len(turns) :
    IsPrefix(turns[i].prompt_ids \o turns[i].output_ids, turns[j].prompt_ids)

\* A segment reads as the last turn did, and trains on exactly the outputs that
\* are kept: each of its tokens follows the tokens it was generated from, and
\* has the log-prob it was generated with.
Faithful(segment, turns) ==
  LET ids == segment.prompt_ids \o segment.response_ids
      p == Len(segment.prompt_ids)
      last == turns[Len(turns)]
      Places(i) == Len(turns[i].prompt_ids) + 1 .. Len(turns[i].prompt_ids) + Len(turns[i].output_ids)
      trained == UNION {Places(i) : i \in {j \in DOMAIN turns : Kept(turns, j)}}
  IN  /\ ids = last.prompt_ids \o last.output_ids
      /\ Len(segment.loss_mask) = Len(segment.response_ids)
      /\ {k \in DOMAIN ids : k > p /\ segment.loss_mask[k - p] = 1} = trained
      /\ \A k \in DOMAIN segment.response_ids :
           segment.rollout_log_probs[k] =
             IF segment.loss_mask[k] = 1 THEN segment.response_ids[k] ELSE NoProb
=============================================================================
