---------------------------- MODULE RoutingReplay ----------------------------
(***************************************************************************)
(* slime/utils/routing_replay.py: the experts that a mixture-of-experts    *)
(* layer chose for each micro-batch, kept so that later passes over the    *)
(* same micro-batches choose the same.  A replay is what one layer of one  *)
(* rank holds; all layers of a rank go through the same calls.             *)
(*                                                                         *)
(* A pass visits its micro-batches in order, and so does the recomputation *)
(* of their activations in the backward pass, however the pipeline         *)
(* interleaves the two: each of them has an index of its own, so n calls   *)
(* of pop_forward or pop_backward are one operation here.                  *)
(***************************************************************************)
EXTENDS Integers, Sequences

NewReplay == [top_indices_list |-> << >>, forward_index |-> 0, backward_index |-> 0]

Record(replay, top_indices) ==
  [replay EXCEPT !.top_indices_list = Append(@, top_indices)]

\* What n pops return: less than n when the list ends, where the code raises.
Popped(replay, index, n) ==
  LET known == Len(replay.top_indices_list)
  IN  SubSeq(replay.top_indices_list, index + 1, IF index + n <= known THEN index + n ELSE known)

PopForward(replay, n) == [replay EXCEPT !.forward_index = @ + n]
PopBackward(replay, n) == [replay EXCEPT !.backward_index = @ + n]

ClearForward(replay) == [replay EXCEPT !.forward_index = 0]

Clear(replay) == NewReplay
=============================================================================
