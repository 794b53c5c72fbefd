----------------------------- MODULE MCDeltaSync -----------------------------
(* Two source ranks, two engines; rank 0 has two chunks, one of two        *)
(* tensors, and two expert tensors; rank 1 one chunk and one expert.       *)
EXTENDS DeltaSync

MCDense == [r \in Ranks |-> IF r = 0 THEN << <<"a", "b">>, <<"c">> >> ELSE << <<"d">> >>]
MCExperts == [r \in Ranks |-> IF r = 0 THEN <<"x", "y">> ELSE <<"z">>]

W(a, b, c, d, x, y, z) == [a |-> a, b |-> b, c |-> c, d |-> d, x |-> x, y |-> y, z |-> z]
MCBase == W(<<0, 0, 0, 0>>, <<0, 0>>, <<0, 0, 0>>, <<0, 0>>, <<0>>, <<0>>, <<0>>)
MCTrained == {
    W(<<0, 0, 0, 1>>, <<1, 0>>, <<1, 0, 1>>, <<0, 1>>, <<1>>, <<1>>, <<0>>),
    W(<<1, 0, 1, 1>>, <<0, 0>>, <<0, 1, 1>>, <<0, 0>>, <<1>>, <<0>>, <<1>>) }

MCSettings == [transport : {"nccl", "disk"}, encoding : {"indices", "deltas"}]
=============================================================================
