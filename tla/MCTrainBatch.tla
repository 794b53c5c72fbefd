---------------------------- MODULE MCTrainBatch ----------------------------
(* Model checking of TrainBatch: a set of small rollouts, each trained     *)
(* under every one of a set of arguments.                                  *)
EXTENDS TrainBatch

MCKl(i, p) == (i + 2 * p) % 3
MCValue(i, p) == (i * p + 1) % 4

S(index, group, prompt, mask, reward) ==
  [index |-> index, group_id |-> group, prompt_length |-> prompt, response_length |-> Len(mask),
   loss_mask |-> mask, remove_sample |-> FALSE, reward |-> reward]
Removed(s) == [s EXCEPT !.remove_sample = TRUE]

\* Two prompts with two rollouts each.
Plain == << << <<S(1, 0, 1, <<1, 1>>, 1)>>, <<S(2, 0, 1, <<1, 0, 1, 1>>, 0)>> >>,
            << <<S(3, 0, 2, <<1, 1, 1>>, 2)>>, <<S(4, 0, 2, <<1>>, 1)>> >> >>
\* Two are removed, which are all that one of the ranks gets.
WithRemoved == [Plain EXCEPT ![1][1][1] = Removed(@), ![2][2][1] = Removed(@)]
\* Rollouts that are split into several samples, and a prompt that is left over.
Compact == << << <<S(1, 11, 1, <<1, 1, 1>>, 1), S(2, 11, 3, <<1, 0, 1>>, 1)>>,
                 <<S(3, 12, 2, <<1, 1>>, 0)>> >>,
              << <<S(4, 13, 1, <<1, 1, 1, 1>>, 2)>>,
                 <<S(5, 14, 1, <<1>>, 3), S(6, 14, 2, <<0, 1>>, 3), S(7, 14, 4, <<1, 1>>, 3)>> >>,
              << <<S(8, 15, 2, <<1, 1>>, 1)>> >> >>
Unannotated == [Compact EXCEPT ![2][2][2].group_id = 0]
\* The last token of each response is in the second chunk of context rank 0.
Long == << << <<S(1, 0, 3, <<1, 1, 1, 1, 1>>, 1)>>, <<S(2, 0, 1, <<1, 0, 1, 1, 1, 0, 1>>, 0)>> >>,
           << <<S(3, 0, 2, <<1, 1, 1, 1, 1, 1>>, 2)>>, <<S(4, 0, 6, <<1, 1, 1, 0, 1, 1>>, 1)>> >> >>

Defaults == [dp_size |-> 2, cp_size |-> 1, mb_group |-> 1, global_batch_size |-> 2,
             dynamic |-> TRUE, max_tokens_per_gpu |-> 8, micro_batch_size |-> 1,
             balance_data |-> FALSE, layout |-> "thd", estimator |-> "grpo",
             normalize_advantages |-> FALSE, rollout_batch_size |-> 2,
             n_samples_per_prompt |-> 2, gamma |-> 2, lambd |-> 3, kl_coef |-> 1,
             per_token |-> FALSE, routing |-> "none", recompute |-> FALSE]

WithCp(a) == [a EXCEPT !.cp_size = 2, !.max_tokens_per_gpu = 4]
Estimated(a, estimator) ==
  [a EXCEPT !.estimator = estimator,
            !.normalize_advantages = estimator \in {"reinforce_plus_plus", "reinforce_plus_plus_baseline"}]

ManyArgs ==
  {Defaults,
   WithCp(Defaults),
   [WithCp(Defaults) EXCEPT !.layout = "allgather", !.balance_data = TRUE],
   [Defaults EXCEPT !.balance_data = TRUE, !.global_batch_size = 4],
   [Defaults EXCEPT !.mb_group = 2, !.global_batch_size = 4],
   [Defaults EXCEPT !.dynamic = FALSE],
   [WithCp(Defaults) EXCEPT !.dynamic = FALSE, !.layout = "bshd"],
   [WithCp(Defaults) EXCEPT !.per_token = TRUE],
   Estimated(Defaults, "ppo"),
   Estimated([Defaults EXCEPT !.dynamic = FALSE, !.layout = "bshd"], "ppo"),
   Estimated(Defaults, "reinforce_plus_plus"),
   Estimated(Defaults, "reinforce_plus_plus_baseline")}

\* Experts that are recorded or come with the rollout, with and without
\* recomputation of the activations.
Routed(a, routing, recompute) == [a EXCEPT !.routing = routing, !.recompute = recompute]
RoutedArgs ==
  {Routed(Defaults, "record", TRUE),
   Routed([WithCp(Defaults) EXCEPT !.layout = "allgather"], "record", TRUE),
   Routed(WithCp(Defaults), "rollout", TRUE),
   Routed([Defaults EXCEPT !.dynamic = FALSE], "rollout", FALSE),
   Routed([WithCp(Defaults) EXCEPT !.dynamic = FALSE, !.layout = "bshd"], "rollout", TRUE)}

\* Estimators that move data between the context ranks.
CpArgs ==
  {Estimated(WithCp(Defaults), "ppo"),
   Estimated(WithCp(Defaults), "reinforce_plus_plus"),
   Estimated([WithCp(Defaults) EXCEPT !.layout = "allgather"], "reinforce_plus_plus_baseline")}

MCRollouts ==
  [args : ManyArgs, output : {Plain, WithRemoved, Compact, Unannotated, Long}]
    \cup [args : CpArgs, output : {Long}]
    \cup [args : RoutedArgs, output : {Plain, Compact}]
    \cup [args : {[Defaults EXCEPT !.global_batch_size = n] : n \in {1, 8}}, output : {Plain, Compact}]

\* Context parallelism with responses whose last token is not on context rank 0.
Short == << << <<S(1, 0, 1, <<1, 1>>, 1)>>, <<S(2, 0, 1, <<1, 0, 1, 1>>, 0)>> >>,
            << <<S(3, 0, 2, <<1, 1, 1>>, 2)>>, <<S(4, 0, 1, <<1, 1>>, 1)>> >> >>
\* A response of one token, which no chunk of context rank 1 holds, and a longer one.
Uneven == << << <<S(1, 0, 1, <<1>>, 1)>> >>, << <<S(2, 0, 2, <<1, 1, 1, 1, 1>>, 0)>> >> >>
UnevenRollouts ==
  [args : {[Estimated(WithCp(Defaults), "reinforce_plus_plus_baseline")
              EXCEPT !.n_samples_per_prompt = 1]},
   output : {Uneven}]
ShortRollouts == [args : {Estimated(WithCp(Defaults), "ppo")}, output : {Short}]
=============================================================================
