----------------------------- MODULE Advantages -----------------------------
(***************************************************************************)
(* The advantage estimators of slime/utils/ppo_utils.py, over integers:    *)
(* they are polynomials in their inputs, so that gamma and lambd may be    *)
(* small integers here.                                                    *)
(***************************************************************************)
EXTENDS ContextParallel

PaddedInFront(row, n) == Repeat(0, n - Len(row)) \o row

\* Rows of a batch are padded at the end.
Padded(row, n) == row \o Repeat(0, n - Len(row))

\* delta[t] = r[t] + gamma * V[t+1] - V[t], with no value after the last.
Deltas(rewards, values, gamma) ==
  [t \in 1 .. Len(rewards) |->
    rewards[t] + (IF t < Len(values) THEN gamma * values[t + 1] ELSE 0) - values[t]]

\* The recursion of get_advantages_and_returns and of vanilla_gae.
VanillaGae(rewards, values, gamma, lambd) ==
  LET delta == Deltas(rewards, values, gamma)
      T == Len(rewards)
      gae[t \in 1 .. T + 1] == IF t = T + 1 THEN 0 ELSE delta[t] + gamma * lambd * gae[t + 1]
  IN  [t \in 1 .. T |-> gae[t]]

\* chunked_gae: a scan of the reversed deltas inside chunks of chunk_size, and
\* the state that one chunk hands to the next.
ChunkedGae(rewards, values, gamma, lambd, chunk_size) ==
  LET T == Len(rewards)
      pad == (chunk_size - (T % chunk_size)) % chunk_size
      deltas_rev == Reverse(Deltas(rewards, values, gamma)) \o Repeat(0, pad)
      n_chunks == (T + pad) \div chunk_size
      w == gamma * lambd
      LocalScan(c, t) ==
        FoldFunction(+, 0, [k \in 0 .. t |-> w ^ (t - k) * deltas_rev[c * chunk_size + k + 1]])
      Length(c) == IF c = n_chunks - 1 THEN chunk_size - pad ELSE chunk_size
      s_prev[c \in 0 .. n_chunks] ==
        IF c = 0 THEN 0
        ELSE LET last == Length(c - 1) - 1
             IN  LocalScan(c - 1, last) + w ^ (last + 1) * s_prev[c - 1]
      S_rev == [i \in 1 .. T |->
        LET c == (i - 1) \div chunk_size
            t == (i - 1) % chunk_size
        IN  LocalScan(c, t) + w ^ (t + 1) * s_prev[c]]
  IN  Reverse(S_rev)

\* What compute_advantages_and_returns makes of rank r's kl for "ppo".
RewardAtEnd(kl, reward, kl_coef, r) ==
  [t \in 1 .. Len(kl) |-> -kl_coef * kl[t] + (IF r = 0 /\ t = Len(kl) THEN reward ELSE 0)]

\* get_reinforce_plus_plus_returns, on the whole response.
DiscountedReturns(kl, mask, reward, kl_coef, gamma) ==
  LET T == Len(kl)
      last == CHOOSE t \in 1 .. T : mask[t] = 1 /\ \A u \in t + 1 .. T : mask[u] = 0
      token_level(t) == -kl_coef * kl[t] * mask[t] + (IF t = last THEN reward ELSE 0)
      running[t \in 1 .. T + 1] == IF t = T + 1 THEN 0 ELSE token_level(t) + gamma * running[t + 1]
  IN  [t \in 1 .. T |-> running[t]]
=============================================================================
