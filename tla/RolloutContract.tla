-------------------------- MODULE RolloutContract --------------------------
(***************************************************************************)
(* What a rollout function promises to the training loop, whichever way it *)
(* is implemented (slime/rollout/base_types.py; train.py and               *)
(* train_async.py call generate once per step): every rollout delivers     *)
(* exactly a batch of groups that were read from the data source, none of  *)
(* them was delivered before, and a group that was given up stays out.     *)
(***************************************************************************)
EXTENDS Integers, FiniteSets

CONSTANT BatchSize      \* args.rollout_batch_size

VARIABLES
  issued,               \* the groups read from the data source
  trained,              \* those delivered to training
  dropped,              \* those given up
  rollouts              \* rollouts that have returned

contractVars == <<issued, trained, dropped, rollouts>>

ContractInit ==
  /\ issued = {}
  /\ trained = {}
  /\ dropped = {}
  /\ rollouts = 0

Read ==
  /\ issued \subseteq issued'
  /\ UNCHANGED <<trained, dropped, rollouts>>

GiveUp ==
  /\ dropped \subseteq dropped'
  /\ dropped' \subseteq issued \ trained
  /\ UNCHANGED <<issued, trained, rollouts>>

\* What is over when the batch is full may be given up with it.
Deliver ==
  /\ trained \subseteq trained'
  /\ Cardinality(trained' \ trained) = BatchSize
  /\ dropped \subseteq dropped'
  /\ trained' \subseteq issued \ dropped'
  /\ dropped' \subseteq issued
  /\ rollouts' = rollouts + 1
  /\ UNCHANGED issued

ContractNext == Read \/ GiveUp \/ Deliver

ContractSpec == ContractInit /\ [][ContractNext]_contractVars
=============================================================================
