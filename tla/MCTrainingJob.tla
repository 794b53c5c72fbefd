---------------------------- MODULE MCTrainingJob ----------------------------
(* Instances of TrainingJob: one setting for each way the arguments change *)
(* what the drivers do, each on a cluster of its own, of nodes of 4 GPUs   *)
(* that stand for nodes of 8.                                              *)
EXTENDS TrainingJob

Sync == [async |-> FALSE, colocate |-> FALSE, interval |-> 1, saveEvery |-> 2,
         withRef |-> FALSE, refEvery |-> 0, keepOld |-> FALSE,
         critic |-> FALSE, criticOnly |-> 0, asyncSave |-> FALSE]
Async(k) == [Sync EXCEPT !.async = TRUE, !.interval = k]

Group(type, num_gpus, per_engine) ==
  [worker_type |-> type, num_gpus |-> num_gpus, num_gpus_per_engine |-> per_engine]
Model(update, gs) == [update_weights |-> update, groups |-> gs]

\* The rollout behind the GPUs of the actor, or on them.
Cluster(nodes, actor, served) ==
  [num_gpus_per_node |-> 4, nodes |-> nodes, actor_gpus |-> actor, colocate |-> FALSE,
   offload_rollout |-> FALSE, dp_attention |-> Len(served[1].groups) > 1, busy |-> {1, 4}, models |-> served]
Colocated(nodes, actor, served) ==
  [Cluster(nodes, actor, served) EXCEPT !.colocate = TRUE, !.offload_rollout = TRUE]

OneGroup(type, num_gpus, per_engine) == <<Model(TRUE, <<Group(type, num_gpus, per_engine)>>)>>

MCJobs == {
  \* One group over two nodes; two groups on one node; one of a single engine.
  <<Sync, Cluster(<<4, 4>>, 0, OneGroup("regular", 8, 2))>>,
  <<Async(1), Cluster(<<4>>, 0, <<Model(TRUE, FromPrefillNumServers(2, 4, 1))>>)>>,
  <<[Sync EXCEPT !.asyncSave = TRUE, !.saveEvery = 1], Cluster(<<4>>, 0, OneGroup("regular", 4, 4))>>,
  \* Three groups on a node, one of them a placeholder, behind the node of the actor.
  <<Async(2), Cluster(<<4, 4>>, 4, <<Model(TRUE, <<Group("regular", 2, 1), Group("placeholder", 1, 1),
                                                   Group("regular", 1, 1)>>)>>)>>,
  \* A trained and a frozen model, which share a node and its GPUs with the training.
  <<[Sync EXCEPT !.colocate = TRUE, !.withRef = TRUE, !.refEvery = 2],
    Colocated(<<4>>, 4, <<Model(TRUE, <<Group("regular", 2, 1)>>),
                          Model(FALSE, <<Group("regular", 2, 1)>>)>>)>>,
  \* Encoders are started first; engines of two nodes, alone and behind others.
  <<[Sync EXCEPT !.critic = TRUE, !.criticOnly = 1],
    Cluster(<<4>>, 0, <<Model(TRUE, <<Group("regular", 2, 2), Group("encoder", 2, 1)>>)>>)>>,
  <<[Async(1) EXCEPT !.keepOld = TRUE, !.withRef = TRUE],
    Cluster(<<4, 4, 4>>, 0, <<Model(TRUE, <<Group("prefill", 8, 8), Group("decode", 4, 4)>>)>>)>>,
  <<[Async(2) EXCEPT !.keepOld = TRUE],
    Cluster(<<4, 4, 4, 4>>, 0, <<Model(TRUE, <<Group("prefill", 8, 4), Group("decode", 8, 8)>>)>>)>>,
  <<[Async(2) EXCEPT !.critic = TRUE, !.criticOnly = 2, !.saveEvery = 1],
    Cluster(<<2, 2>>, 2, OneGroup("regular", 2, 2))>>,
  <<[Async(1) EXCEPT !.asyncSave = TRUE, !.critic = TRUE, !.saveEvery = 1],
    Cluster(<<4>>, 2, OneGroup("regular", 2, 1))>>,
  \* The example of SglangConfig, with half the GPUs on half the node.
  <<Sync, Cluster(<<4, 4>>, 0, <<Model(TRUE, <<Group("prefill", 2, 1), Group("decode", 4, 2)>>),
                                 Model(FALSE, <<Group("regular", 2, 2)>>)>>)>>,
  \* An engine of two nodes behind an engine of one; a rollout that starts within a node;
  \* a node with fewer GPUs in front.
  <<Sync, Cluster(<<4, 4, 4>>, 0, <<Model(TRUE, <<Group("prefill", 4, 4), Group("decode", 8, 8)>>)>>)>>,
  <<Sync, Cluster(<<4, 4>>, 2, OneGroup("regular", 6, 2))>>,
  <<Sync, Cluster(<<2, 4>>, 0, OneGroup("regular", 6, 2))>>,
  \* Fewer GPUs than the groups ask for.
  <<Sync, Cluster(<<4>>, 0, <<Model(TRUE, <<Group("regular", 3, 1), Group("regular", 2, 2)>>)>>)>> }

MCSettings == {job[1] : job \in MCJobs}
MCLayouts  == {job[2] : job \in MCJobs}

Unaligned     == {job \in MCJobs : job[2] = Cluster(<<4, 4>>, 2, OneGroup("regular", 6, 2))}
WithReference == {<<[Sync EXCEPT !.withRef = TRUE], Cluster(<<4>>, 0, OneGroup("regular", 4, 4))>>}
KeepingOld    == {<<[Sync EXCEPT !.keepOld = TRUE], Cluster(<<4>>, 0, OneGroup("regular", 4, 4))>>}
=============================================================================
