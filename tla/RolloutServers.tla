---------------------------- MODULE RolloutServers ----------------------------
(***************************************************************************)
(* Where the rollout engines are placed and which addresses they get:      *)
(* start_rollout_servers, ServerGroup.start_engines and                    *)
(* RolloutServer.recover of slime/ray/rollout.py, on the placement group   *)
(* of slime/ray/placement_group.py.                                        *)
(*                                                                         *)
(* The groups of a model are started one after the other, and their        *)
(* servers come up together: what a group was promised is not yet in use   *)
(* when the next one asks for free ports.  An encoder group is waited for  *)
(* at once, and a model before the next one is started.  When engines have *)
(* died, recover() starts the missing ones among those that still serve.   *)
(*                                                                         *)
(* A GPU is its place in the sorted placement group.  A step is the start  *)
(* of a group (its calls are waited for one by one), a server that comes   *)
(* up, or the end of a ray.get.                                            *)
(***************************************************************************)
EXTENDS Integers, Sequences, FiniteSets, FiniteSetsExt, SequencesExt

CONSTANTS
  Layouts,                \* clusters and sglang configs
  FirstPort,              \* 15000
  DistPorts,              \* 30 + args.sglang_dp_size
  MaxKills                \* bound: engines the health monitor kills

WorkerTypes == {"regular", "prefill", "decode", "encoder", "placeholder"}

\* The groups of the sglang config.  Engines fill nodes, or nodes hold whole engines.
GroupConfigs(l) ==
  {c \in [worker_type : WorkerTypes, num_gpus : Nat \ {0}, num_gpus_per_engine : Nat \ {0}] :
     \/ l.num_gpus_per_node % c.num_gpus_per_engine = 0
     \/ c.num_gpus_per_engine % l.num_gpus_per_node = 0}

\* args.num_gpus_per_node, the bundles on each node in the order of the nodes'
\* addresses, the GPUs of the actor, --colocate, --offload-rollout, the ports other
\* programs hold on every node, and the models with their server groups.
ASSUME LayoutAssumption ==
  /\ FirstPort \in Nat /\ DistPorts \in Nat \ {0} /\ MaxKills \in Nat
  /\ \A l \in Layouts :
       /\ l.num_gpus_per_node \in Nat \ {0} /\ l.actor_gpus \in Nat
       /\ l.nodes \in Seq(0 .. l.num_gpus_per_node)
       /\ l.colocate \in BOOLEAN /\ l.offload_rollout \in BOOLEAN /\ l.dp_attention \in BOOLEAN
       /\ l.busy \subseteq Nat /\ IsFiniteSet(l.busy)
       /\ l.models \in Seq([update_weights : BOOLEAN, groups : Seq(GroupConfigs(l))]) \ {<< >>}

VARIABLES
  layout,
  phase,                     \* "start", "recover", "run" or "raised"
  plan,                   \* batches of groups that are still to be started
  todo,                   \* the groups a recovery has still to look at
  groups,                 \* the ServerGroups, of all models
  all_engines,            \* all_engines[k][i + 1]: engine i of groups[k], or NoEngine
  engine_offset,
  gpu_offset,
  port_cursors,           \* node index -> next free port
  kills

serversVars == <<layout, phase, plan, todo, groups, all_engines, engine_offset, gpu_offset,
                 port_cursors, kills>>

-----------------------------------------------------------------------------
(* The placement group and the groups in it. *)

\* The nodes of the bundles, sorted by node and GPU.
Bundles == FlattenSeq([n \in DOMAIN layout.nodes |-> [b \in 1 .. layout.nodes[n] |-> n]])

RolloutOffset == IF layout.colocate THEN 0 ELSE layout.actor_gpus
NodeOfGpu(gpu) == Bundles[RolloutOffset + gpu + 1]

LocalGpus(c) == Min({c.num_gpus_per_engine, layout.num_gpus_per_node})
NodesPerEngine(c) == Max({1, c.num_gpus_per_engine \div layout.num_gpus_per_node})
EnginesPerNode(c) == Max({1, layout.num_gpus_per_node \div c.num_gpus_per_engine})

\* Groups that are started together.  The encoders are started first, and each alone.
StartBatches(cs) ==
  LET encoder(j) == cs[j].worker_type = "encoder"
      alone  == FlattenSeq([j \in DOMAIN cs |-> IF encoder(j) THEN << <<cs[j]>> >> ELSE << >>])
      others == FlattenSeq([j \in DOMAIN cs |-> IF encoder(j) THEN << >> ELSE <<cs[j]>>])
  IN  IF alone = << >> THEN <<cs>> ELSE Append(alone, others)

Plan(models) ==
  FlattenSeq([m \in DOMAIN models |->
    LET batches == StartBatches(models[m].groups)
    IN  [b \in DOMAIN batches |-> [model |-> m, groups |-> batches[b]]]])

\* --prefill-num-servers.
FromPrefillNumServers(servers, total, per_engine) ==
  << [worker_type |-> "prefill", num_gpus |-> servers * per_engine,
      num_gpus_per_engine |-> per_engine],
     [worker_type |-> "decode", num_gpus |-> total - servers * per_engine,
      num_gpus_per_engine |-> per_engine] >>

NumEngines(c) == c.num_gpus \div LocalGpus(c)

\* The GPUs a group takes from the ones behind it; without those it only reserves.
GpusStarted(c) == IF c.worker_type = "placeholder" THEN 0 ELSE c.num_gpus
GpusTaken(c) == c.num_gpus

MakeGroup(c, model) ==
  [model |-> model, worker_type |-> c.worker_type, num_gpus |-> c.num_gpus,
   num_gpus_per_engine |-> c.num_gpus_per_engine, rank_offset |-> engine_offset,
   gpu_offset |-> gpu_offset,
   needs_offload |-> layout.offload_rollout /\ RolloutOffset + gpu_offset < layout.actor_gpus]

NoEngine == [status |-> "none", ports |-> {}]

\* The engine actor of local rank i runs where its first GPU is.
GpuOf(g, i) == g.gpu_offset + i * LocalGpus(g)
NodeOf(g, i) == NodeOfGpu(GpuOf(g, i))
NodeRank(g, i) == (g.rank_offset + i) % NodesPerEngine(g)

-----------------------------------------------------------------------------
(* Free ports. *)

Bound(node) ==
  layout.busy \cup
    UNION {UNION {all_engines[k][s].ports : s \in {s \in DOMAIN all_engines[k] :
                                                    NodeOf(groups[k], s - 1) = node}} :
           k \in DOMAIN groups}

\* get_free_port.  Behind the last bound port every port is free.
FreePort(node, start, consecutive) ==
  LET bound == Bound(node)
  IN  Min({p \in start .. Max(bound \cup {start}) + 1 : (p .. p + consecutive - 1) \cap bound = {}})

\* The ports of requests of the given widths, each behind the one before.
Draw(node, start, widths) ==
  LET port[n \in DOMAIN widths] ==
        FreePort(node, IF n = 1 THEN start ELSE port[n - 1] + widths[n - 1], widths[n])
  IN  port

NodeIndex(g, i) == i \div EnginesPerNode(g)
PortsEach(g) == IF g.worker_type = "prefill" THEN 3 ELSE 2

\* What is asked of the node of local rank i, the first new engine with its node
\* index: the ports of all engines with the index from i on, then the ports of the
\* distributed initialization of each, or of an engine of several nodes.
Widths(g, i) ==
  LET here == EnginesPerNode(g) - (i % EnginesPerNode(g))
  IN  [n \in 1 .. here * PortsEach(g) |-> 1] \o
      (IF NodesPerEngine(g) = 1 THEN [n \in 1 .. here |-> DistPorts]
       ELSE IF i % NodesPerEngine(g) = 0 THEN <<DistPorts>> ELSE << >>)

FirstAt(g, new, x) == Min({i \in new : NodeIndex(g, i) = x})

\* The address of local rank i out of the ports drawn for each node index.
Address(g, new, drawn, i) ==
  LET x     == NodeIndex(g, i)
      first == FirstAt(g, new, x)
      nth   == i - first
      head  == i - (i % NodesPerEngine(g))
      at    == PortsEach(g) * nth
      here  == EnginesPerNode(g) - (first % EnginesPerNode(g))
  IN  [host |-> NodeOf(g, first),
       ports |-> {drawn[x][at + n] : n \in 1 .. PortsEach(g)},
       dist |-> IF NodesPerEngine(g) = 1
                THEN [host |-> NodeOf(g, first), port |-> drawn[x][PortsEach(g) * here + nth + 1]]
                ELSE [host |-> NodeOf(g, head), port |-> Last(drawn[head])]]

\* _allocate_rollout_engine_addr_and_ports_normal for the new engines of group g:
\* their addresses, and the cursors it returns.
Allocate(g, new, base_port) ==
  LET indices == {NodeIndex(g, i) : i \in new}
      widths  == [x \in indices |-> Widths(g, FirstAt(g, new, x))]
      drawn   == [x \in indices |-> Draw(NodeOf(g, FirstAt(g, new, x)), base_port, widths[x])]
  IN  [addr |-> [i \in new |-> Address(g, new, drawn, i)],
       cursors |-> [x \in indices |-> Last(drawn[x]) + Last(widths[x])]]

\* Every group searches from the first port.
BasePortFirst(cursors) == FirstPort

\* "the maximum cursor across all nodes that this group's engines may land on"
BasePort(cursors) ==
  IF DOMAIN cursors = {} THEN FirstPort ELSE Max({cursors[x] : x \in DOMAIN cursors})

-----------------------------------------------------------------------------
(* Starting and restarting. *)

ServersInit ==
  /\ layout \in Layouts
  /\ phase = "start"
  /\ plan = Plan(layout.models)
  /\ todo = {}
  /\ groups = << >>
  /\ all_engines = << >>
  /\ engine_offset = 0 /\ gpu_offset = 0
  /\ port_cursors = << >>
  /\ kills = 0

\* The job is started again on the same cluster.
Restart ==
  /\ phase' = "start"
  /\ plan' = Plan(layout.models)
  /\ todo' = {}
  /\ groups' = << >>
  /\ all_engines' = << >>
  /\ engine_offset' = 0 /\ gpu_offset' = 0
  /\ port_cursors' = << >>

\* ServerGroup.start_engines, for the engines of a group that are missing.
Started(g, slots) ==
  LET new == {i \in 0 .. Len(slots) - 1 : slots[i + 1] = NoEngine}
  IN  IF new = {} THEN [slots |-> slots, cursors |-> port_cursors]
      ELSE LET given == Allocate(g, new, BasePort(port_cursors))
           IN  [slots |-> [s \in DOMAIN slots |->
                             IF s - 1 \in new
                             THEN [status |-> "init", ports |-> {}, addr |-> given.addr[s - 1]]
                             ELSE slots[s]],
                cursors |-> given.cursors]

\* validate_server_group_gpu_indices.
Fits(g, slots) ==
  slots # << >> => RolloutOffset + g.gpu_offset + Len(slots) * LocalGpus(g) <= Len(Bundles)

\* The slots of a group.
NewSlots(c) ==
  IF c.worker_type = "placeholder" THEN << >> ELSE [s \in 1 .. NumEngines(c) |-> NoEngine]

StartGroup ==
  /\ phase = "start" /\ Head(plan).groups # << >>
  /\ LET c == Head(Head(plan).groups)
         g == MakeGroup(c, Head(plan).model)
     IN  /\ Fits(g, NewSlots(c))
         /\ \E started \in {Started(g, NewSlots(c))} :
              /\ groups' = Append(groups, g)
              /\ all_engines' = Append(all_engines, started.slots)
              /\ port_cursors' = started.cursors
         /\ engine_offset' = engine_offset + NumEngines(c)
         /\ gpu_offset' = gpu_offset + GpusTaken(c)
  /\ plan' = [plan EXCEPT ![1].groups = Tail(@)]
  /\ UNCHANGED <<layout, phase, todo, kills>>

\* The ValueError.
StartRefused ==
  /\ phase = "start" /\ Head(plan).groups # << >>
  /\ LET c == Head(Head(plan).groups)
     IN  ~Fits(MakeGroup(c, Head(plan).model), NewSlots(c))
  /\ phase' = "raised"
  /\ UNCHANGED <<layout, plan, todo, groups, all_engines, engine_offset, gpu_offset, port_cursors,
                 kills>>

AllWith(status) == \A k \in DOMAIN groups : \A s \in DOMAIN all_engines[k] : all_engines[k][s].status = status
Failed == \E k \in DOMAIN groups : \E s \in DOMAIN all_engines[k] : all_engines[k][s].status = "failed"

\* ray.get of the engines of a batch.
BatchServes ==
  /\ phase = "start" /\ Head(plan).groups = << >>
  /\ AllWith("up")
  /\ plan' = Tail(plan)
  /\ phase' = IF Tail(plan) = << >> THEN "run" ELSE "start"
  /\ port_cursors' = IF Tail(plan) # << >> /\ Head(Tail(plan)).model = Head(plan).model
                     THEN port_cursors ELSE << >>
  /\ UNCHANGED <<layout, todo, groups, all_engines, engine_offset, gpu_offset, kills>>

\* SGLangEngine.init: the server binds its ports on the node it runs on, the first node
\* of an engine the port of the distributed initialization as well, and those behind it
\* for data-parallel attention.  The first node is waited for until the engine answers, which
\* takes all of its nodes.
Launch(k, i) ==
  /\ all_engines[k][i + 1].status = "init"
  /\ LET g    == groups[k]
         a    == all_engines[k][i + 1].addr
         node == NodeOf(g, i)
         head == NodeRank(g, i) = 0
         rest == {s \in DOMAIN all_engines[k] :
                    s # i + 1 /\ (s - 1) \div NodesPerEngine(g) = i \div NodesPerEngine(g)}
     IN  /\ head => \A s \in rest : all_engines[k][s].status = "up"
         /\ \E n \in {IF ~head THEN 0 ELSE IF layout.dp_attention THEN DistPorts ELSE 1} :
              LET ports == a.ports \cup (a.dist.port .. a.dist.port + n - 1)
                  fails == \/ a.host # node
                           \/ head /\ a.dist.host # node
                           \/ Cardinality(ports) < Cardinality(a.ports) + n
                           \/ ports \cap Bound(node) # {}
              IN  all_engines' = [all_engines EXCEPT ![k][i + 1] =
                                    IF fails THEN [@ EXCEPT !.status = "failed"]
                                    ELSE [@ EXCEPT !.status = "up", !.ports = ports]]
  /\ UNCHANGED <<layout, phase, plan, todo, groups, engine_offset, gpu_offset, port_cursors, kills>>

\* The ray.get raises.
InitRaises ==
  /\ phase \in {"start", "recover"}
  /\ Failed
  /\ phase' = "raised"
  /\ UNCHANGED <<layout, plan, todo, groups, all_engines, engine_offset, gpu_offset, port_cursors,
                 kills>>

\* The health monitor kills an engine, on all of its nodes.
Kill(k, e) ==
  /\ phase = "run" /\ kills < MaxKills
  /\ LET slots == {s \in DOMAIN all_engines[k] : (s - 1) \div NodesPerEngine(groups[k]) = e}
     IN  /\ \E s \in slots : all_engines[k][s] # NoEngine
         /\ all_engines' = [all_engines EXCEPT ![k] =
                              [s \in DOMAIN @ |-> IF s \in slots THEN NoEngine ELSE @[s]]]
  /\ kills' = kills + 1
  /\ UNCHANGED <<layout, phase, plan, todo, groups, engine_offset, gpu_offset, port_cursors>>

\* _get_updatable_server: the first model whose weights are updated.
Updatable ==
  LET updated == {m \in DOMAIN layout.models : layout.models[m].update_weights}
  IN  {k \in DOMAIN groups : updated # {} /\ groups[k].model = Min(updated)}

Missing(ks) == \E k \in ks : \E s \in DOMAIN all_engines[k] : all_engines[k][s] = NoEngine

\* RolloutServer.recover, when an engine is missing.
Recover ==
  /\ phase = "run" /\ Missing(Updatable)
  /\ phase' = "recover"
  /\ todo' = Updatable
  /\ port_cursors' = << >>
  /\ UNCHANGED <<layout, plan, groups, all_engines, engine_offset, gpu_offset, kills>>

\* One group after the other, in their order.
RestartGroup ==
  /\ phase = "recover" /\ todo # {}
  /\ LET k == Min(todo)
     IN  /\ \E started \in {Started(groups[k], all_engines[k])} :
              /\ all_engines' = [all_engines EXCEPT ![k] = started.slots]
              /\ port_cursors' = started.cursors
         /\ todo' = todo \ {k}
  /\ UNCHANGED <<layout, phase, plan, groups, engine_offset, gpu_offset, kills>>

Recovered ==
  /\ phase = "recover" /\ todo = {}
  /\ \A k \in Updatable : \A s \in DOMAIN all_engines[k] : all_engines[k][s].status = "up"
  /\ phase' = "run"
  /\ UNCHANGED <<layout, plan, todo, groups, all_engines, engine_offset, gpu_offset, port_cursors,
                 kills>>

\* What the manager and the servers do, and what befalls them.
Serving ==
  \/ StartGroup
  \/ StartRefused
  \/ BatchServes
  \/ \E k \in DOMAIN groups : \E s \in DOMAIN all_engines[k] : Launch(k, s - 1)
  \/ InitRaises

KillOne ==
  \E k \in DOMAIN groups : \E s \in DOMAIN all_engines[k] :
    (s - 1) % NodesPerEngine(groups[k]) = 0 /\ Kill(k, (s - 1) \div NodesPerEngine(groups[k]))

Recovery == Recover \/ RestartGroup \/ Recovered

-----------------------------------------------------------------------------
(* Properties. *)

\* A group whose engines are numbered from the first GPU of a node, through nodes of
\* num_gpus_per_node bundles, or that fits in what is left of its node; and whose
\* ranks start an engine.
FirstOfNode(gpu) ==
  RolloutOffset + gpu = 0 \/ Bundles[RolloutOffset + gpu] # NodeOfGpu(gpu)
Aligned(g) ==
  LET last == g.gpu_offset + NumEngines(g) * LocalGpus(g) - 1
  IN  /\ \/ NodeOfGpu(g.gpu_offset) = NodeOfGpu(last)
         \/ /\ FirstOfNode(g.gpu_offset)
            /\ \A n \in NodeOfGpu(g.gpu_offset) .. NodeOfGpu(last) - 1 :
                 layout.nodes[n] = layout.num_gpus_per_node
      /\ g.rank_offset % NodesPerEngine(g) = 0

\* "so that different server groups never race for the same ports on a given node":
\* in an aligned group, whatever the order in which the servers come up and whichever
\* are restarted, a server finds its ports free, on the node its address names.
AddressesHold ==
  \A k \in DOMAIN groups : \A s \in DOMAIN all_engines[k] :
    all_engines[k][s].status = "failed" => ~Aligned(groups[k])

\* For every cluster and configuration.
AddressesAlwaysHold == ~Failed

\* RolloutServer.engines: the entries the weight update and the monitor call.
Engines(k) == {i \in 0 .. Len(all_engines[k]) - 1 : i % NodesPerEngine(groups[k]) = 0}

GpusOf(k, i) == GpuOf(groups[k], i) .. GpuOf(groups[k], i) + LocalGpus(groups[k]) - 1

Reserved(k) == groups[k].gpu_offset .. groups[k].gpu_offset + groups[k].num_gpus - 1

\* Every GPU of the rollout has one engine at most, and none that a placeholder keeps
\* free; the GPUs of an engine are on its node; the GPUs that are shared with the
\* training are given back in between.  The engines that are called are the first
\* nodes of theirs, and engine_gpu_offsets are their first GPUs.
PlacementSound ==
  /\ \A k1, k2 \in DOMAIN groups : k1 # k2 => Reserved(k1) \cap Reserved(k2) = {}
  /\ \A k \in DOMAIN groups : \A s1, s2 \in DOMAIN all_engines[k] :
       /\ GpusOf(k, s1 - 1) \subseteq Reserved(k)
       /\ s1 # s2 => GpusOf(k, s1 - 1) \cap GpusOf(k, s2 - 1) = {}
  /\ \A k \in DOMAIN groups : \A s \in DOMAIN all_engines[k] : \A gpu \in GpusOf(k, s - 1) :
       /\ RolloutOffset + gpu < Len(Bundles)
       /\ Aligned(groups[k]) => NodeOfGpu(gpu) = NodeOf(groups[k], s - 1)
       /\ layout.offload_rollout /\ RolloutOffset + gpu < layout.actor_gpus => groups[k].needs_offload
  /\ \A k \in DOMAIN groups : \A i \in Engines(k) :
       LET j == i \div NodesPerEngine(groups[k])
       IN  /\ Aligned(groups[k]) => NodeRank(groups[k], i) = 0
           /\ GpuOf(groups[k], i) = groups[k].gpu_offset + j * groups[k].num_gpus_per_engine
=============================================================================
