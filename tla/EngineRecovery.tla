--------------------------- MODULE EngineRecovery ---------------------------
(***************************************************************************)
(* Fault tolerance of the rollout engines: the health monitor of           *)
(* slime/utils/health_monitor.py, the recovery in slime/ray/rollout.py,    *)
(* and the weight update of slime/backends/megatron_utils/actor.py, with   *)
(* train.py around them.                                                   *)
(*                                                                         *)
(* Three parties share the list all_engines.  The monitor is a thread that *)
(* sets the entries of unhealthy engines to None.  The rollout manager     *)
(* starts a new engine for every None.  The trainer ranks ask the manager  *)
(* for the list, connect to the engines in it, and push their weights.     *)
(*                                                                         *)
(* A step of the monitor is what it runs between two calls that wait; a    *)
(* step of the manager or of a rank is one remote call or one barrier.     *)
(* There is one group of engines, of the model that is trained.            *)
(***************************************************************************)
EXTENDS Integers, FiniteSets

CONSTANTS
  NumEngines,             \* engines of the group
  NodesPerEngine,         \* ServerGroup.nodes_per_engine
  Ranks,                  \* trainer ranks that connect to engines
  Offload,                \* args.offload_rollout
  MaxRollouts,            \* bound: rollouts in a behaviour
  MaxCrashes              \* bound: engines that crash or hang

ASSUME RecoveryAssumption ==
  /\ NumEngines \in Nat \ {0}
  /\ NodesPerEngine \in Nat \ {0}
  /\ IsFiniteSet(Ranks) /\ 0 \in Ranks
  /\ Offload \in BOOLEAN
  /\ MaxRollouts \in Nat
  /\ MaxCrashes \in Nat

VARIABLES
  pc,                     \* the driver's call
  rollout_id,
  present,                \* the indices of all_engines that are not None
  incarnation,            \* incarnation[s]: engines started at index s so far
  up,                     \* up[s]: the engine's process answers
  resident,               \* resident[e]: what engine e has in GPU memory
  weights,                \* weights[e]: the version of its weights
  crashes,
  dead,                   \* dead_indices of recover()
  num_new_engines,
  rank_pc,
  answer,                 \* answer[r]: what the manager told rank r
  connected,              \* connected[r]: the engines in rank r's group
  weight_version,
  paused,                 \* _pause_event
  need_first_wait,
  monitor,
  to_check,               \* engines left in a round of checks
  target                  \* the index that is checked or killed

driverVars  == <<pc, rollout_id>>
engineVars  == <<present, incarnation, up, resident, weights>>
managerVars == <<dead, num_new_engines>>
rankVars    == <<rank_pc, answer, connected, weight_version>>
monitorVars == <<need_first_wait, monitor, to_check, target>>
vars        == <<driverVars, engineVars, crashes, managerVars, rankVars, paused, monitorVars>>

Slots   == 0 .. NumEngines * NodesPerEngine - 1
Engines == {s \in Slots : s % NodesPerEngine = 0}     \* by their first node
NodesOf(e) == e .. e + NodesPerEngine - 1
EngineOf(s) == s - (s % NodesPerEngine)

Missing == Slots \ present

\* An entry of all_engines, as seen by whoever copied it.
NoneHandle == 0
Handle(s) == <<s, IF s \in present THEN incarnation[s] ELSE NoneHandle>>

\* A call on None, or on an engine that is gone, raises in the caller.
Reachable(handles) == \A h \in handles : h = Handle(h[1]) /\ h[1] \in present /\ up[h[1]]

Held == {Handle(e) : e \in Engines \cap present}

\* RolloutManager.__init__ has started all engines, and create_rollout_manager
\* has offloaded them.
Init ==
  /\ pc = "onload_weights"
  /\ rollout_id = -1
  /\ present = Slots
  /\ incarnation = [s \in Slots |-> 1]
  /\ up = [s \in Slots |-> TRUE]
  /\ resident = [e \in Engines |-> IF Offload THEN "nothing" ELSE "all"]
  /\ weights = [e \in Engines |-> 0]
  /\ crashes = 0
  /\ dead = {}
  /\ num_new_engines = Cardinality(Slots)
  /\ rank_pc = [r \in Ranks |-> "idle"]
  /\ answer = [r \in Ranks |-> {}]
  /\ connected = [r \in Ranks |-> {}]
  /\ weight_version = 0
  /\ paused = TRUE
  /\ need_first_wait = TRUE
  /\ monitor = "top"
  /\ to_check = {}
  /\ target = 0

-----------------------------------------------------------------------------
(* The driver: train.py *)

\* An exception in a remote call ends the training.
Raise ==
  /\ pc' = "failed"
  /\ UNCHANGED <<rollout_id, engineVars, crashes, managerVars, rankVars, paused, monitorVars>>

\* release_ and resume_memory_occupation on all engines, if they are offloaded.
Occupy(tag) ==
  resident' = [e \in Engines |-> IF Offload /\ e \in present THEN tag ELSE resident[e]]

MayCall == Offload => Reachable(Held)

OnloadWeights ==
  /\ pc = "onload_weights"
  /\ MayCall
  /\ Occupy("weights")
  /\ pc' = "update"
  /\ rank_pc' = [r \in Ranks |-> IF r = 0 THEN "recover" ELSE "barrier"]
  /\ UNCHANGED <<rollout_id, present, incarnation, up, weights, crashes, managerVars, answer,
                 connected, weight_version, paused, monitorVars>>

OnloadKv ==
  /\ pc = "onload_kv"
  /\ MayCall
  /\ Occupy("all")
  /\ pc' = "next"
  /\ UNCHANGED <<rollout_id, present, incarnation, up, weights, crashes, managerVars, rankVars,
                 paused, monitorVars>>

\* RolloutManager.generate resumes the monitor and calls the rollout function.
Generate ==
  /\ pc = "next"
  /\ rollout_id + 1 < MaxRollouts
  /\ rollout_id' = rollout_id + 1
  /\ pc' = "generate"
  /\ paused' = FALSE
  /\ need_first_wait' = TRUE
  /\ UNCHANGED <<engineVars, crashes, managerVars, rankVars, monitor, to_check, target>>

\* RolloutManager.offload pauses the monitor, and does not wait for it.
EndGenerate ==
  /\ pc = "generate"
  /\ MayCall
  /\ paused' = (paused \/ Offload)
  /\ Occupy("nothing")
  /\ pc' = "train"
  /\ UNCHANGED <<rollout_id, present, incarnation, up, weights, crashes, managerVars, rankVars,
                 monitorVars>>

Train ==
  /\ pc = "train"
  /\ pc' = "onload_weights"
  /\ UNCHANGED <<rollout_id, engineVars, crashes, managerVars, rankVars, paused, monitorVars>>

CallRaises ==
  /\ pc \in {"onload_weights", "onload_kv", "generate"}
  /\ ~MayCall
  /\ Raise

-----------------------------------------------------------------------------
(* The update of the weights: MegatronTrainRayActor.update_weights on every *)
(* rank, and the manager's methods it calls                                 *)

\* Variant: the first update recovers as well, and resets num_new_engines.
NotYetConnectedNever == FALSE

\* Before the first rollout the engines are new and nobody is connected.
NotYetConnected == rollout_id = -1

\* Rank 0 calls recover_updatable_engines while the others wait at the barrier.
RecoverBegin ==
  /\ pc = "update" /\ rank_pc[0] = "recover"
  /\ paused' = TRUE
  /\ IF NotYetConnected
     THEN /\ rank_pc' = [rank_pc EXCEPT ![0] = "barrier"]
          /\ UNCHANGED dead
     ELSE /\ rank_pc' = [rank_pc EXCEPT ![0] = "start"]
          /\ dead' = Missing
  /\ UNCHANGED <<driverVars, engineVars, crashes, num_new_engines, answer, connected,
                 weight_version, monitorVars>>

\* The nodes of an engine wait for each other.
Complete(new) == \A s \in new : NodesOf(EngineOf(s)) \subseteq new

\* start_engines, and the wait for the engines' init.
StartEngines ==
  /\ rank_pc[0] = "start"
  /\ Complete(Missing)
  /\ LET new == Missing
     IN  /\ incarnation' = [s \in Slots |-> incarnation[s] + (IF s \in new THEN 1 ELSE 0)]
         /\ up' = [s \in Slots |-> up[s] \/ s \in new]
         /\ resident' = [e \in Engines |-> IF e \in new THEN "all" ELSE resident[e]]
         /\ weights' = [e \in Engines |-> IF e \in new THEN 0 ELSE weights[e]]
         /\ num_new_engines' = Cardinality(new)
  /\ present' = Slots
  /\ rank_pc' = [rank_pc EXCEPT ![0] = "started"]
  /\ UNCHANGED <<driverVars, crashes, dead, answer, connected, weight_version, paused,
                 monitorVars>>

\* The init of half an engine fails.
StartRaises ==
  /\ rank_pc[0] = "start"
  /\ ~Complete(Missing)
  /\ Raise

AsCounted == num_new_engines = Cardinality(dead)

\* Variant: new engines keep all of their memory.
AfterReleaseNone(e) == resident[e]

\* New engines are released and get back the memory of the weights only.
AfterRelease(e) == IF Offload /\ e \in dead THEN "weights" ELSE resident[e]

RecoverEnd ==
  /\ rank_pc[0] = "started"
  /\ AsCounted
  /\ Offload => Reachable({Handle(s) : s \in dead})
  /\ resident' = [e \in Engines |-> AfterRelease(e)]
  /\ rank_pc' = [rank_pc EXCEPT ![0] = "barrier"]
  /\ UNCHANGED <<driverVars, present, incarnation, up, weights, crashes, managerVars, answer,
                 connected, weight_version, paused, monitorVars>>

RecoverRaises ==
  /\ rank_pc[0] = "started"
  /\ ~AsCounted \/ (Offload /\ ~Reachable({Handle(s) : s \in dead}))
  /\ Raise

AllAt(place) == \A r \in Ranks : rank_pc[r] = place

BarrierAfterRecover ==
  /\ AllAt("barrier")
  /\ rank_pc' = [r \in Ranks |-> "ask"]
  /\ UNCHANGED <<driverVars, engineVars, crashes, managerVars, answer, connected,
                 weight_version, paused, monitorVars>>

MustConnect == num_new_engines > 0

\* get_updatable_engines_and_lock.
Ask(r) ==
  /\ rank_pc[r] = "ask"
  /\ answer' = [answer EXCEPT ![r] = {Handle(e) : e \in Engines}]
  /\ rank_pc' = [rank_pc EXCEPT ![r] = IF MustConnect THEN "connect" ELSE "push"]
  /\ UNCHANGED <<driverVars, engineVars, crashes, managerVars, connected, weight_version,
                 paused, monitorVars>>

Connect(r) ==
  /\ rank_pc[r] = "connect"
  /\ Reachable(answer[r])
  /\ connected' = [connected EXCEPT ![r] = answer[r]]
  /\ rank_pc' = [rank_pc EXCEPT ![r] = "connected"]
  /\ UNCHANGED <<driverVars, engineVars, crashes, managerVars, answer, weight_version, paused,
                 monitorVars>>

ConnectRaises(r) ==
  /\ rank_pc[r] = "connect"
  /\ ~Reachable(answer[r])
  /\ Raise

\* Variant: the barrier after the connection is missing.
NoBarrierAfterConnect ==
  \E r \in Ranks :
    /\ rank_pc[r] = "connected"
    /\ rank_pc' = [rank_pc EXCEPT ![r] = IF r = 0 THEN "clear" ELSE "push"]
    /\ UNCHANGED <<driverVars, engineVars, crashes, managerVars, answer, connected,
                   weight_version, paused, monitorVars>>

BarrierAfterConnect ==
  /\ AllAt("connected")
  /\ rank_pc' = [r \in Ranks |-> IF r = 0 THEN "clear" ELSE "push"]
  /\ UNCHANGED <<driverVars, engineVars, crashes, managerVars, answer, connected,
                 weight_version, paused, monitorVars>>

\* Rank 0 calls clear_updatable_num_new_engines.
Clear ==
  /\ rank_pc[0] = "clear"
  /\ num_new_engines' = 0
  /\ rank_pc' = [rank_pc EXCEPT ![0] = "push"]
  /\ UNCHANGED <<driverVars, engineVars, crashes, dead, answer, connected, weight_version,
                 paused, monitorVars>>

\* UpdateWeightFromDistributed.update_weights has barriers between its passes:
\* the ranks push together.
Push ==
  /\ AllAt("push")
  /\ \A r \in Ranks : Reachable(connected[r])
  /\ weight_version' = weight_version + 1
  /\ weights' = [e \in Engines |-> IF \A r \in Ranks : Handle(e) \in connected[r]
                                   THEN weight_version + 1 ELSE weights[e]]
  /\ rank_pc' = [r \in Ranks |-> "idle"]
  /\ pc' = "onload_kv"
  /\ UNCHANGED <<rollout_id, present, incarnation, up, resident, crashes, managerVars, answer,
                 connected, paused, monitorVars>>

PushRaises ==
  /\ AllAt("push")
  /\ \E r \in Ranks : ~Reachable(connected[r])
  /\ Raise

-----------------------------------------------------------------------------
(* The monitor: RolloutHealthMonitor._health_monitor_loop *)

StartRound ==
  /\ monitor' = "check"
  /\ to_check' = Engines \cap present
  /\ need_first_wait' = FALSE

LeaveTop ==
  /\ monitor = "top"
  /\ ~paused
  /\ IF need_first_wait
     THEN monitor' = "first_wait" /\ UNCHANGED <<to_check, need_first_wait>>
     ELSE StartRound
  /\ UNCHANGED <<driverVars, engineVars, crashes, managerVars, rankVars, paused, target>>

\* Variant: the wait is not marked as done, and starts again.
FirstWaitOverNever ==
  /\ monitor' = "top"
  /\ UNCHANGED <<to_check, need_first_wait>>

FirstWaitOver == StartRound

EndFirstWait ==
  /\ monitor = "first_wait"
  /\ IF paused
     THEN monitor' = "top" /\ UNCHANGED <<to_check, need_first_wait>>
     ELSE FirstWaitOver
  /\ UNCHANGED <<driverVars, engineVars, crashes, managerVars, rankVars, paused, target>>

\* The pause is seen between two engines, and nowhere else in a round.
CheckNext ==
  /\ monitor = "check"
  /\ IF paused \/ to_check = {}
     THEN /\ monitor' = "interval"
          /\ UNCHANGED <<to_check, target>>
     ELSE /\ monitor' = "answer"
          /\ target' = CHOOSE e \in to_check : \A f \in to_check : e <= f
          /\ to_check' = to_check \ {target'}
  /\ UNCHANGED <<driverVars, engineVars, crashes, managerVars, rankVars, paused,
                 need_first_wait>>

\* An engine answers if all of its nodes run.  Without its memory it may or may not.
Healthy ==
  /\ monitor = "answer"
  /\ \A s \in NodesOf(target) : up[s]
  /\ monitor' = "check"
  /\ UNCHANGED <<driverVars, engineVars, crashes, managerVars, rankVars, paused,
                 need_first_wait, to_check, target>>

Unhealthy ==
  /\ monitor = "answer"
  /\ (\E s \in NodesOf(target) : ~up[s]) \/ resident[target] # "all"
  /\ monitor' = "kill"
  /\ UNCHANGED <<driverVars, engineVars, crashes, managerVars, rankVars, paused,
                 need_first_wait, to_check, target>>

\* _kill_engine waits for the shutdown of each node, and then forgets the node.
Shutdown ==
  /\ monitor = "kill"
  /\ up' = [up EXCEPT ![target] = @ /\ target \notin present]
  /\ monitor' = "shutdown"
  /\ UNCHANGED <<driverVars, present, incarnation, resident, weights, crashes, managerVars,
                 rankVars, paused, need_first_wait, to_check, target>>

Forget ==
  /\ monitor = "shutdown"
  /\ present' = present \ {target}
  /\ IF target + 1 \in NodesOf(EngineOf(target))
     THEN monitor' = "kill" /\ target' = target + 1
     ELSE monitor' = "check" /\ UNCHANGED target
  /\ UNCHANGED <<driverVars, incarnation, up, resident, weights, crashes, managerVars,
                 rankVars, paused, need_first_wait, to_check>>

EndInterval ==
  /\ monitor = "interval"
  /\ monitor' = "top"
  /\ UNCHANGED <<driverVars, engineVars, crashes, managerVars, rankVars, paused,
                 need_first_wait, to_check, target>>

-----------------------------------------------------------------------------
\* The engine's process dies or hangs.
Crash(s) ==
  /\ s \in present /\ up[s]
  /\ crashes < MaxCrashes
  /\ crashes' = crashes + 1
  /\ up' = [up EXCEPT ![s] = FALSE]
  /\ UNCHANGED <<driverVars, present, incarnation, resident, weights, managerVars, rankVars,
                 paused, monitorVars>>

\* After the last update of weights the monitor is stopped.
Running == pc # "failed" /\ ~(pc = "next" /\ rollout_id + 1 = MaxRollouts)

Terminating == ~Running /\ UNCHANGED vars

TrainerNext ==
  /\ Running
  /\ \/ OnloadWeights \/ OnloadKv \/ Generate \/ EndGenerate \/ Train \/ CallRaises
     \/ RecoverBegin \/ StartEngines \/ StartRaises \/ RecoverEnd \/ RecoverRaises
     \/ BarrierAfterRecover
     \/ \E r \in Ranks : Ask(r)
     \/ \E r \in Ranks : Connect(r)
     \/ \E r \in Ranks : ConnectRaises(r)
     \/ BarrierAfterConnect
     \/ Clear
     \/ Push \/ PushRaises

MonitorNext ==
  /\ Running
  /\ LeaveTop \/ EndFirstWait \/ CheckNext \/ Healthy \/ Unhealthy \/ Shutdown \/ Forget
     \/ EndInterval

Next ==
  \/ TrainerNext
  \/ MonitorNext
  \/ Running /\ \E s \in Slots : Crash(s)
  \/ Terminating

Spec == Init /\ [][Next]_vars

\* The monitor's thread runs, and its calls return.
FairSpec == Spec /\ WF_vars(MonitorNext)
-----------------------------------------------------------------------------
Handles == Slots \X Nat
LiveHandles == Slots \X (Nat \ {NoneHandle})

TypeOK ==
  /\ pc \in {"onload_weights", "update", "onload_kv", "next", "generate", "train", "failed"}
  /\ rollout_id \in Nat \cup {-1}
  /\ present \in SUBSET Slots
  /\ incarnation \in [Slots -> Nat]
  /\ up \in [Slots -> BOOLEAN]
  /\ resident \in [Engines -> {"nothing", "weights", "all"}]
  /\ weights \in [Engines -> Nat]
  /\ crashes \in Nat
  /\ dead \in SUBSET Slots
  /\ num_new_engines \in Nat
  /\ rank_pc \in [Ranks -> {"idle", "recover", "start", "started", "barrier", "ask", "connect",
                            "connected", "clear", "push"}]
  /\ answer \in [Ranks -> SUBSET Handles]
  /\ connected \in [Ranks -> SUBSET LiveHandles]
  /\ weight_version \in Nat
  /\ paused \in BOOLEAN /\ need_first_wait \in BOOLEAN
  /\ monitor \in {"top", "first_wait", "check", "answer", "kill", "shutdown", "interval"}
  /\ to_check \in SUBSET Engines
  /\ target \in Slots

(***************************************************************************)
(* No engine serves a rollout with old weights, those that were started in *)
(* the place of a dead one included: an engine that is new is connected to *)
(* before the weights are pushed (actor.py:607-644, rollout.py:538-565).   *)
(***************************************************************************)
ServesCurrentWeights ==
  pc \in {"onload_kv", "next", "generate"} =>
    \A e \in Engines \cap present : weights[e] = weight_version

(***************************************************************************)
(* Offloaded engines, old and new, hold nothing while the trainer trains,  *)
(* only weights while they are updated, and everything while they serve    *)
(* (rollout.py:302-321, 337-358, 521-536; train.py:30-39, 70-99).          *)
(***************************************************************************)
Residency ==
  Offload =>
    \A e \in Engines \cap present :
      /\ pc \in {"train", "onload_weights"} => resident[e] = "nothing"
      /\ pc = "update" /\ rank_pc[0] # "started" => resident[e] = "weights"
      /\ pc \in {"next", "generate"} => resident[e] = "all"

(***************************************************************************)
(* When the trainer ranks push, their groups hold the same engines: none   *)
(* of them asked for num_new_engines before the recovery or after the      *)
(* clear (actor.py:611-636).                                               *)
(***************************************************************************)
RanksAgree ==
  AllAt("push") => \A q, r \in Ranks : connected[q] = connected[r] /\ connected[q] # {}

(***************************************************************************)
(* A node that dies during a rollout is found and its engine forgotten, so *)
(* that the next recovery replaces it, unless the rollout ends first       *)
(* (health_monitor.py:105-177).                                            *)
(***************************************************************************)
CrashIsFound ==
  \A s \in Slots :
    (pc = "generate" /\ s \in present /\ ~up[s]) ~> (pc # "generate" \/ s \notin present)

(***************************************************************************)
(* The assertion of recover(): "num_new_engines does not match             *)
(* dead_indices length" (rollout.py:300).                                  *)
(***************************************************************************)
RecoverCounts == rank_pc[0] = "started" => num_new_engines = Cardinality(dead)
=============================================================================
