--------------------------- MODULE TrainingDriver ---------------------------
(***************************************************************************)
(* The two training drivers (train.py, train_async.py) with what they call *)
(* on the rollout manager, the actor and the critic: generate, train,      *)
(* save, update_weights, and the restart from what is on disk.             *)
(*                                                                         *)
(* A rollout consumes one batch of prompts, named by its read position in  *)
(* the data source.  Weights are the sequence of the batches they were     *)
(* trained on, so that a prefix is an older version of the same model.     *)
(* The manager is a single-threaded Ray actor: its calls run in the order  *)
(* they were submitted.                                                    *)
(***************************************************************************)
EXTENDS Integers, Sequences, FiniteSets

CONSTANTS
    NumRollout,   \* --num-rollout
    Settings,     \* the combinations of arguments a run may be started with
    MaxCrashes,   \* bound on the restarts
    Nothing       \* Python's None where a value is expected

ASSUME NumRolloutAssumption == NumRollout \in Nat
ASSUME MaxCrashesAssumption == MaxCrashes \in Nat
ASSUME SettingsAssumption ==
    Settings \subseteq [async : BOOLEAN, colocate : BOOLEAN, interval : Nat \ {0}, saveEvery : Nat \ {0},
                        withRef : BOOLEAN, refEvery : Nat, keepOld : BOOLEAN,
                        critic : BOOLEAN, criticOnly : Nat, asyncSave : BOOLEAN]
ASSUME NothingAssumption == Nothing \notin [id : Nat, batch : Nat, by : Seq(Nat)]

VARIABLES
    args,        \* the arguments of this job, the same after a restart
    pc,          \* where the driver is
    rollout_id,  \* the loop variable
    next,        \* rollout_data_next_future: the rollout it is the result of, or None
    curr,        \* rollout_data_curr_ref
    calls,       \* calls submitted to the rollout manager and not begun
    busy,        \* the rollout the manager is generating, or Nothing
    made,        \* results of generate(), by rollout id
    position,    \* what the data source has handed out
    engine,      \* the weights of the rollout engines
    live,        \* the parameters in the actor's model
    backups,     \* TensorBackuper._backups of the actor
    critic,      \* the critic's parameters
    disk,        \* checkpoints and data-source states
    pending,     \* asynchronous saves Megatron has not finalized
    crashes,     \* restarts so far
    blind        \* a restart found files that do not belong together

manager == <<calls, busy, made, position>>
models  == <<live, backups, critic>>
vars    == <<args, pc, rollout_id, next, curr, manager, engine, models, disk, pending, crashes, blind>>

None == -1
Fresh == << >>
With(f, t, v) == [u \in DOMAIN f \cup {t} |-> IF u = t THEN v ELSE f[u]]

(* should_run_periodic_action with num_rollout given. *)
ShouldSave(r) == r = NumRollout - 1 \/ (r + 1) % args.saveEvery = 0
ActorTrains(r) == ~args.critic \/ r >= args.criticOnly

-----------------------------------------------------------------------------
(* Start and restart. *)

(* A role loads the newest finished checkpoint of its own directory.       *)
Loaded(role) == IF disk[role].last = None THEN Fresh ELSE disk[role].saved[disk[role].last]

(* slime_validate_args starts from rollout 0 when the actor's directory    *)
(* has no tracker; otherwise the loaded iteration decides, the critic's    *)
(* when there is one.                                                      *)
StartRollout ==
    IF disk.actor.last = None THEN 0
    ELSE disk[IF args.critic THEN "critic" ELSE "actor"].last + 1

(* Mutant: one batch past the state of the data source. *)
PositionPastState(start) ==
    IF disk.actor.last # None /\ start - 1 \in DOMAIN disk.data THEN disk.data[start - 1] + 1 ELSE 0

(* Mutant: the state that is looked for is the one this rollout will write. *)
StateOfStart(start) ==
    IF disk.actor.last # None /\ start \in DOMAIN disk.data THEN disk.data[start] ELSE 0

StatePosition(start) ==
    IF disk.actor.last # None /\ start - 1 \in DOMAIN disk.data THEN disk.data[start - 1] ELSE 0

(* A checkpoint, the critic's and the data-source state belong to the same *)
(* rollout exactly when nothing was interrupted between their writes.      *)
FilesAgree ==
    /\ args.critic => disk.actor.last = disk.critic.last
    /\ disk.actor.last # None => disk.actor.last \in DOMAIN disk.data

(* create_training_models: load_other_checkpoint leaves the model it       *)
(* loaded in the parameters; only an offloaded actor is switched back.     *)
InitialBackups ==
    LET actor == Loaded("actor")
        ref   == IF args.withRef THEN With([actor |-> actor], "ref", Fresh) ELSE [actor |-> actor]
        old   == IF args.keepOld THEN With(ref, "old_actor", actor) ELSE ref
    IN  IF args.keepOld /\ args.interval = 1 THEN With(old, "rollout_actor", actor) ELSE old

InitialLive ==
    IF args.withRef /\ ~args.keepOld /\ ~args.colocate THEN Fresh ELSE Loaded("actor")

Init ==
    /\ args \in Settings
    /\ pc = "create" /\ rollout_id = 0 /\ next = None /\ curr = Nothing
    /\ calls = << >> /\ busy = Nothing /\ made = << >> /\ position = 0
    /\ engine = Fresh /\ live = Fresh /\ backups = [actor |-> Fresh] /\ critic = Fresh
    /\ disk = [actor |-> [last |-> None, saved |-> << >>], critic |-> [last |-> None, saved |-> << >>],
               data |-> << >>]
    /\ pending = [actor |-> None, critic |-> None]
    /\ crashes = 0 /\ blind = FALSE

Create ==
    /\ pc = "create"
    /\ pc' = "push"
    /\ rollout_id' = StartRollout
    /\ position' = StatePosition(StartRollout)
    /\ live' = InitialLive
    /\ backups' = InitialBackups
    /\ critic' = Loaded("critic")
    /\ blind' = (blind \/ ~FilesAgree)
    /\ UNCHANGED <<args, next, curr, calls, busy, made, engine, disk, pending, crashes>>

Crash ==
    /\ pc \notin {"create", "done"}
    /\ crashes < MaxCrashes
    /\ pc' = "create"
    /\ next' = None /\ curr' = Nothing /\ calls' = << >> /\ busy' = Nothing /\ made' = << >>
    /\ engine' = Fresh
    /\ pending' = [actor |-> None, critic |-> None]
    /\ crashes' = crashes + 1
    /\ UNCHANGED <<args, rollout_id, position, models, disk, blind>>

-----------------------------------------------------------------------------
(* The rollout manager. *)

BeginGenerate ==
    /\ calls # << >> /\ Head(calls).call = "generate" /\ busy = Nothing
    /\ busy' = [id |-> Head(calls).id, batch |-> position, by |-> engine]
    /\ position' = position + 1
    /\ calls' = Tail(calls)
    /\ UNCHANGED <<args, pc, rollout_id, next, curr, made, engine, models, disk, pending, crashes, blind>>

EndGenerate ==
    /\ busy # Nothing
    /\ made' = With(made, busy.id, [batch |-> busy.batch, by |-> {busy.by, engine}])
    /\ busy' = Nothing
    /\ UNCHANGED <<args, pc, rollout_id, next, curr, calls, position, engine, models, disk, pending, crashes, blind>>

SaveDataSource ==
    /\ calls # << >> /\ Head(calls).call = "save" /\ busy = Nothing
    /\ disk' = [disk EXCEPT !.data = With(@, Head(calls).id, position)]
    /\ calls' = Tail(calls)
    /\ UNCHANGED <<args, pc, rollout_id, next, curr, busy, made, position, engine, models, pending, crashes, blind>>

-----------------------------------------------------------------------------
(* update_weights of the actor. *)

(* Colocated engines are sent the backup of the actor, the others the      *)
(* parameters of the model.                                                *)
Sent == IF args.colocate THEN backups.actor ELSE live

(* Mutant: the queue is shifted from its new end. *)
KeptInWrongOrder ==
    IF ~args.keepOld THEN backups
    ELSE IF args.interval = 1
         THEN [backups EXCEPT !.old_actor = live, !.rollout_actor = live]
         ELSE [backups EXCEPT !.old_actor = live]

(* keep_old_actor: with interval 1 the model queue rollout_actor ->        *)
(* old_actor, live -> rollout_actor.                                       *)
KeptOld ==
    IF ~args.keepOld THEN backups
    ELSE IF args.interval = 1
         THEN [backups EXCEPT !.old_actor = backups.rollout_actor, !.rollout_actor = live]
         ELSE [backups EXCEPT !.old_actor = live]

FirstPush ==
    /\ pc = "push"
    /\ engine' = Sent
    /\ backups' = KeptOld
    /\ pc' = "loop"
    /\ IF args.async
       THEN next' = rollout_id /\ calls' = Append(calls, [call |-> "generate", id |-> rollout_id])
       ELSE UNCHANGED <<next, calls>>
    /\ UNCHANGED <<args, rollout_id, curr, busy, made, position, live, critic, disk, pending, crashes, blind>>

-----------------------------------------------------------------------------
(* The loop. *)

(* train.py: generate and wait; train_async.py: wait for the rollout       *)
(* started earlier, unless the last update has already collected it.       *)
Submit ==
    /\ pc = "loop" /\ ~args.async /\ rollout_id < NumRollout
    /\ calls' = Append(calls, [call |-> "generate", id |-> rollout_id])
    /\ next' = rollout_id
    /\ pc' = "collect"
    /\ UNCHANGED <<args, rollout_id, curr, busy, made, position, engine, models, disk, pending, crashes, blind>>

Collect ==
    /\ pc = IF args.async THEN "loop" ELSE "collect"
    /\ rollout_id < NumRollout
    /\ IF next = None THEN curr' = curr ELSE next \in DOMAIN made /\ curr' = made[next]
    /\ IF args.async /\ rollout_id + 1 < NumRollout
       THEN /\ next' = rollout_id + 1
            /\ calls' = Append(calls, [call |-> "generate", id |-> rollout_id + 1])
       ELSE UNCHANGED <<next, calls>>
    /\ pc' = IF args.critic THEN "train_critic" ELSE "train_actor"
    /\ UNCHANGED <<args, rollout_id, busy, made, position, engine, models, disk, pending, crashes, blind>>

AfterTrain == IF ~ShouldSave(rollout_id) THEN "update"
              ELSE IF ActorTrains(rollout_id) THEN "save_actor" ELSE "save_critic"

TrainCritic ==
    /\ pc = "train_critic"
    /\ critic' = Append(critic, curr.batch)
    /\ pc' = IF ActorTrains(rollout_id) THEN "train_actor" ELSE AfterTrain
    /\ UNCHANGED <<args, rollout_id, next, curr, manager, engine, live, backups, disk, pending, crashes, blind>>

RefDue == args.refEvery # 0 /\ args.withRef /\ (rollout_id + 1) % args.refEvery = 0

(* train_actor ends with the actor in the model and in its backup. *)
TrainActor ==
    /\ pc = "train_actor"
    /\ LET trained == Append(backups.actor, curr.batch)
           actor   == [backups EXCEPT !.actor = trained]
       IN  /\ live' = trained
           /\ backups' = IF RefDue THEN [actor EXCEPT !.ref = trained] ELSE actor
    /\ pc' = AfterTrain
    /\ UNCHANGED <<args, rollout_id, next, curr, manager, engine, critic, disk, pending, crashes, blind>>

(* save_model: an asynchronous save is finalized by the next one, and by   *)
(* the last rollout's at once.                                             *)
Finalized(role) == IF pending[role] = None THEN disk[role].last ELSE pending[role]
Stored(role, weights) ==
    LET at_once == ~args.asyncSave \/ rollout_id = NumRollout - 1
    IN  /\ disk' = [disk EXCEPT ![role] =
                        [last |-> IF at_once THEN rollout_id ELSE Finalized(role),
                         saved |-> With(@.saved, rollout_id, weights)]]
        /\ pending' = [pending EXCEPT ![role] = IF at_once THEN None ELSE rollout_id]

SaveActor ==
    /\ pc = "save_actor"
    /\ Stored("actor", live)
    /\ pc' = IF args.critic THEN "save_critic" ELSE "save_data"
    /\ UNCHANGED <<args, rollout_id, next, curr, manager, engine, models, crashes, blind>>

SaveCritic ==
    /\ pc = "save_critic"
    /\ Stored("critic", critic)
    /\ pc' = "save_data"
    /\ UNCHANGED <<args, rollout_id, next, curr, manager, engine, models, crashes, blind>>

(* rollout_manager.save waits behind a generate() submitted before it. *)
SaveData ==
    /\ pc = "save_data"
    /\ calls' = Append(calls, [call |-> "save", id |-> rollout_id])
    /\ pc' = "saved_data"
    /\ UNCHANGED <<args, rollout_id, next, curr, busy, made, position, engine, models, disk, pending, crashes, blind>>

SavedData ==
    /\ pc = "saved_data"
    /\ \A i \in DOMAIN calls : calls[i].call # "save"
    /\ pc' = "update"
    /\ UNCHANGED <<args, rollout_id, next, curr, manager, engine, models, disk, pending, crashes, blind>>

UpdateDue == ~args.async \/ (rollout_id + 1) % args.interval = 0

(* Mutant: the weights are updated under the rollout in flight. *)
AwaitNothing ==
    /\ pc = "update" /\ args.async /\ UpdateDue
    /\ pc' = "push_loop"
    /\ UNCHANGED <<args, rollout_id, next, curr, manager, engine, models, disk, pending, crashes, blind>>

(* Mutant: the last iteration waits for a rollout nobody started. *)
AwaitNextRollout ==
    /\ pc = "update" /\ args.async /\ UpdateDue
    /\ rollout_id + 1 \in DOMAIN made /\ curr' = made[rollout_id + 1]
    /\ next' = None
    /\ pc' = "push_loop"
    /\ UNCHANGED <<args, rollout_id, manager, engine, models, disk, pending, crashes, blind>>

(* train_async.py waits for the rollout in flight before it updates. *)
AwaitRollout ==
    /\ pc = "update" /\ args.async /\ UpdateDue
    /\ IF next = None THEN curr' = Nothing ELSE next \in DOMAIN made /\ curr' = made[next]
    /\ next' = None
    /\ pc' = "push_loop"
    /\ UNCHANGED <<args, rollout_id, manager, engine, models, disk, pending, crashes, blind>>

UpdateWeights ==
    /\ pc = IF args.async THEN "push_loop" ELSE "update"
    /\ engine' = Sent
    /\ backups' = KeptOld
    /\ rollout_id' = rollout_id + 1
    /\ pc' = "loop"
    /\ UNCHANGED <<args, next, curr, manager, live, critic, disk, pending, crashes, blind>>

SkipUpdate ==
    /\ pc = "update" /\ ~UpdateDue
    /\ rollout_id' = rollout_id + 1
    /\ pc' = "loop"
    /\ UNCHANGED <<args, next, curr, manager, engine, models, disk, pending, crashes, blind>>

(* dispose() and finish_tracking. *)
Dispose ==
    /\ pc = "loop" /\ rollout_id >= NumRollout
    /\ pc' = "done"
    /\ UNCHANGED <<args, rollout_id, next, curr, manager, engine, models, disk, pending, crashes, blind>>

Finished == pc = "done" /\ UNCHANGED vars

Driver  == \/ Create \/ FirstPush \/ Submit \/ Collect \/ TrainCritic \/ TrainActor
           \/ SaveActor \/ SaveCritic \/ SaveData \/ SavedData
           \/ AwaitRollout \/ UpdateWeights \/ SkipUpdate \/ Dispose
Manager == BeginGenerate \/ EndGenerate \/ SaveDataSource

Next == Driver \/ Manager \/ Crash \/ Finished

Spec == Init /\ [][Next]_vars
-----------------------------------------------------------------------------
(* Properties. *)

Batches == 0 .. NumRollout * (MaxCrashes + 1)
Rollouts == 0 .. NumRollout
IsWeights(w) == \A i \in DOMAIN w : w[i] \in Batches

(* Type invariant of the driver, the manager and the models. *)
TypeOK ==
    /\ args \in Settings
    /\ rollout_id \in Rollouts /\ next \in Rollouts \cup {None}
    /\ position \in Batches /\ crashes \in 0 .. MaxCrashes /\ blind \in BOOLEAN
    /\ \A i \in DOMAIN calls : calls[i].call \in {"generate", "save"} /\ calls[i].id \in Rollouts
    /\ IsWeights(engine) /\ IsWeights(live) /\ IsWeights(critic)
    /\ DOMAIN backups \subseteq {"actor", "ref", "old_actor", "rollout_actor"}
    /\ \A t \in DOMAIN backups : IsWeights(backups[t])
    /\ \A role \in {"actor", "critic"} :
          disk[role].last \in DOMAIN disk[role].saved \cup {None} /\ pending[role] \in DOMAIN disk[role].saved \cup {None}

(* train_async.py syncs the generation "to prevent update weight in the    *)
(* middle of generation": a rollout is generated by one version of the     *)
(* weights, although it is started early.  It is an earlier version of the *)
(* actor that trains on the rollout, behind by at most                     *)
(* --update-weights-interval training steps in train_async.py and by none  *)
(* in train.py.                                                            *)
StaleAtMostInterval ==
    pc = "train_actor" =>
        /\ Cardinality(curr.by) = 1
        /\ \A w \in curr.by :
             LET behind == Len(backups.actor) - Len(w)
             IN  /\ behind \in 0 .. (IF args.async THEN args.interval ELSE 0)
                 /\ w = SubSeq(backups.actor, 1, Len(w))

Occurs(b, w) == \E i \in DOMAIN w : w[i] = b

(* No batch is trained on twice, over restarts too, as long as a restart   *)
(* found a checkpoint and a data-source state that belong together.        *)
NothingTwice ==
    ~blind => \A w \in {backups.actor, critic} :
                 \A i, j \in DOMAIN w : w[i] = w[j] => i = j

(* What a restart skips: train_async.py saves the data source behind the   *)
(* next rollout, whose batch a restart neither has nor reads again.        *)
(* train.py loses nothing.                                                 *)
Lost ==
    { b \in 0 .. position - 1 :
        /\ ~Occurs(b, IF args.critic THEN critic ELSE backups.actor)
        /\ busy # Nothing => busy.batch # b
        /\ \A k \in DOMAIN made : k >= rollout_id => made[k].batch # b }
LostBounded ==
    ~blind /\ pc # "create" => Cardinality(Lost) <= IF args.async THEN crashes ELSE 0

(* A job that is restarted goes on where it was saved. *)
GoesOnWhereSaved == NothingTwice /\ LostBounded

(* --keep-old-actor: the log probabilities "old_actor" computes are of the *)
(* weights that generated the rollout, when rollouts run one ahead.        *)
OldActorGeneratedIt ==
    pc = "train_actor" /\ args.keepOld /\ args.async /\ args.interval = 1 =>
        curr.by = {backups.old_actor}

(* The help of --keep-old-actor, "keep the rollout model on training       *)
(* process", for every driver and interval.                                *)
KeepsRolloutModel ==
    pc = "train_actor" /\ args.keepOld => curr.by = {backups.old_actor}

(* The drivers "always push actor weights to rollout once weights are      *)
(* loaded": when the loop is entered, after a restart too, the engines     *)
(* hold the actor.                                                         *)
PushesActor ==
    pc = "loop" /\ (args.async => args.interval = 1) => engine = backups.actor

=============================================================================
