-------------------------- MODULE TrainingJobProofs --------------------------
(***************************************************************************)
(* Theorems about a training job.                                          *)
(*                                                                         *)
(* The drivers, alone and on the rollout servers: which weights generated  *)
(* the batch that is trained on, and that a restart neither repeats nor    *)
(* skips a batch.  The argument has four layers, each of which rests on    *)
(* the ones before: the loop and the one generation it has in flight, the  *)
(* versions of the weights, the order of the batches in memory and on      *)
(* disk, and the batches that are lost.                                    *)
(*                                                                         *)
(* The rollout servers: where the engines are placed, and that the ports   *)
(* they are promised are free when their servers bind them.  Two           *)
(* invariants of a job.  Placed says that the groups follow each other and *)
(* that their slots fit in the placement group; PlacementSound follows     *)
(* from it.  Promises says what the engines that wait were promised: ports *)
(* below the next search, free on their node, and different from those of  *)
(* any other engine they could meet there; AddressesHold is one of its     *)
(* parts.  A step offers engines to one group (OffersKeep), lets a server  *)
(* bind (LaunchedKeeps), or leaves nobody waiting (IdleKeeps).  Before     *)
(* that come the operators: the flattened sequences, the nodes of the      *)
(* bundles, get_free_port, and what Allocate makes of it.                  *)
(***************************************************************************)
EXTENDS TrainingJob, FiniteSetTheorems, WellFoundedInduction, TLAPS

Weights == Seq(Nat)
Result == [batch : Nat, by : SUBSET Weights]
Generation == [id : Nat, batch : Nat, by : Weights]
Calls == [call : {"generate", "save"}, id : Nat]
Roles == {"actor", "critic"}

Training == {"train_critic", "train_actor"}
Trained == {"save_actor", "save_critic", "save_data", "saved_data", "update", "push_loop"}

-----------------------------------------------------------------------------
(* The inductive invariant. *)

Types ==
  /\ args \in Settings
  /\ pc \in {"create", "push", "loop", "collect", "done"} \cup Training \cup Trained
  /\ rollout_id \in 0 .. NumRollout
  /\ next \in Nat \cup {None}
  /\ position \in Nat /\ crashes \in Nat /\ blind \in BOOLEAN
  /\ calls \in Seq(Calls)
  /\ busy \in Generation \cup {Nothing}
  /\ \A k \in DOMAIN made : k \in Nat /\ made[k] \in Result
  /\ engine \in Weights /\ live \in Weights /\ critic \in Weights
  /\ backups \in [DOMAIN backups -> Weights] /\ "actor" \in DOMAIN backups
  /\ pc # "create" /\ args.keepOld /\ args.interval = 1 =>
       {"old_actor", "rollout_actor"} \subseteq DOMAIN backups

DiskTypes ==
  /\ DOMAIN disk = Roles \cup {"data"}
  /\ \A k \in DOMAIN disk.data : k \in Nat /\ disk.data[k] \in Nat
  /\ pending \in [Roles -> Nat \cup {None}]
  /\ \A role \in Roles :
       /\ {disk[role].last, pending[role]} \subseteq DOMAIN disk[role].saved \cup {None}
       /\ \A k \in DOMAIN disk[role].saved : k \in 0 .. NumRollout - 1 /\ disk[role].saved[k] \in Weights

\* The rollout the loop waits for, or will.
Awaited ==
  next # None /\ next = IF pc \in {"loop", "collect", "done"} THEN rollout_id ELSE rollout_id + 1

\* The last update has collected the rollout of this iteration.
Collected == pc = "loop" /\ args.async /\ next = None /\ rollout_id < NumRollout

\* The last update has collected the next rollout before it sends the weights.
CollectedNext == pc = "push_loop" /\ rollout_id + 1 < NumRollout

Flow ==
  /\ pc \in {"create", "push"} =>
       next = None /\ calls = << >> /\ busy = Nothing /\ DOMAIN made = {}
  /\ pc = "collect" => ~args.async /\ next = rollout_id
  /\ pc = "push_loop" => args.async /\ next = None
  /\ pc \in ({"collect"} \cup Training \cup Trained) => rollout_id < NumRollout
  /\ pc \in {"train_critic", "save_critic"} => args.critic
  /\ pc \in {"train_actor", "save_actor"} => ActorTrains(rollout_id)
  /\ pc = "save_actor" => live = backups.actor
  /\ args.async =>
       /\ pc = "loop" /\ rollout_id < NumRollout => next \in {None, rollout_id}
       /\ pc \in (Training \cup Trained) \ {"push_loop"} =>
            next \in IF rollout_id + 1 < NumRollout THEN {rollout_id + 1} ELSE {None, rollout_id}
  /\ ~args.async =>
       /\ pc \in {"loop", "done"} => next # rollout_id
       /\ pc \in Training \cup Trained => next = rollout_id

\* One generation at a time, and it is the one the loop waits for.
InFlight ==
  /\ ~Awaited => busy = Nothing /\ \A i \in DOMAIN calls : calls[i].call # "generate"
  /\ busy # Nothing => busy.id = next /\ next \notin DOMAIN made
  /\ \A i \in DOMAIN calls : calls[i].call = "generate" =>
       /\ calls[i].id = next /\ next \notin DOMAIN made /\ busy = Nothing
       /\ \A j \in DOMAIN calls : calls[j].call = "generate" => j = i
  /\ \A i \in DOMAIN calls : calls[i].call = "save" => pc = "saved_data" /\ calls[i].id = rollout_id

Results ==
  /\ \A k \in DOMAIN made : k <= rollout_id + 1
  /\ pc \in {"loop", "collect"} => \A k \in DOMAIN made : k <= rollout_id
  /\ ~args.async => \A k \in DOMAIN made : k <= rollout_id
  /\ ~args.async /\ pc = "loop" => rollout_id \notin DOMAIN made
  /\ pc \in Training \/ Collected => rollout_id \in DOMAIN made /\ curr = made[rollout_id]
  /\ CollectedNext =>
       rollout_id + 1 \in DOMAIN made /\ curr = made[rollout_id + 1]
  /\ pc \in Trained => rollout_id \in DOMAIN made

LoopInv == Types /\ DiskTypes /\ Flow /\ InFlight /\ Results

\* The weights of the actor up to so many steps ago.
Past(steps) ==
  {SubSeq(backups.actor, 1, n) : n \in {n \in 0 .. Len(backups.actor) : Len(backups.actor) - n <= steps}}

\* An actor that has a reference is in the model when the loop begins.
RefSwitchedBack == args.withRef => args.keepOld \/ args.colocate

StepsInInterval == IF args.async THEN rollout_id % args.interval ELSE 0
StepsAllowed == IF args.async THEN args.interval ELSE 0

Versions ==
  /\ live = backups.actor
  /\ pc \notin {"create", "push"} =>
       engine \in Past(IF pc \in Trained THEN StepsInInterval + 1 ELSE StepsInInterval)
  /\ busy # Nothing => busy.by = engine
  /\ Awaited /\ next \in DOMAIN made => made[next].by = {engine}
  /\ pc \in Training \/ Collected => \E w \in Past(StepsAllowed) : curr.by = {w}
  /\ CollectedNext => curr.by = {engine}

Keeps == args.keepOld /\ args.async /\ args.interval = 1

OldActorKept ==
  /\ pc = "push" => backups.rollout_actor = backups.actor
  /\ pc \notin {"create", "push"} => backups.rollout_actor = engine
  /\ pc \in Training \/ Collected => curr.by = {backups.old_actor}
  /\ pc = "loop" /\ Awaited => backups.old_actor = engine

Increasing(w) == \A i, j \in DOMAIN w : i < j => w[i] < w[j]
Below(w, b) == \A i \in DOMAIN w : w[i] < b

\* A batch that was handed out and that nobody has been trained on.
Untouched(b) ==
  /\ b < position /\ Below(backups.actor, b) /\ Below(critic, b)
  /\ pc \in Training => curr.batch < b

Ordered ==
  ~blind =>
    /\ Increasing(backups.actor) /\ Increasing(critic)
    /\ pc # "create" =>
         /\ Below(backups.actor, position) /\ Below(critic, position)
         /\ busy # Nothing => Untouched(busy.batch)
         /\ Awaited /\ next \in DOMAIN made => Untouched(made[next].batch)
         /\ pc \in Training => Below(backups.actor, curr.batch) /\ curr.batch < position
         /\ pc = "train_critic" => Below(critic, curr.batch)
         /\ Collected \/ CollectedNext => Untouched(curr.batch)

Current(role) == IF role = "critic" THEN critic ELSE backups.actor
Decides == IF args.critic THEN "critic" ELSE "actor"
AtOnce(k) == ~args.asyncSave \/ k = NumRollout - 1
Unsaved == pc \in {"save_critic", "save_data"} \/ \E i \in DOMAIN calls : calls[i].call = "save"
SavedNow == pc \in {"save_data", "saved_data"}

\* The state of the data source that belongs to checkpoint k is behind its batches.
StateFits(role, k) == k \in DOMAIN disk.data => Below(disk[role].saved[k], disk.data[k])

\* Before a role is saved in this iteration.
NotYetSaved(role) ==
  \/ pc \in {"push", "loop", "collect", "done", "save_actor"} \cup Training
  \/ pc = "save_critic" /\ role = "critic"

OnDisk(role) ==
  LET last == disk[role].last
      open == pending[role]
  IN  /\ last # None => Increasing(disk[role].saved[last]) /\ StateFits(role, last)
      /\ open # None =>
           /\ pc # "create" /\ last < open
           /\ Increasing(disk[role].saved[open])
           /\ (open = rollout_id /\ Unsaved) \/ StateFits(role, open)
      /\ pc # "create" =>
           /\ \A k \in {last, open} : k <= rollout_id /\ (NotYetSaved(role) => k < rollout_id)
           /\ \A k \in {last, open} : k = rollout_id => disk[role].saved[k] = Current(role)

Disk ==
  /\ ~args.critic => disk.critic.last = None /\ pending.critic = None /\ critic = << >>
  /\ pc = "create" => \A role \in Roles : pending[role] = None
  /\ ~blind =>
       /\ \A role \in Roles : OnDisk(role)
       /\ \A k \in DOMAIN disk.data : AtOnce(k) => k <= disk[Decides].last
       /\ SavedNow => rollout_id = IF AtOnce(rollout_id) THEN disk[Decides].last ELSE pending[Decides]

\* The batches before n that the weights were not trained on.
Untrained(n, w) == {b \in 0 .. n - 1 : ~Occurs(b, w)}

\* What a restart from checkpoint k would skip.
Skipped(k) == Untrained(disk.data[k], disk[Decides].saved[k])
SkippedBound == IF ~args.async THEN 0 ELSE IF pc = "create" THEN crashes ELSE crashes + 1
SkipsFew(k) == k \in DOMAIN disk.data => Cardinality(Skipped(k)) <= SkippedBound

LostBound == IF args.async THEN crashes ELSE 0

SkipsOnDisk ==
  /\ disk[Decides].last # None => SkipsFew(disk[Decides].last)
  /\ pending[Decides] # None => (pending[Decides] = rollout_id /\ Unsaved) \/ SkipsFew(pending[Decides])

Losses ==
  ~blind =>
    /\ pc # "create" => Cardinality(Lost) <= LostBound
    /\ SkipsOnDisk
    /\ pc \in Trained \/ (pc = "train_actor" /\ args.critic) =>
         Occurs(made[rollout_id].batch, Current(Decides))

-----------------------------------------------------------------------------
(* Facts about the arguments and about sequences. *)

\* The arguments are those of some setting.
LEMMA ArgTypes ==
  ASSUME args \in Settings
  PROVE  /\ args.async \in BOOLEAN /\ args.colocate \in BOOLEAN /\ args.withRef \in BOOLEAN
         /\ args.keepOld \in BOOLEAN /\ args.critic \in BOOLEAN /\ args.asyncSave \in BOOLEAN
         /\ args.interval \in Nat /\ args.interval > 0 /\ NumRollout \in Nat
BY SettingsAssumption, NumRolloutAssumption

\* A queue keeps its order when something is added behind it.
LEMMA Appended ==
  ASSUME NEW S, NEW s \in Seq(S), NEW x \in S
  PROVE  /\ Append(s, x) \in Seq(S) /\ Len(Append(s, x)) = Len(s) + 1
         /\ \A i \in DOMAIN s : i \in DOMAIN Append(s, x) /\ Append(s, x)[i] = s[i]
         /\ \A i \in DOMAIN Append(s, x) : i \in DOMAIN s \/ (i = Len(s) + 1 /\ Append(s, x)[i] = x)
OBVIOUS

\* A queue keeps its order when its head is taken.
LEMMA Taken ==
  ASSUME NEW S, NEW s \in Seq(S), s # << >>
  PROVE  /\ 1 \in DOMAIN s /\ Head(s) = s[1] /\ Head(s) \in S /\ Tail(s) \in Seq(S)
         /\ \A i \in DOMAIN Tail(s) : i + 1 \in DOMAIN s /\ i + 1 # 1 /\ Tail(s)[i] = s[i + 1]
OBVIOUS

\* A checkpoint holds weights, and a role that has none begins afresh.
LEMMA LoadedType ==
  ASSUME DiskTypes, NEW role \in Roles
  PROVE  Loaded(role) \in Weights
<1>1. << >> \in Weights
  BY DEF Weights
<1>2. CASE disk[role].last = None
  BY <1>1, <1>2 DEF Loaded, Fresh
<1>3. CASE disk[role].last # None
  <2>1. disk[role].last \in DOMAIN disk[role].saved
    BY <1>3 DEF DiskTypes
  <2>2. disk[role].saved[disk[role].last] \in Weights
    BY <2>1 DEF DiskTypes
  <2> QED BY <1>3, <2>2 DEF Loaded
<1> QED BY <1>2, <1>3

-----------------------------------------------------------------------------
(* The loop. *)

\* The models and the position come from disk.
LEMMA CreateLoop == ASSUME LoopInv, Create PROVE LoopInv'
<1>1. /\ Types /\ DiskTypes /\ Flow /\ InFlight /\ Results
  BY DEF LoopInv
<1>2. rollout_id' \in 0 .. NumRollout
  <2>1. rollout_id' = StartRollout /\ NumRollout \in Nat
    BY <1>1, ArgTypes DEF Create, Types
  <2>2. CASE disk.actor.last = None
    BY <2>1, <2>2 DEF StartRollout
  <2>3. CASE disk.actor.last # None
    <3> DEFINE decides == IF args.critic THEN "critic" ELSE "actor"
    <3>1. rollout_id' = disk[decides].last + 1 /\ decides \in Roles
      BY <2>1, <2>3 DEF StartRollout, Roles
    <3> HIDE DEF decides
    <3>2. disk[decides].last = -1 \/ disk[decides].last \in 0 .. NumRollout - 1
      BY <1>1, <3>1 DEF DiskTypes, None
    <3> QED BY <2>1, <3>1, <3>2
  <2> QED BY <2>2, <2>3
<1>3. position' \in Nat
  BY <1>1 DEF Create, StatePosition, DiskTypes, Types
<1>4. /\ live' \in Weights /\ critic' \in Weights
      /\ backups' \in [DOMAIN backups' -> Weights] /\ "actor" \in DOMAIN backups'
      /\ args.keepOld /\ args.interval = 1 => {"old_actor", "rollout_actor"} \subseteq DOMAIN backups'
  <2>1. /\ Loaded("actor") \in Weights /\ Loaded("critic") \in Weights /\ Fresh \in Weights
    BY <1>1, LoadedType DEF Roles, Weights, Fresh
  <2> QED BY <2>1, SMTT(30) DEF Create, InitialLive, InitialBackups, With
<1>5. blind' \in BOOLEAN
  BY <1>1, ArgTypes DEF Create, Types, Training, Trained, FilesAgree
<1>6. Types'
  BY <1>1, <1>2, <1>3, <1>4, <1>5 DEF Create, Types
<1>7. DiskTypes'
  BY <1>1 DEF Create, DiskTypes
<1>8. Flow' /\ InFlight' /\ Results'
  BY <1>1, <1>2 DEF Create, Flow, InFlight, Results, Collected, CollectedNext, Training, Trained, Types
<1> QED BY <1>6, <1>7, <1>8 DEF LoopInv

\* Everything but the disk is lost.
LEMMA CrashLoop == ASSUME LoopInv, Crash PROVE LoopInv'
<1>1. /\ Types /\ DiskTypes /\ Flow /\ InFlight /\ Results
  BY DEF LoopInv
<1>2. Types'
  BY <1>1, ArgTypes, SMTT(30) DEF Crash, Types, Training, Trained, models, None, Roles, Fresh, Weights, Calls
<1>3. DiskTypes'
  BY <1>1, ArgTypes DEF Crash, DiskTypes, models, None, Roles, Fresh, Weights, Calls
<1>4. Flow'
  BY <1>1, ArgTypes DEF Crash, Flow, Types, Training, Trained, models, None, Roles, Fresh, Weights, Calls
<1>5. InFlight'
  BY <1>1, ArgTypes DEF Crash, Flow, InFlight, Results, Types, Awaited, Training, Trained, models, None, Roles, Fresh, Weights, Calls
<1>6. Results'
  BY <1>1, ArgTypes DEF Crash, Flow, Results, Types, Training, Trained, Collected, CollectedNext, models, None, Roles, Fresh, Weights, Calls
<1> QED BY <1>2, <1>3, <1>4, <1>5, <1>6 DEF LoopInv

\* The driver waits for the state of the data source.
LEMMA SavedDataLoop == ASSUME LoopInv, SavedData PROVE LoopInv'
<1>1. /\ Types /\ DiskTypes /\ Flow /\ InFlight /\ Results
  BY DEF LoopInv
<1>2. Types'
  BY <1>1, ArgTypes DEF SavedData, Types, Training, Trained, manager, models, Calls
<1>3. DiskTypes'
  BY <1>1, ArgTypes DEF SavedData, DiskTypes, manager, models, Calls
<1>4. Flow'
  BY <1>1, ArgTypes DEF SavedData, Flow, Types, Training, Trained, manager, models, Calls
<1>5. InFlight'
  BY <1>1, ArgTypes DEF SavedData, Flow, InFlight, Results, Types, Awaited, Training, Trained, manager, models, Calls
<1>6. Results'
  BY <1>1, ArgTypes DEF SavedData, Flow, Results, Types, Training, Trained, Collected, CollectedNext, manager, models, Calls
<1> QED BY <1>2, <1>3, <1>4, <1>5, <1>6 DEF LoopInv

\* The critic is trained.
LEMMA TrainCriticLoop == ASSUME LoopInv, TrainCritic PROVE LoopInv'
<1>1. /\ Types /\ DiskTypes /\ Flow /\ InFlight /\ Results
  BY DEF LoopInv
<1>0. critic' \in Weights
  <2>1. curr.batch \in Nat
    BY <1>1 DEF TrainCritic, Results, Types, Result, Training
  <2> QED BY <1>1, <2>1 DEF TrainCritic, Types, Weights
<1>2. Types'
  BY <1>0, <1>1, ArgTypes DEF TrainCritic, Types, Training, Trained, manager, AfterTrain, ShouldSave, ActorTrains
<1>3. DiskTypes'
  BY <1>1, ArgTypes DEF TrainCritic, DiskTypes, manager, AfterTrain, ShouldSave, ActorTrains
<1>4. Flow'
  BY <1>1, ArgTypes DEF TrainCritic, Flow, Types, Training, Trained, manager, AfterTrain, ShouldSave, ActorTrains
<1>5. InFlight'
  BY <1>1, ArgTypes DEF TrainCritic, Flow, InFlight, Results, Types, Awaited, Training, Trained, manager, AfterTrain, ShouldSave, ActorTrains
<1>6. Results'
  BY <1>1, ArgTypes DEF TrainCritic, Flow, Results, Types, Training, Trained, Collected, CollectedNext, manager, AfterTrain, ShouldSave, ActorTrains
<1> QED BY <1>2, <1>3, <1>4, <1>5, <1>6 DEF LoopInv

\* The actor is trained.
LEMMA TrainActorLoop == ASSUME LoopInv, TrainActor PROVE LoopInv'
<1>1. /\ Types /\ DiskTypes /\ Flow /\ InFlight /\ Results
  BY DEF LoopInv
<1>0. live' \in Weights /\ live' = backups'.actor /\ backups' \in [DOMAIN backups' -> Weights]
      /\ DOMAIN backups' = DOMAIN backups
  <2>1. curr.batch \in Nat
    BY <1>1 DEF TrainActor, Results, Types, Result, Training
  <2>2. Append(backups.actor, curr.batch) \in Weights
    BY <1>1, <2>1 DEF Types, Weights
  <2> QED BY <1>1, <2>2 DEF TrainActor, Types
<1>2. Types'
  BY <1>0, <1>1, ArgTypes DEF TrainActor, Types, Training, Trained, manager, AfterTrain, ShouldSave, ActorTrains
<1>3. DiskTypes'
  BY <1>1, ArgTypes DEF TrainActor, DiskTypes, manager, Weights, Result, AfterTrain, ShouldSave, RefDue
<1>4. Flow'
  BY <1>0, <1>1, ArgTypes DEF TrainActor, Flow, Types, Training, Trained, manager, AfterTrain, ShouldSave, ActorTrains
<1>5. InFlight'
  BY <1>1, ArgTypes DEF TrainActor, Flow, InFlight, Results, Types, Awaited, Training, Trained, manager, AfterTrain, ShouldSave, ActorTrains
<1>6. Results'
  BY <1>1, ArgTypes DEF TrainActor, Flow, Results, Types, Training, Trained, Collected, CollectedNext, manager, Weights, Result, AfterTrain, ShouldSave, RefDue
<1> QED BY <1>2, <1>3, <1>4, <1>5, <1>6 DEF LoopInv

\* The manager begins the generation that was submitted first.
LEMMA BeginGenerateLoop == ASSUME LoopInv, BeginGenerate PROVE LoopInv'
<1>1. /\ Types /\ DiskTypes /\ Flow /\ InFlight /\ Results
  BY DEF LoopInv
<1>0. /\ calls # << >> /\ 1 \in DOMAIN calls /\ Head(calls) = calls[1] /\ calls[1] \in Calls
      /\ calls' = Tail(calls) /\ calls' \in Seq(Calls)
      /\ \A i \in DOMAIN calls' : i + 1 \in DOMAIN calls /\ i + 1 # 1 /\ calls'[i] = calls[i + 1]
  BY <1>1, Taken DEF BeginGenerate, Types
<1>p. pc \notin {"create", "push"}
  BY <1>0, <1>1 DEF Flow
<1>b. busy' \in Generation
  BY <1>0, <1>1 DEF BeginGenerate, Types, Calls, Generation
<1>2. Types'
  BY <1>1, ArgTypes, <1>0, <1>b DEF BeginGenerate, Types, Training, Trained, manager, models
<1>3. DiskTypes'
  BY <1>1, ArgTypes, <1>0 DEF BeginGenerate, DiskTypes, manager, models
<1>4. Flow'
  BY <1>1, ArgTypes, <1>p DEF BeginGenerate, Flow, Types, Training, Trained, ActorTrains, manager, models
<1>5. InFlight'
  BY <1>1, ArgTypes, <1>0 DEF BeginGenerate, Flow, InFlight, Results, Types, Awaited, Training, Trained, manager, models
<1>6. Results'
  BY <1>1, ArgTypes, <1>0 DEF BeginGenerate, Flow, Results, Types, Training, Trained, Collected, CollectedNext, manager, models
<1> QED BY <1>2, <1>3, <1>4, <1>5, <1>6 DEF LoopInv

\* The result of a generation is there.
LEMMA EndGenerateLoop == ASSUME LoopInv, EndGenerate PROVE LoopInv'
<1>1. /\ Types /\ DiskTypes /\ Flow /\ InFlight /\ Results
  BY DEF LoopInv
<1>0. /\ busy \in Generation /\ busy.id = next /\ next \notin DOMAIN made
      /\ [batch |-> busy.batch, by |-> {busy.by, engine}] \in Result
      /\ pc \notin {"create", "push"}
  BY <1>1 DEF EndGenerate, Types, InFlight, Flow, Generation, Result
<1>2. Types'
  BY <1>1, ArgTypes, <1>0 DEF EndGenerate, Types, Training, Trained, Generation, manager, models, With
<1>3. DiskTypes'
  BY <1>1, ArgTypes DEF EndGenerate, DiskTypes, manager, models, With
<1>4. Flow'
  BY <1>1, ArgTypes, <1>0 DEF EndGenerate, Flow, Types, Training, Trained, ActorTrains, manager, models, With
<1>5. InFlight'
  BY <1>1, ArgTypes, <1>0 DEF EndGenerate, Flow, InFlight, Results, Types, Awaited, Training, Trained, manager, models, With
<1>6. Results'
  BY <1>1, ArgTypes, <1>0 DEF EndGenerate, Flow, Results, InFlight, Awaited, Types, Training, Trained, Collected, CollectedNext, manager, models, With
<1> QED BY <1>2, <1>3, <1>4, <1>5, <1>6 DEF LoopInv

\* The state of the data source is written behind the generation before it.
LEMMA SaveDataSourceLoop == ASSUME LoopInv, SaveDataSource PROVE LoopInv'
<1>1. /\ Types /\ DiskTypes /\ Flow /\ InFlight /\ Results
  BY DEF LoopInv
<1>0. /\ calls # << >> /\ 1 \in DOMAIN calls /\ Head(calls) = calls[1] /\ calls[1] \in Calls
      /\ calls' = Tail(calls) /\ calls' \in Seq(Calls)
      /\ \A i \in DOMAIN calls' : i + 1 \in DOMAIN calls /\ i + 1 # 1 /\ calls'[i] = calls[i + 1]
  BY <1>1, Taken DEF SaveDataSource, Types
<1>p. pc \notin {"create", "push"}
  BY <1>0, <1>1 DEF Flow
<1>2. Types'
  BY <1>1, ArgTypes, <1>0 DEF SaveDataSource, Types, Training, Trained, manager, models, With
<1>3. DiskTypes'
  BY <1>1, ArgTypes, <1>0 DEF SaveDataSource, DiskTypes, Roles, Types, Calls, manager, models, With
<1>4. Flow'
  BY <1>1, ArgTypes, <1>p DEF SaveDataSource, Flow, Types, Training, Trained, ActorTrains, manager, models, With
<1>5. InFlight'
  BY <1>1, ArgTypes, <1>0, SMTT(30) DEF SaveDataSource, Flow, InFlight, Results, Types, Awaited, Training, Trained, manager, models, With
<1>6. Results'
  BY <1>1, ArgTypes, <1>0 DEF SaveDataSource, Flow, Results, Types, Training, Trained, Collected, CollectedNext, manager, models, With
<1> QED BY <1>2, <1>3, <1>4, <1>5, <1>6 DEF LoopInv

\* train.py submits the generation it waits for.
LEMMA SubmitLoop == ASSUME LoopInv, Submit PROVE LoopInv'
<1>1. /\ Types /\ DiskTypes /\ Flow /\ InFlight /\ Results
  BY DEF LoopInv
<1>0. /\ calls' = Append(calls, [call |-> "generate", id |-> rollout_id]) /\ calls' \in Seq(Calls)
      /\ \A i \in DOMAIN calls : i \in DOMAIN calls' /\ calls'[i] = calls[i]
      /\ \A i \in DOMAIN calls' : i \in DOMAIN calls \/ (i = Len(calls) + 1 /\ calls'[i] = [call |-> "generate", id |-> rollout_id])
  <2>1. [call |-> "generate", id |-> rollout_id] \in Calls
    BY <1>1, ArgTypes DEF Calls, Types
  <2> QED BY <1>1, <2>1, Appended DEF Submit, Types
<1>2. Types'
  BY <1>1, ArgTypes, <1>0 DEF Submit, Types, Training, Trained, models, None
<1>3. DiskTypes'
  BY <1>1, ArgTypes DEF Submit, DiskTypes, models, None
<1>4. Flow'
  BY <1>1, ArgTypes DEF Submit, Flow, Types, Training, Trained, ActorTrains, models, None
<1>5. InFlight'
  BY <1>1, ArgTypes, <1>0 DEF Submit, Flow, InFlight, Results, Types, Awaited, Training, Trained, models, None
<1>6. Results'
  BY <1>1, ArgTypes, <1>0 DEF Submit, Flow, Results, Types, Training, Trained, Collected, CollectedNext, models, None
<1> QED BY <1>2, <1>3, <1>4, <1>5, <1>6 DEF LoopInv

\* The state of the data source is asked for, behind a generation.
LEMMA SaveDataLoop == ASSUME LoopInv, SaveData PROVE LoopInv'
<1>1. /\ Types /\ DiskTypes /\ Flow /\ InFlight /\ Results
  BY DEF LoopInv
<1>0. /\ calls' = Append(calls, [call |-> "save", id |-> rollout_id]) /\ calls' \in Seq(Calls)
      /\ \A i \in DOMAIN calls : i \in DOMAIN calls' /\ calls'[i] = calls[i]
      /\ \A i \in DOMAIN calls' : i \in DOMAIN calls \/ (i = Len(calls) + 1 /\ calls'[i] = [call |-> "save", id |-> rollout_id])
  <2>1. [call |-> "save", id |-> rollout_id] \in Calls
    BY <1>1, ArgTypes DEF Calls, Types
  <2> QED BY <1>1, <2>1, Appended DEF SaveData, Types
<1>2. Types'
  BY <1>1, ArgTypes, <1>0 DEF SaveData, Types, Training, Trained, models
<1>3. DiskTypes'
  BY <1>1, ArgTypes DEF SaveData, DiskTypes, models
<1>4. Flow'
  BY <1>1, ArgTypes DEF SaveData, Flow, Types, Training, Trained, ActorTrains, models
<1>5. InFlight'
  BY <1>1, ArgTypes, <1>0, SMTT(30) DEF SaveData, Flow, InFlight, Results, Types, Awaited, Training, Trained, models
<1>6. Results'
  BY <1>1, ArgTypes, <1>0 DEF SaveData, Flow, Results, Types, Training, Trained, Collected, CollectedNext, models
<1> QED BY <1>2, <1>3, <1>4, <1>5, <1>6 DEF LoopInv

\* train_async.py waits for the rollout in flight.
LEMMA AwaitRolloutLoop == ASSUME LoopInv, AwaitRollout PROVE LoopInv'
<1>1. /\ Types /\ DiskTypes /\ Flow /\ InFlight /\ Results
  BY DEF LoopInv
<1>2. Types'
  BY <1>1, ArgTypes DEF AwaitRollout, Types, Training, Trained, manager, models, None
<1>3. DiskTypes'
  BY <1>1, ArgTypes DEF AwaitRollout, DiskTypes, manager, models, None
<1>4. Flow'
  BY <1>1, ArgTypes DEF AwaitRollout, Flow, Types, Training, Trained, ActorTrains, manager, models, None
<1>5. InFlight'
  BY <1>1, ArgTypes DEF AwaitRollout, Flow, InFlight, Results, Types, Awaited, Training, Trained, manager, models, None
<1>6. Results'
  BY <1>1, ArgTypes DEF AwaitRollout, Flow, Results, Types, Training, Trained, Collected, CollectedNext, manager, models, None
<1> QED BY <1>2, <1>3, <1>4, <1>5, <1>6 DEF LoopInv

\* No update is due.
LEMMA SkipUpdateLoop == ASSUME LoopInv, SkipUpdate PROVE LoopInv'
<1>1. /\ Types /\ DiskTypes /\ Flow /\ InFlight /\ Results
  BY DEF LoopInv
<1>0. args.async /\ rollout_id < NumRollout
  BY <1>1 DEF SkipUpdate, UpdateDue, Flow, Types, Trained
<1>2. Types'
  BY <1>1, ArgTypes, <1>0 DEF SkipUpdate, Types, Training, Trained, manager, models, None
<1>3. DiskTypes'
  BY <1>1, ArgTypes DEF SkipUpdate, DiskTypes, manager, models, None
<1>4. Flow'
  BY <1>1, ArgTypes, <1>0 DEF SkipUpdate, Flow, Types, Training, Trained, ActorTrains, manager, models, None
<1>5. InFlight'
  BY <1>1, ArgTypes, <1>0 DEF SkipUpdate, Flow, InFlight, Results, Types, Awaited, Training, Trained, manager, models, None
<1>6. Results'
  BY <1>1, ArgTypes, <1>0 DEF SkipUpdate, Flow, Results, Types, Training, Trained, Collected, CollectedNext, manager, models, None
<1> QED BY <1>2, <1>3, <1>4, <1>5, <1>6 DEF LoopInv

\* The loop ends.
LEMMA DisposeLoop == ASSUME LoopInv, Dispose PROVE LoopInv'
<1>1. /\ Types /\ DiskTypes /\ Flow /\ InFlight /\ Results
  BY DEF LoopInv
<1>2. Types'
  BY <1>1, ArgTypes DEF Dispose, Types, Training, Trained, manager, models
<1>3. DiskTypes'
  BY <1>1, ArgTypes DEF Dispose, DiskTypes, manager, models
<1>4. Flow'
  BY <1>1, ArgTypes DEF Dispose, Flow, Types, Training, Trained, ActorTrains, manager, models
<1>5. InFlight'
  BY <1>1, ArgTypes DEF Dispose, Flow, InFlight, Results, Types, Awaited, Training, Trained, manager, models
<1>6. Results'
  BY <1>1, ArgTypes DEF Dispose, Flow, Results, Types, Training, Trained, Collected, CollectedNext, manager, models
<1> QED BY <1>2, <1>3, <1>4, <1>5, <1>6 DEF LoopInv

\* A role is saved, and its last save finalized.
LEMMA SaveActorLoop == ASSUME LoopInv, SaveActor PROVE LoopInv'
<1>1. /\ Types /\ DiskTypes /\ Flow /\ InFlight /\ Results
  BY DEF LoopInv
<1>2. Types'
  BY <1>1, ArgTypes DEF SaveActor, Types, Training, Trained, manager, models, Stored, With, Finalized, Roles, None
<1>3. DiskTypes'
  BY <1>1, ArgTypes DEF SaveActor, DiskTypes, Types, Flow, Training, Trained, manager, models, Stored, With, Finalized, Roles, None
<1>4. Flow'
  BY <1>1, ArgTypes DEF SaveActor, Flow, Types, Training, Trained, ActorTrains, manager, models, Stored, With, Finalized, Roles, None
<1>5. InFlight'
  BY <1>1, ArgTypes DEF SaveActor, Flow, InFlight, Results, Types, Awaited, Training, Trained, manager, models, Stored, With, Finalized, Roles, None
<1>6. Results'
  BY <1>1, ArgTypes DEF SaveActor, Flow, Results, Types, Training, Trained, Collected, CollectedNext, manager, models, Stored, With, Finalized, Roles, None
<1> QED BY <1>2, <1>3, <1>4, <1>5, <1>6 DEF LoopInv

\* A role is saved, and its last save finalized.
LEMMA SaveCriticLoop == ASSUME LoopInv, SaveCritic PROVE LoopInv'
<1>1. /\ Types /\ DiskTypes /\ Flow /\ InFlight /\ Results
  BY DEF LoopInv
<1>2. Types'
  BY <1>1, ArgTypes DEF SaveCritic, Types, Training, Trained, manager, models, Stored, With, Finalized, Roles, None
<1>3. DiskTypes'
  BY <1>1, ArgTypes DEF SaveCritic, DiskTypes, Types, Flow, Training, Trained, manager, models, Stored, With, Finalized, Roles, None
<1>4. Flow'
  BY <1>1, ArgTypes DEF SaveCritic, Flow, Types, Training, Trained, ActorTrains, manager, models, Stored, With, Finalized, Roles, None
<1>5. InFlight'
  BY <1>1, ArgTypes DEF SaveCritic, Flow, InFlight, Results, Types, Awaited, Training, Trained, manager, models, Stored, With, Finalized, Roles, None
<1>6. Results'
  BY <1>1, ArgTypes DEF SaveCritic, Flow, Results, Types, Training, Trained, Collected, CollectedNext, manager, models, Stored, With, Finalized, Roles, None
<1> QED BY <1>2, <1>3, <1>4, <1>5, <1>6 DEF LoopInv

\* The engines get the weights.
LEMMA UpdateWeightsLoop == ASSUME LoopInv, UpdateWeights PROVE LoopInv'
<1>1. /\ Types /\ DiskTypes /\ Flow /\ InFlight /\ Results
  BY DEF LoopInv
<1>0. engine' \in Weights /\ backups' \in [DOMAIN backups' -> Weights] /\ DOMAIN backups' = DOMAIN backups
      /\ rollout_id < NumRollout /\ pc \in Trained
  BY <1>1 DEF UpdateWeights, Sent, KeptOld, Types, Flow, Trained
<1>2. Types'
  BY <1>1, ArgTypes, <1>0 DEF UpdateWeights, Types, Training, Trained, manager
<1>3. DiskTypes'
  BY <1>1, ArgTypes DEF UpdateWeights, DiskTypes, manager
<1>4. Flow'
  BY <1>1, ArgTypes DEF UpdateWeights, Flow, Types, Training, Trained, ActorTrains, manager
<1>5. InFlight'
  BY <1>1, ArgTypes DEF UpdateWeights, Flow, InFlight, Results, Types, Awaited, Training, Trained, manager
<1>6. Results'
  BY <1>1, ArgTypes DEF UpdateWeights, Flow, Results, Types, Training, Trained, Collected, CollectedNext, manager
<1> QED BY <1>2, <1>3, <1>4, <1>5, <1>6 DEF LoopInv

\* The engines get the first weights, and train_async.py starts the first generation.
LEMMA FirstPushLoop == ASSUME LoopInv, FirstPush PROVE LoopInv'
<1>1. /\ Types /\ DiskTypes /\ Flow /\ InFlight /\ Results
  BY DEF LoopInv
<1>0. /\ calls' \in Seq(Calls)
      /\ IF args.async
         THEN /\ \A i \in DOMAIN calls : i \in DOMAIN calls' /\ calls'[i] = calls[i]
              /\ \A i \in DOMAIN calls' :
                   i \in DOMAIN calls \/ (i = Len(calls) + 1 /\ calls'[i] = [call |-> "generate", id |-> rollout_id])
         ELSE calls' = calls
  <2>1. [call |-> "generate", id |-> rollout_id] \in Calls
    BY <1>1, ArgTypes DEF Calls, Types
  <2>2. CASE args.async
    <3>1. calls' = Append(calls, [call |-> "generate", id |-> rollout_id])
      BY <2>2 DEF FirstPush
    <3> QED BY <1>1, <2>1, <2>2, <3>1, Appended DEF Types
  <2>3. CASE ~(args.async)
    BY <1>1, <2>3 DEF FirstPush, Types
  <2> QED BY <2>2, <2>3
<1>b. engine' \in Weights /\ backups' \in [DOMAIN backups' -> Weights] /\ DOMAIN backups' = DOMAIN backups
  BY <1>1 DEF FirstPush, Sent, KeptOld, Types
<1>2. Types'
  BY <1>1, ArgTypes, <1>0, <1>b DEF FirstPush, Types, Training, Trained, None
<1>3. DiskTypes'
  BY <1>1, ArgTypes DEF FirstPush, DiskTypes, None
<1>4. Flow'
  BY <1>1, ArgTypes DEF FirstPush, Flow, Types, Training, Trained, ActorTrains, None
<1>5. InFlight'
  BY <1>1, ArgTypes, <1>0 DEF FirstPush, Flow, InFlight, Results, Types, Awaited, Training, Trained, None
<1>6. Results'
  BY <1>1, ArgTypes, <1>0 DEF FirstPush, Flow, Results, Types, Training, Trained, Collected, CollectedNext, None
<1> QED BY <1>2, <1>3, <1>4, <1>5, <1>6 DEF LoopInv

\* The result of a generation is collected, and train_async.py starts the next one.
LEMMA CollectLoop == ASSUME LoopInv, Collect PROVE LoopInv'
<1>1. /\ Types /\ DiskTypes /\ Flow /\ InFlight /\ Results
  BY DEF LoopInv
<1>0. /\ calls' \in Seq(Calls)
      /\ IF args.async /\ rollout_id + 1 < NumRollout
         THEN /\ \A i \in DOMAIN calls : i \in DOMAIN calls' /\ calls'[i] = calls[i]
              /\ \A i \in DOMAIN calls' :
                   i \in DOMAIN calls \/ (i = Len(calls) + 1 /\ calls'[i] = [call |-> "generate", id |-> rollout_id + 1])
         ELSE calls' = calls
  <2>1. [call |-> "generate", id |-> rollout_id + 1] \in Calls
    BY <1>1, ArgTypes DEF Calls, Types
  <2>2. CASE args.async /\ rollout_id + 1 < NumRollout
    <3>1. calls' = Append(calls, [call |-> "generate", id |-> rollout_id + 1])
      BY <2>2 DEF Collect
    <3> QED BY <1>1, <2>1, <2>2, <3>1, Appended DEF Types
  <2>3. CASE ~(args.async /\ rollout_id + 1 < NumRollout)
    BY <1>1, <2>3 DEF Collect, Types
  <2> QED BY <2>2, <2>3
<1>b. busy = Nothing /\ \A i \in DOMAIN calls : calls[i].call # "generate"
  BY <1>1, ArgTypes DEF Collect, Flow, InFlight, Awaited, Types
<1>c. \A i \in DOMAIN calls : calls[i].call # "save"
  BY <1>1, ArgTypes DEF Collect, InFlight, Types
<1>2. Types'
  BY <1>1, ArgTypes, <1>0 DEF Collect, Types, Training, Trained, models, None
<1>3. DiskTypes'
  BY <1>1, ArgTypes DEF Collect, DiskTypes, models, None
<1>4. Flow'
  BY <1>1, ArgTypes DEF Collect, Flow, Types, Training, Trained, ActorTrains, models, None
<1>5. InFlight'
  <2>1. CASE args.async /\ rollout_id + 1 < NumRollout
    <3>1. rollout_id + 1 \notin DOMAIN made
      BY <1>1, <2>1 DEF Collect, Results, Types
    <3>2. Awaited' /\ next' = rollout_id + 1 /\ made' = made /\ busy' = Nothing
      BY <1>1, <1>b, <2>1 DEF Collect, Types, Awaited, None
    <3> QED BY <1>0, <1>b, <1>c, <2>1, <3>1, <3>2 DEF InFlight
  <2>2. CASE ~(args.async /\ rollout_id + 1 < NumRollout)
    BY <1>0, <1>b, <1>c, <2>2 DEF Collect, InFlight
  <2> QED BY <2>1, <2>2
<1>6. Results'
  BY <1>1, ArgTypes, <1>0 DEF Collect, Flow, Results, Types, Training, Trained, Collected, CollectedNext, models, None
<1> QED BY <1>2, <1>3, <1>4, <1>5, <1>6 DEF LoopInv

\* A step that changes nothing.
LEMMA StutterLoop == ASSUME LoopInv, UNCHANGED vars PROVE LoopInv'
BY DEF LoopInv, vars, manager, models, Types, DiskTypes, Flow, InFlight, Results, Awaited, Collected,
       CollectedNext, ActorTrains

\* All files are missing, and the driver creates the models.
LEMMA InitLoop == Init => LoopInv
<1> SUFFICES ASSUME Init PROVE LoopInv
  OBVIOUS
<1>1. Fresh \in Weights /\ calls \in Seq(Calls) /\ DOMAIN calls = {} /\ DOMAIN made = {}
  BY DEF Init, Fresh, Weights
<1>2. Types
  <2>1. backups \in [DOMAIN backups -> Weights] /\ "actor" \in DOMAIN backups
    BY <1>1 DEF Init
  <2>2. /\ args \in Settings /\ pc = "create" /\ rollout_id = 0 /\ next = None /\ position = 0
        /\ crashes = 0 /\ blind = FALSE /\ busy = Nothing
        /\ engine = Fresh /\ live = Fresh /\ critic = Fresh
    BY DEF Init
  <2>3. NumRollout \in Nat
    BY NumRolloutAssumption
  <2>4. pc \in {"create", "push", "loop", "collect", "done"} \cup Training \cup Trained
    BY <2>2
  <2>5. rollout_id \in 0 .. NumRollout /\ next \in Nat \cup {None} /\ position \in Nat /\ crashes \in Nat
    BY <2>2, <2>3 DEF None
  <2>8. blind \in BOOLEAN
    BY <2>2
  <2>6. engine \in Weights /\ live \in Weights /\ critic \in Weights /\ busy \in Generation \cup {Nothing}
    BY <2>2, <1>1
  <2>7. \A k \in DOMAIN made : k \in Nat /\ made[k] \in Result
    BY <1>1
  <2> QED BY <1>1, <2>1, <2>2, <2>4, <2>5, <2>6, <2>7, <2>8 DEF Types
<1>4. DiskTypes
  <2>1. \A role \in Roles : disk[role].last = None /\ DOMAIN disk[role].saved = {}
    BY DEF Init, Roles
  <2>2. DOMAIN disk.data = {} /\ DOMAIN disk = Roles \cup {"data"}
    BY DEF Init, Roles
  <2>3. pending = [role \in Roles |-> None]
    BY DEF Init, Roles
  <2> QED BY <2>1, <2>2, <2>3 DEF DiskTypes
<1>3. Flow /\ InFlight /\ Results
  BY <1>1, <1>2 DEF Init, Flow, InFlight, Results, Awaited, Collected, CollectedNext, Training, Trained, None
<1> QED BY <1>2, <1>3, <1>4 DEF LoopInv

\* Every step keeps the loop and its generation in flight.
LEMMA NextLoop == LoopInv /\ [Next]_vars => LoopInv'
BY CreateLoop, CrashLoop, FirstPushLoop, SubmitLoop, CollectLoop, TrainCriticLoop, TrainActorLoop,
   SaveActorLoop, SaveCriticLoop, SaveDataLoop, SavedDataLoop, AwaitRolloutLoop, UpdateWeightsLoop,
   SkipUpdateLoop, DisposeLoop, BeginGenerateLoop, EndGenerateLoop, SaveDataSourceLoop, StutterLoop
DEF Next, Driver, Manager, Finished

-----------------------------------------------------------------------------
(* The versions of the weights. *)

\* The number of steps in an interval grows by one or begins again.
LEMMA NextInInterval ==
  ASSUME NEW r \in Nat, NEW k \in Nat, k > 0
  PROVE  /\ r % k \in Nat /\ (r % k) + 1 <= k
         /\ (r + 1) % k = 0 \/ (r + 1) % k = (r % k) + 1
<1> DEFINE q == r \div k
           s == r % k
           p == (r + 1) \div k
           v == (r + 1) % k
<1>1. /\ q \in Nat /\ s \in Nat /\ s < k /\ r = k * q + s
      /\ p \in Nat /\ v \in Nat /\ v < k /\ r + 1 = k * p + v
  OBVIOUS
<1> HIDE DEF q, s, p, v
<1>2. k * p + v = k * q + s + 1
  BY <1>1
<1>3. CASE p <= q
  <2>1. p = q
    <3> SUFFICES ASSUME p < q PROVE FALSE
      BY <1>1, <1>3
    <3>1. k * (p + 1) <= k * q
      BY <1>1
    <3>2. k * (p + 1) = k * p + k
      BY <1>1
    <3> QED BY <1>1, <1>2, <3>1, <3>2
  <2> QED BY <1>1, <1>2, <2>1 DEF s, v
<1>4. CASE p > q
  <2>1. k * (q + 1) <= k * p
    BY <1>1, <1>4
  <2>2. k * (q + 1) = k * q + k
    BY <1>1
  <2>3. v = 0
    BY <1>1, <1>2, <2>1, <2>2
  <2> QED BY <1>1, <2>3 DEF s, v
<1> QED BY <1>1, <1>3, <1>4

\* The actor is no step behind itself, and what is behind by some steps is behind by
\* no more than a larger number of them.
LEMMA PastFacts ==
  ASSUME backups.actor \in Weights
  PROVE  /\ \A k \in Nat : backups.actor \in Past(k)
         /\ \A k, m \in Nat : k <= m => Past(k) \subseteq Past(m)
<1>1. SubSeq(backups.actor, 1, Len(backups.actor)) = backups.actor /\ Len(backups.actor) \in Nat
  BY DEF Weights
<1>2. ASSUME NEW k \in Nat PROVE backups.actor \in Past(k)
  BY <1>1, <1>2 DEF Past
<1>3. ASSUME NEW k \in Nat, NEW m \in Nat, k <= m PROVE Past(k) \subseteq Past(m)
  BY <1>1, <1>3 DEF Past
<1> QED BY <1>2, <1>3

\* Training takes the actor one step further away.
LEMMA PastTrained ==
  ASSUME NEW b \in Nat, NEW k \in Nat, backups.actor \in Weights,
         backups'.actor = Append(backups.actor, b)
  PROVE  Past(k) \subseteq Past(k + 1)'
<1> SUFFICES ASSUME NEW w \in Past(k) PROVE w \in Past(k + 1)'
  OBVIOUS
<1>1. PICK n \in 0 .. Len(backups.actor) :
        Len(backups.actor) - n <= k /\ w = SubSeq(backups.actor, 1, n)
  BY DEF Past
<1>2. Len(backups'.actor) = Len(backups.actor) + 1 /\ Len(backups.actor) \in Nat
  BY DEF Weights
<1>3. SubSeq(backups'.actor, 1, n) = SubSeq(backups.actor, 1, n)
  BY <1>1 DEF Weights
<1> QED BY <1>1, <1>2, <1>3 DEF Past

\* What the steps of an interval are bounded by.
LEMMA StepsFacts ==
  ASSUME Types
  PROVE  /\ StepsInInterval \in Nat /\ StepsAllowed \in Nat /\ StepsInInterval <= StepsAllowed
         /\ args.async => StepsInInterval + 1 <= StepsAllowed
<1>1. args.async \in BOOLEAN /\ args.interval \in Nat /\ args.interval > 0 /\ rollout_id \in Nat
  BY ArgTypes DEF Types
<1>2. rollout_id % args.interval \in Nat /\ (rollout_id % args.interval) + 1 <= args.interval
  BY <1>1, NextInInterval
<1> QED BY <1>1, <1>2 DEF StepsInInterval, StepsAllowed

\* A step that leaves the weights of the engines, the actor and the iteration.
LEMMA VersionsFrame ==
  ASSUME Versions, Types, UNCHANGED <<args, engine, live, backups, rollout_id>>,
         pc \notin {"create", "push"}, pc' \notin {"create", "push"}, pc \in Trained => pc' \in Trained
  PROVE  /\ live' = backups'.actor
         /\ engine' \in Past(IF pc \in Trained THEN StepsInInterval + 1 ELSE StepsInInterval)'
         /\ StepsAllowed' = StepsAllowed
         /\ \A k \in Nat : Past(k)' = Past(k)
<1>1. \A k \in Nat : Past(k)' = Past(k)
  BY DEF Past
<1>2. Past(StepsInInterval) \subseteq Past(StepsInInterval + 1) /\ StepsInInterval \in Nat
  BY PastFacts, StepsFacts DEF Types
<1>3. engine \in Past(IF pc' \in Trained THEN StepsInInterval + 1 ELSE StepsInInterval)
  BY <1>2 DEF Versions
<1>4. Past(IF pc \in Trained THEN StepsInInterval + 1 ELSE StepsInInterval)' =
        Past(IF pc' \in Trained THEN StepsInInterval + 1 ELSE StepsInInterval)
  BY DEF Past, StepsInInterval
<1> QED BY <1>1, <1>3, <1>4 DEF Versions, StepsAllowed

\* A generation begins with the weights of the engines.
LEMMA SubmitVersions == ASSUME LoopInv, LoopInv', RefSwitchedBack, Versions, Submit PROVE Versions'
<1>1. /\ Types /\ Flow /\ InFlight /\ Results /\ Types' /\ Flow' /\ InFlight' /\ Results'
  BY DEF LoopInv
<1>2. /\ UNCHANGED <<args, engine, live, backups, rollout_id>>
      /\ pc \notin {"create", "push"} /\ pc' \notin {"create", "push"} /\ (pc \in Trained => pc' \in Trained)
  BY <1>1, ArgTypes DEF Submit, Types, Flow, Trained, AfterTrain, manager, models
<1>3. /\ live' = backups'.actor
      /\ engine' \in Past(IF pc \in Trained THEN StepsInInterval + 1 ELSE StepsInInterval)'
      /\ StepsAllowed' = StepsAllowed /\ Past(StepsAllowed)' = Past(StepsAllowed)
  BY <1>1, <1>2, VersionsFrame, StepsFacts
<1>4. busy' # Nothing => busy'.by = engine'
  BY <1>1, <1>2 DEF Submit, Versions, Types, Flow, InFlight, Results, Awaited, Collected, CollectedNext, Training, Trained, None, manager
<1>5. Awaited' /\ next' \in DOMAIN made' => made'[next'].by = {engine'}
  BY <1>1, <1>2, ArgTypes DEF Submit, Versions, Types, Flow, InFlight, Results, Awaited, Collected, CollectedNext, Training, Trained, None, manager, AfterTrain
<1>6. pc' \in Training \/ Collected' => \E w \in Past(StepsAllowed) : curr'.by = {w}
  BY <1>1, <1>2, ArgTypes DEF Submit, Versions, Types, Flow, InFlight, Results, Awaited, Collected, CollectedNext, Training, Trained, None, AfterTrain
<1>7. CollectedNext' => curr'.by = {engine'}
  BY <1>1, <1>2, ArgTypes DEF Submit, Versions, Types, Flow, InFlight, Results, Awaited, Collected, CollectedNext, Training, Trained, None, AfterTrain
<1> QED BY <1>3, <1>4, <1>5, <1>6, <1>7 DEF Versions

\* The actor is not trained.
LEMMA TrainCriticVersions == ASSUME LoopInv, LoopInv', RefSwitchedBack, Versions, TrainCritic PROVE Versions'
<1>1. /\ Types /\ Flow /\ InFlight /\ Results /\ Types' /\ Flow' /\ InFlight' /\ Results'
  BY DEF LoopInv
<1>2. /\ UNCHANGED <<args, engine, live, backups, rollout_id>>
      /\ pc \notin {"create", "push"} /\ pc' \notin {"create", "push"} /\ (pc \in Trained => pc' \in Trained)
  BY <1>1, ArgTypes DEF TrainCritic, Types, Flow, Trained, AfterTrain, manager, models
<1>3. /\ live' = backups'.actor
      /\ engine' \in Past(IF pc \in Trained THEN StepsInInterval + 1 ELSE StepsInInterval)'
      /\ StepsAllowed' = StepsAllowed /\ Past(StepsAllowed)' = Past(StepsAllowed)
  BY <1>1, <1>2, VersionsFrame, StepsFacts
<1>4. busy' # Nothing => busy'.by = engine'
  BY <1>1, <1>2 DEF TrainCritic, Versions, Types, Flow, InFlight, Results, Awaited, Collected, CollectedNext, Training, Trained, None, manager
<1>5. Awaited' /\ next' \in DOMAIN made' => made'[next'].by = {engine'}
  BY <1>1, <1>2, ArgTypes DEF TrainCritic, Versions, Types, Flow, InFlight, Results, Awaited, Collected, CollectedNext, Training, Trained, None, manager, AfterTrain
<1>6. pc' \in Training \/ Collected' => \E w \in Past(StepsAllowed) : curr'.by = {w}
  BY <1>1, <1>2, ArgTypes DEF TrainCritic, Versions, Types, Flow, InFlight, Results, Awaited, Collected, CollectedNext, Training, Trained, None, AfterTrain
<1>7. CollectedNext' => curr'.by = {engine'}
  BY <1>1, <1>2, ArgTypes DEF TrainCritic, Versions, Types, Flow, InFlight, Results, Awaited, Collected, CollectedNext, Training, Trained, None, AfterTrain
<1> QED BY <1>3, <1>4, <1>5, <1>6, <1>7 DEF Versions

\* A save changes no weights.
LEMMA SaveActorVersions == ASSUME LoopInv, LoopInv', RefSwitchedBack, Versions, SaveActor PROVE Versions'
<1>1. /\ Types /\ Flow /\ InFlight /\ Results /\ Types' /\ Flow' /\ InFlight' /\ Results'
  BY DEF LoopInv
<1>2. /\ UNCHANGED <<args, engine, live, backups, rollout_id>>
      /\ pc \notin {"create", "push"} /\ pc' \notin {"create", "push"} /\ (pc \in Trained => pc' \in Trained)
  BY <1>1, ArgTypes DEF SaveActor, Types, Flow, Trained, AfterTrain, manager, models
<1>3. /\ live' = backups'.actor
      /\ engine' \in Past(IF pc \in Trained THEN StepsInInterval + 1 ELSE StepsInInterval)'
      /\ StepsAllowed' = StepsAllowed /\ Past(StepsAllowed)' = Past(StepsAllowed)
  BY <1>1, <1>2, VersionsFrame, StepsFacts
<1>4. busy' # Nothing => busy'.by = engine'
  BY <1>1, <1>2 DEF SaveActor, Versions, Types, Flow, InFlight, Results, Awaited, Collected, CollectedNext, Training, Trained, None, manager
<1>5. Awaited' /\ next' \in DOMAIN made' => made'[next'].by = {engine'}
  BY <1>1, <1>2, ArgTypes DEF SaveActor, Versions, Types, Flow, InFlight, Results, Awaited, Collected, CollectedNext, Training, Trained, None, manager, AfterTrain
<1>6. pc' \in Training \/ Collected' => \E w \in Past(StepsAllowed) : curr'.by = {w}
  BY <1>1, <1>2, ArgTypes DEF SaveActor, Versions, Types, Flow, InFlight, Results, Awaited, Collected, CollectedNext, Training, Trained, None, AfterTrain
<1>7. CollectedNext' => curr'.by = {engine'}
  BY <1>1, <1>2, ArgTypes DEF SaveActor, Versions, Types, Flow, InFlight, Results, Awaited, Collected, CollectedNext, Training, Trained, None, AfterTrain
<1> QED BY <1>3, <1>4, <1>5, <1>6, <1>7 DEF Versions

\* A save changes no weights.
LEMMA SaveCriticVersions == ASSUME LoopInv, LoopInv', RefSwitchedBack, Versions, SaveCritic PROVE Versions'
<1>1. /\ Types /\ Flow /\ InFlight /\ Results /\ Types' /\ Flow' /\ InFlight' /\ Results'
  BY DEF LoopInv
<1>2. /\ UNCHANGED <<args, engine, live, backups, rollout_id>>
      /\ pc \notin {"create", "push"} /\ pc' \notin {"create", "push"} /\ (pc \in Trained => pc' \in Trained)
  BY <1>1, ArgTypes DEF SaveCritic, Types, Flow, Trained, AfterTrain, manager, models
<1>3. /\ live' = backups'.actor
      /\ engine' \in Past(IF pc \in Trained THEN StepsInInterval + 1 ELSE StepsInInterval)'
      /\ StepsAllowed' = StepsAllowed /\ Past(StepsAllowed)' = Past(StepsAllowed)
  BY <1>1, <1>2, VersionsFrame, StepsFacts
<1>4. busy' # Nothing => busy'.by = engine'
  BY <1>1, <1>2 DEF SaveCritic, Versions, Types, Flow, InFlight, Results, Awaited, Collected, CollectedNext, Training, Trained, None, manager
<1>5. Awaited' /\ next' \in DOMAIN made' => made'[next'].by = {engine'}
  BY <1>1, <1>2, ArgTypes DEF SaveCritic, Versions, Types, Flow, InFlight, Results, Awaited, Collected, CollectedNext, Training, Trained, None, manager, AfterTrain
<1>6. pc' \in Training \/ Collected' => \E w \in Past(StepsAllowed) : curr'.by = {w}
  BY <1>1, <1>2, ArgTypes DEF SaveCritic, Versions, Types, Flow, InFlight, Results, Awaited, Collected, CollectedNext, Training, Trained, None, AfterTrain
<1>7. CollectedNext' => curr'.by = {engine'}
  BY <1>1, <1>2, ArgTypes DEF SaveCritic, Versions, Types, Flow, InFlight, Results, Awaited, Collected, CollectedNext, Training, Trained, None, AfterTrain
<1> QED BY <1>3, <1>4, <1>5, <1>6, <1>7 DEF Versions

\* A save changes no weights.
LEMMA SaveDataVersions == ASSUME LoopInv, LoopInv', RefSwitchedBack, Versions, SaveData PROVE Versions'
<1>1. /\ Types /\ Flow /\ InFlight /\ Results /\ Types' /\ Flow' /\ InFlight' /\ Results'
  BY DEF LoopInv
<1>2. /\ UNCHANGED <<args, engine, live, backups, rollout_id>>
      /\ pc \notin {"create", "push"} /\ pc' \notin {"create", "push"} /\ (pc \in Trained => pc' \in Trained)
  BY <1>1, ArgTypes DEF SaveData, Types, Flow, Trained, AfterTrain, manager, models
<1>3. /\ live' = backups'.actor
      /\ engine' \in Past(IF pc \in Trained THEN StepsInInterval + 1 ELSE StepsInInterval)'
      /\ StepsAllowed' = StepsAllowed /\ Past(StepsAllowed)' = Past(StepsAllowed)
  BY <1>1, <1>2, VersionsFrame, StepsFacts
<1>4. busy' # Nothing => busy'.by = engine'
  BY <1>1, <1>2 DEF SaveData, Versions, Types, Flow, InFlight, Results, Awaited, Collected, CollectedNext, Training, Trained, None, manager
<1>5. Awaited' /\ next' \in DOMAIN made' => made'[next'].by = {engine'}
  BY <1>1, <1>2, ArgTypes DEF SaveData, Versions, Types, Flow, InFlight, Results, Awaited, Collected, CollectedNext, Training, Trained, None, manager, AfterTrain
<1>6. pc' \in Training \/ Collected' => \E w \in Past(StepsAllowed) : curr'.by = {w}
  BY <1>1, <1>2, ArgTypes DEF SaveData, Versions, Types, Flow, InFlight, Results, Awaited, Collected, CollectedNext, Training, Trained, None, AfterTrain
<1>7. CollectedNext' => curr'.by = {engine'}
  BY <1>1, <1>2, ArgTypes DEF SaveData, Versions, Types, Flow, InFlight, Results, Awaited, Collected, CollectedNext, Training, Trained, None, AfterTrain
<1> QED BY <1>3, <1>4, <1>5, <1>6, <1>7 DEF Versions

\* A save changes no weights.
LEMMA SavedDataVersions == ASSUME LoopInv, LoopInv', RefSwitchedBack, Versions, SavedData PROVE Versions'
<1>1. /\ Types /\ Flow /\ InFlight /\ Results /\ Types' /\ Flow' /\ InFlight' /\ Results'
  BY DEF LoopInv
<1>2. /\ UNCHANGED <<args, engine, live, backups, rollout_id>>
      /\ pc \notin {"create", "push"} /\ pc' \notin {"create", "push"} /\ (pc \in Trained => pc' \in Trained)
  BY <1>1, ArgTypes DEF SavedData, Types, Flow, Trained, AfterTrain, manager, models
<1>3. /\ live' = backups'.actor
      /\ engine' \in Past(IF pc \in Trained THEN StepsInInterval + 1 ELSE StepsInInterval)'
      /\ StepsAllowed' = StepsAllowed /\ Past(StepsAllowed)' = Past(StepsAllowed)
  BY <1>1, <1>2, VersionsFrame, StepsFacts
<1>4. busy' # Nothing => busy'.by = engine'
  BY <1>1, <1>2 DEF SavedData, Versions, Types, Flow, InFlight, Results, Awaited, Collected, CollectedNext, Training, Trained, None, manager
<1>5. Awaited' /\ next' \in DOMAIN made' => made'[next'].by = {engine'}
  BY <1>1, <1>2, ArgTypes DEF SavedData, Versions, Types, Flow, InFlight, Results, Awaited, Collected, CollectedNext, Training, Trained, None, manager, AfterTrain
<1>6. pc' \in Training \/ Collected' => \E w \in Past(StepsAllowed) : curr'.by = {w}
  BY <1>1, <1>2, ArgTypes DEF SavedData, Versions, Types, Flow, InFlight, Results, Awaited, Collected, CollectedNext, Training, Trained, None, AfterTrain
<1>7. CollectedNext' => curr'.by = {engine'}
  BY <1>1, <1>2, ArgTypes DEF SavedData, Versions, Types, Flow, InFlight, Results, Awaited, Collected, CollectedNext, Training, Trained, None, AfterTrain
<1> QED BY <1>3, <1>4, <1>5, <1>6, <1>7 DEF Versions

\* What was awaited is by the weights of the engines.
LEMMA AwaitRolloutVersions == ASSUME LoopInv, LoopInv', RefSwitchedBack, Versions, AwaitRollout PROVE Versions'
<1>1. /\ Types /\ Flow /\ InFlight /\ Results /\ Types' /\ Flow' /\ InFlight' /\ Results'
  BY DEF LoopInv
<1>2. /\ UNCHANGED <<args, engine, live, backups, rollout_id>>
      /\ pc \notin {"create", "push"} /\ pc' \notin {"create", "push"} /\ (pc \in Trained => pc' \in Trained)
  BY <1>1, ArgTypes DEF AwaitRollout, Types, Flow, Trained, AfterTrain, manager, models
<1>3. /\ live' = backups'.actor
      /\ engine' \in Past(IF pc \in Trained THEN StepsInInterval + 1 ELSE StepsInInterval)'
      /\ StepsAllowed' = StepsAllowed /\ Past(StepsAllowed)' = Past(StepsAllowed)
  BY <1>1, <1>2, VersionsFrame, StepsFacts
<1>4. busy' # Nothing => busy'.by = engine'
  BY <1>1, <1>2 DEF AwaitRollout, Versions, Types, Flow, InFlight, Results, Awaited, Collected, CollectedNext, Training, Trained, None, manager
<1>5. Awaited' /\ next' \in DOMAIN made' => made'[next'].by = {engine'}
  BY <1>1, <1>2, ArgTypes DEF AwaitRollout, Versions, Types, Flow, InFlight, Results, Awaited, Collected, CollectedNext, Training, Trained, None, manager, AfterTrain
<1>6. pc' \in Training \/ Collected' => \E w \in Past(StepsAllowed) : curr'.by = {w}
  BY <1>1, <1>2, ArgTypes DEF AwaitRollout, Versions, Types, Flow, InFlight, Results, Awaited, Collected, CollectedNext, Training, Trained, None, AfterTrain
<1>7. CollectedNext' => curr'.by = {engine'}
  BY <1>1, <1>2, ArgTypes DEF AwaitRollout, Versions, Types, Flow, InFlight, Results, Awaited, Collected, CollectedNext, Training, Trained, None, AfterTrain
<1> QED BY <1>3, <1>4, <1>5, <1>6, <1>7 DEF Versions

\* A generation is by the weights of the engines.
LEMMA BeginGenerateVersions == ASSUME LoopInv, LoopInv', RefSwitchedBack, Versions, BeginGenerate PROVE Versions'
<1>1. /\ Types /\ Flow /\ InFlight /\ Results /\ Types' /\ Flow' /\ InFlight' /\ Results'
  BY DEF LoopInv
<1>2. /\ UNCHANGED <<args, engine, live, backups, rollout_id>>
      /\ pc \notin {"create", "push"} /\ pc' \notin {"create", "push"} /\ (pc \in Trained => pc' \in Trained)
  BY <1>1, ArgTypes DEF BeginGenerate, Types, Flow, Trained, InFlight, Awaited, AfterTrain, manager, models
<1>3. /\ live' = backups'.actor
      /\ engine' \in Past(IF pc \in Trained THEN StepsInInterval + 1 ELSE StepsInInterval)'
      /\ StepsAllowed' = StepsAllowed /\ Past(StepsAllowed)' = Past(StepsAllowed)
  BY <1>1, <1>2, VersionsFrame, StepsFacts
<1>4. busy' # Nothing => busy'.by = engine'
  BY <1>1, <1>2 DEF BeginGenerate, Versions, Types, Flow, InFlight, Results, Awaited, Collected, CollectedNext, Training, Trained, None, manager, Generation
<1>5. Awaited' /\ next' \in DOMAIN made' => made'[next'].by = {engine'}
  BY <1>1, <1>2, ArgTypes DEF BeginGenerate, Versions, Types, Flow, InFlight, Results, Awaited, Collected, CollectedNext, Training, Trained, None, manager, AfterTrain, Generation
<1>6. pc' \in Training \/ Collected' => \E w \in Past(StepsAllowed) : curr'.by = {w}
  BY <1>1, <1>2, ArgTypes, ZenonT(30) DEF BeginGenerate, Versions, Types, Flow, InFlight, Results, Awaited, Collected, CollectedNext, Training, Trained, None, AfterTrain, Generation
<1>7. CollectedNext' => curr'.by = {engine'}
  BY <1>1, <1>2, ArgTypes DEF BeginGenerate, Versions, Types, Flow, InFlight, Results, Awaited, Collected, CollectedNext, Training, Trained, None, AfterTrain, Generation
<1> QED BY <1>3, <1>4, <1>5, <1>6, <1>7 DEF Versions

\* The engines have the weights they began with.
LEMMA EndGenerateVersions == ASSUME LoopInv, LoopInv', RefSwitchedBack, Versions, EndGenerate PROVE Versions'
<1>1. /\ Types /\ Flow /\ InFlight /\ Results /\ Types' /\ Flow' /\ InFlight' /\ Results'
  BY DEF LoopInv
<1>2. /\ UNCHANGED <<args, engine, live, backups, rollout_id>>
      /\ pc \notin {"create", "push"} /\ pc' \notin {"create", "push"} /\ (pc \in Trained => pc' \in Trained)
  BY <1>1, ArgTypes DEF EndGenerate, Types, Flow, Trained, InFlight, Awaited, AfterTrain, manager, models
<1>3. /\ live' = backups'.actor
      /\ engine' \in Past(IF pc \in Trained THEN StepsInInterval + 1 ELSE StepsInInterval)'
      /\ StepsAllowed' = StepsAllowed /\ Past(StepsAllowed)' = Past(StepsAllowed)
  BY <1>1, <1>2, VersionsFrame, StepsFacts
<1>4. busy' # Nothing => busy'.by = engine'
  BY <1>1, <1>2 DEF EndGenerate, Versions, Types, Flow, InFlight, Results, Awaited, Collected, CollectedNext, Training, Trained, None, manager, With, Generation
<1>5. Awaited' /\ next' \in DOMAIN made' => made'[next'].by = {engine'}
  BY <1>1, <1>2, ArgTypes DEF EndGenerate, Versions, Types, Flow, InFlight, Results, Awaited, Collected, CollectedNext, Training, Trained, None, manager, AfterTrain, With, Generation
<1>6. pc' \in Training \/ Collected' => \E w \in Past(StepsAllowed) : curr'.by = {w}
  BY <1>1, <1>2, ArgTypes DEF EndGenerate, Versions, Types, Flow, InFlight, Results, Awaited, Collected, CollectedNext, Training, Trained, None, AfterTrain, With, Generation
<1>7. CollectedNext' => curr'.by = {engine'}
  BY <1>1, <1>2, ArgTypes DEF EndGenerate, Versions, Types, Flow, InFlight, Results, Awaited, Collected, CollectedNext, Training, Trained, None, AfterTrain, With, Generation
<1> QED BY <1>3, <1>4, <1>5, <1>6, <1>7 DEF Versions

\* A save changes no weights.
LEMMA SaveDataSourceVersions == ASSUME LoopInv, LoopInv', RefSwitchedBack, Versions, SaveDataSource PROVE Versions'
<1>1. /\ Types /\ Flow /\ InFlight /\ Results /\ Types' /\ Flow' /\ InFlight' /\ Results'
  BY DEF LoopInv
<1>2. /\ UNCHANGED <<args, engine, live, backups, rollout_id>>
      /\ pc \notin {"create", "push"} /\ pc' \notin {"create", "push"} /\ (pc \in Trained => pc' \in Trained)
  BY <1>1, ArgTypes DEF SaveDataSource, Types, Flow, Trained, InFlight, Awaited, AfterTrain, manager, models
<1>3. /\ live' = backups'.actor
      /\ engine' \in Past(IF pc \in Trained THEN StepsInInterval + 1 ELSE StepsInInterval)'
      /\ StepsAllowed' = StepsAllowed /\ Past(StepsAllowed)' = Past(StepsAllowed)
  BY <1>1, <1>2, VersionsFrame, StepsFacts
<1>4. busy' # Nothing => busy'.by = engine'
  BY <1>1, <1>2 DEF SaveDataSource, Versions, Types, Flow, InFlight, Results, Awaited, Collected, CollectedNext, Training, Trained, None, manager
<1>5. Awaited' /\ next' \in DOMAIN made' => made'[next'].by = {engine'}
  BY <1>1, <1>2, ArgTypes DEF SaveDataSource, Versions, Types, Flow, InFlight, Results, Awaited, Collected, CollectedNext, Training, Trained, None, manager, AfterTrain
<1>6. pc' \in Training \/ Collected' => \E w \in Past(StepsAllowed) : curr'.by = {w}
  BY <1>1, <1>2, ArgTypes DEF SaveDataSource, Versions, Types, Flow, InFlight, Results, Awaited, Collected, CollectedNext, Training, Trained, None, AfterTrain
<1>7. CollectedNext' => curr'.by = {engine'}
  BY <1>1, <1>2, ArgTypes DEF SaveDataSource, Versions, Types, Flow, InFlight, Results, Awaited, Collected, CollectedNext, Training, Trained, None, AfterTrain
<1> QED BY <1>3, <1>4, <1>5, <1>6, <1>7 DEF Versions

\* Engines that have just got the actor are no step behind.
LEMMA EngineIsActor == ASSUME Types', engine' = backups'.actor PROVE engine' \in Past(StepsInInterval)'
<1>1. StepsInInterval' \in Nat
  <2>1. args'.interval \in Nat /\ args'.interval > 0 /\ rollout_id' \in Nat
    BY SettingsAssumption, NumRolloutAssumption DEF Types
  <2>2. rollout_id' % args'.interval \in Nat
    BY <2>1, NextInInterval
  <2> QED BY <2>2 DEF StepsInInterval
<1>2. engine' \in Weights
  BY DEF Types
<1>3. SubSeq(engine', 1, Len(engine')) = engine' /\ Len(engine') \in Nat
  BY <1>2 DEF Weights
<1> QED BY <1>1, <1>3 DEF Past

\* The actor is in the model when the reference has been switched back.
LEMMA CreateVersions == ASSUME LoopInv, LoopInv', RefSwitchedBack, Versions, Create PROVE Versions'
<1>1. /\ Types /\ Flow /\ InFlight /\ Results /\ Types' /\ Flow' /\ InFlight' /\ Results'
  BY DEF LoopInv
<1>2. live' = backups'.actor
  BY <1>1, ArgTypes DEF Create, InitialLive, InitialBackups, With, RefSwitchedBack, Types
<1> QED BY <1>1, <1>2 DEF Create, Versions, Flow, Awaited, Collected, CollectedNext, Training, Trained

\* No result is left.
LEMMA CrashVersions == ASSUME LoopInv, LoopInv', RefSwitchedBack, Versions, Crash PROVE Versions'
<1>1. /\ Types /\ Flow /\ InFlight /\ Results /\ Types' /\ Flow' /\ InFlight' /\ Results'
  BY DEF LoopInv
<1> QED BY <1>1 DEF Crash, models, Versions, Awaited, Collected, CollectedNext, Training, Trained

\* The engines get the actor.
LEMMA FirstPushVersions == ASSUME LoopInv, LoopInv', RefSwitchedBack, Versions, FirstPush PROVE Versions'
<1>1. /\ Types /\ Flow /\ InFlight /\ Results /\ Types' /\ Flow' /\ InFlight' /\ Results'
  BY DEF LoopInv
<1>2. live' = live /\ backups'.actor = backups.actor /\ engine' = backups'.actor
  BY <1>1 DEF FirstPush, KeptOld, Sent, Versions, Types
<1>3. engine' \in Past(StepsInInterval)'
  BY <1>1, <1>2, EngineIsActor
<1>4. ~Collected' /\ ~CollectedNext' /\ pc' \notin Training /\ pc' \notin Trained /\ busy' = Nothing /\ DOMAIN made' = {}
  BY <1>1, ArgTypes DEF FirstPush, Flow, Collected, CollectedNext, Training, Trained, Types, None
<1> QED BY <1>1, <1>2, <1>3, <1>4 DEF Versions

\* What is collected is no older than an interval.
LEMMA CollectVersions == ASSUME LoopInv, LoopInv', RefSwitchedBack, Versions, Collect PROVE Versions'
<1>1. /\ Types /\ Flow /\ InFlight /\ Results /\ Types' /\ Flow' /\ InFlight' /\ Results'
  BY DEF LoopInv
<1>2. UNCHANGED <<args, engine, live, backups, rollout_id, made, busy>>
      /\ pc \in {"loop", "collect"} /\ pc' \in Training /\ rollout_id < NumRollout
  BY <1>1, ArgTypes DEF Collect, models, Types, Training
<1>3. /\ live' = backups'.actor
      /\ engine' \in Past(IF pc \in Trained THEN StepsInInterval + 1 ELSE StepsInInterval)'
      /\ StepsAllowed' = StepsAllowed /\ Past(StepsAllowed)' = Past(StepsAllowed)
  BY <1>1, <1>2, VersionsFrame, StepsFacts DEF Training, Trained
<1>4. ~(Awaited' /\ next' \in DOMAIN made')
  BY <1>1, <1>2, ArgTypes DEF Collect, Types, Results, Awaited, Training
<1>5. \E w \in Past(StepsAllowed) : curr'.by = {w}
  <2>1. CASE Collected
    BY <1>2, <2>1 DEF Collect, Collected, Versions
  <2>2. CASE ~Collected
    <3>1. Awaited /\ next \in DOMAIN made /\ curr' = made[next]
      BY <1>1, <1>2, <2>2, ArgTypes DEF Collect, Types, Flow, Awaited, Collected, None
    <3>2. engine \in Past(StepsInInterval)
      BY <1>1, <1>2 DEF Versions, Trained
    <3> QED BY <1>1, <3>1, <3>2, PastFacts, StepsFacts DEF Versions, Types
  <2> QED BY <2>1, <2>2
<1> QED BY <1>2, <1>3, <1>4, <1>5 DEF Versions, CollectedNext, Training

\* The actor goes one step ahead of the engines.
LEMMA TrainActorVersions == ASSUME LoopInv, LoopInv', RefSwitchedBack, Versions, TrainActor PROVE Versions'
<1>1. /\ Types /\ Flow /\ InFlight /\ Results /\ Types' /\ Flow' /\ InFlight' /\ Results'
  BY DEF LoopInv
<1>2. /\ UNCHANGED <<args, engine, busy, made, next, rollout_id, curr>>
      /\ pc = "train_actor" /\ pc' \in Trained /\ pc' # "push_loop"
  BY <1>1 DEF TrainActor, manager, AfterTrain, Trained
<1>3. live' = backups'.actor /\ backups'.actor = Append(backups.actor, curr.batch) /\ curr.batch \in Nat
  BY <1>1 DEF TrainActor, Types, Results, Training, Result
<1>4. engine' \in Past(StepsInInterval + 1)'
  <2>1. engine \in Past(StepsInInterval) /\ StepsInInterval \in Nat
    BY <1>1, <1>2, StepsFacts DEF Versions, Trained
  <2>2. Past(StepsInInterval) \subseteq {SubSeq(backups'.actor, 1, n) : n \in {n \in 0 .. Len(backups'.actor) :
                                             Len(backups'.actor) - n <= StepsInInterval + 1}}
    BY <1>1, <1>3, <2>1, PastTrained DEF Types, Past
  <2> QED BY <1>2, <2>1, <2>2 DEF Past, StepsInInterval
<1>5. Awaited' <=> Awaited
  BY <1>1, <1>2 DEF Awaited, Trained
<1>6. ~Collected' /\ ~CollectedNext' /\ pc' \notin Training
  BY <1>2 DEF Collected, CollectedNext, Training, Trained
<1> QED BY <1>2, <1>3, <1>4, <1>5, <1>6 DEF Versions

\* The engines get the actor, and the result that was collected before is of the last interval.
LEMMA UpdateWeightsVersions == ASSUME LoopInv, LoopInv', RefSwitchedBack, Versions, UpdateWeights PROVE Versions'
<1>1. /\ Types /\ Flow /\ InFlight /\ Results /\ Types' /\ Flow' /\ InFlight' /\ Results'
  BY DEF LoopInv
<1>2. live' = live /\ backups'.actor = backups.actor /\ engine' = backups'.actor
  BY <1>1 DEF UpdateWeights, KeptOld, Sent, Versions, Types
<1>3. engine' \in Past(StepsInInterval)'
  BY <1>1, <1>2, EngineIsActor
<1>4. busy' = Nothing /\ ~Awaited'
  BY <1>1, ArgTypes DEF UpdateWeights, manager, Types, Flow, InFlight, Awaited, Trained, Training, None
<1>5. Collected' => \E w \in Past(StepsAllowed)' : curr'.by = {w}
  <2> SUFFICES ASSUME Collected' PROVE curr.by = {engine} /\ engine \in Past(StepsAllowed)'
    BY DEF UpdateWeights
  <2>1. CollectedNext /\ args.async
    BY <1>1 DEF UpdateWeights, Collected, CollectedNext, Types
  <2>2. engine \in Past(StepsInInterval + 1)
    BY <1>1, <2>1 DEF Versions, CollectedNext, Trained
  <2>3. engine \in Past(StepsAllowed)
    BY <1>1, <2>1, <2>2, PastFacts, StepsFacts, SMTT(30) DEF Types
  <2>4. Past(StepsAllowed)' = Past(StepsAllowed)
    BY <1>2 DEF Past, StepsAllowed, UpdateWeights
  <2> QED BY <2>1, <2>3, <2>4 DEF Versions
<1>6. pc' = "loop"
  BY DEF UpdateWeights
<1> QED BY <1>2, <1>3, <1>4, <1>5, <1>6 DEF Versions, CollectedNext, Training, Trained

\* The engines are one step further behind, and still within the interval.
LEMMA SkipUpdateVersions == ASSUME LoopInv, LoopInv', RefSwitchedBack, Versions, SkipUpdate PROVE Versions'
<1>1. /\ Types /\ Flow /\ InFlight /\ Results /\ Types' /\ Flow' /\ InFlight' /\ Results'
  BY DEF LoopInv
<1>2. /\ UNCHANGED <<args, engine, live, backups, busy, made, next, curr>>
      /\ pc = "update" /\ pc' = "loop" /\ rollout_id' = rollout_id + 1 /\ args.async /\ rollout_id < NumRollout
  BY <1>1 DEF SkipUpdate, UpdateDue, manager, models, Flow, Trained
<1>3. StepsInInterval' = StepsInInterval + 1
  <2>1. args.interval \in Nat /\ args.interval > 0 /\ rollout_id \in Nat
    BY <1>1, ArgTypes DEF Types
  <2>2. (rollout_id + 1) % args.interval # 0
    BY DEF SkipUpdate, UpdateDue
  <2>3. (rollout_id + 1) % args.interval = (rollout_id % args.interval) + 1
    BY <2>1, <2>2, NextInInterval
  <2> QED BY <1>2, <2>3 DEF StepsInInterval
<1>4. engine' \in Past(StepsInInterval)'
  BY <1>2, <1>3 DEF Versions, Past, Trained
<1>5. (Awaited' <=> Awaited) /\ ~Collected' /\ ~CollectedNext' /\ pc' \notin Training /\ pc' \notin Trained
  BY <1>1, <1>2 DEF Awaited, Collected, CollectedNext, Training, Trained, Flow, Types, None
<1> QED BY <1>2, <1>4, <1>5 DEF Versions

\* The weights stay.
LEMMA DisposeVersions == ASSUME LoopInv, LoopInv', RefSwitchedBack, Versions, Dispose PROVE Versions'
<1>1. /\ Types /\ Flow /\ InFlight /\ Results /\ Types' /\ Flow' /\ InFlight' /\ Results'
  BY DEF LoopInv
<1>2. /\ UNCHANGED <<args, engine, live, backups, busy, made, next, curr, rollout_id>>
      /\ pc = "loop" /\ pc' = "done"
  BY DEF Dispose, manager, models
<1>3. engine' \in Past(StepsInInterval)'
  BY <1>2 DEF Versions, Past, StepsInInterval, Trained
<1> QED BY <1>2, <1>3 DEF Versions, Awaited, Collected, CollectedNext, Training, Trained

\* A step that changes nothing.
LEMMA StutterVersions == ASSUME Versions, UNCHANGED vars PROVE Versions'
<1>1. UNCHANGED <<args, engine, live, backups, busy, made, next, curr, rollout_id, pc>>
  BY DEF vars, manager, models
<1> QED BY <1>1 DEF Versions, Past, StepsInInterval, StepsAllowed, Awaited, Collected, CollectedNext

\* No step lets the engines fall behind further than the interval.
LEMMA NextVersions == LoopInv /\ LoopInv' /\ RefSwitchedBack /\ Versions /\ [Next]_vars => Versions'
BY CreateVersions, CrashVersions, FirstPushVersions, SubmitVersions, CollectVersions, TrainCriticVersions,
   TrainActorVersions, SaveActorVersions, SaveCriticVersions, SaveDataVersions, SavedDataVersions,
   AwaitRolloutVersions, UpdateWeightsVersions, SkipUpdateVersions, DisposeVersions, BeginGenerateVersions,
   EndGenerateVersions, SaveDataSourceVersions, StutterVersions
DEF Next, Driver, Manager, Finished

-----------------------------------------------------------------------------
(* The old actor. *)

\* With an interval of one, the old actor is the one that the engines had when they
\* generated what is trained on (actor.py, the queue of update_weights).
LEMMA NextOldActor ==
  ASSUME LoopInv, LoopInv', Keeps, Versions, OldActorKept, [Next]_vars
  PROVE  OldActorKept'
<1>1. /\ Types /\ Flow /\ InFlight /\ Results /\ Types' /\ Flow' /\ InFlight' /\ Results'
  BY DEF LoopInv
<1>2. CASE Create
  <2>1. backups'.rollout_actor = backups'.actor /\ pc' = "push"
    BY <1>2 DEF Create, InitialBackups, With, Keeps
  <2> QED BY <2>1 DEF OldActorKept, Collected, Training
<1>3. CASE Crash
  BY <1>3 DEF Crash, OldActorKept, Collected, Training
<1>4. CASE FirstPush
  <2>1. /\ backups'.old_actor = backups.rollout_actor /\ backups'.rollout_actor = live
        /\ engine' = backups.actor /\ live = backups.actor /\ pc' = "loop" /\ next' = rollout_id'
    BY <1>1, <1>4 DEF FirstPush, KeptOld, Sent, Versions, Types, Keeps
  <2>2. ~Collected' /\ pc' \notin Training
    BY <1>1, <2>1 DEF Collected, Training, Types, None
  <2> QED BY <1>4, <2>1, <2>2 DEF OldActorKept, FirstPush
<1>5. CASE Collect
  <2>1. /\ UNCHANGED <<engine, backups>> /\ pc = "loop" /\ pc' \in Training /\ rollout_id < NumRollout
    BY <1>5 DEF Collect, models, Training, Keeps
  <2>2. curr'.by = {backups.old_actor}
    <3>1. CASE Collected
      BY <1>5, <3>1 DEF Collect, Collected, OldActorKept
    <3>2. CASE ~Collected
      <4>1. Awaited /\ next \in DOMAIN made /\ curr' = made[next]
        BY <1>1, <1>5, <2>1, <3>2 DEF Collect, Keeps, Types, Flow, Awaited, Collected, None
      <4> QED BY <2>1, <4>1 DEF Versions, OldActorKept
    <3> QED BY <3>1, <3>2
  <2> QED BY <2>1, <2>2 DEF OldActorKept, Collected, Training
<1>6. CASE TrainActor
  <2>1. /\ backups'.old_actor = backups.old_actor /\ backups'.rollout_actor = backups.rollout_actor
        /\ engine' = engine /\ pc = "train_actor" /\ pc' \in Trained
    BY <1>1, <1>6 DEF TrainActor, Types, Keeps, AfterTrain, Trained
  <2> QED BY <2>1 DEF OldActorKept, Collected, Training, Trained
<1>7. CASE UpdateWeights
  <2>1. /\ backups'.old_actor = backups.rollout_actor /\ backups'.rollout_actor = live
        /\ engine' = backups.actor /\ live = backups.actor /\ pc = "push_loop" /\ pc' = "loop"
        /\ backups.rollout_actor = engine /\ rollout_id' = rollout_id + 1
        /\ UNCHANGED <<curr, next, args>>
    BY <1>1, <1>7 DEF UpdateWeights, manager, KeptOld, Sent, Versions, OldActorKept, Types, Keeps
  <2>2. ~Awaited'
    BY <1>1, <2>1 DEF Flow, Awaited, None
  <2>3. Collected' => CollectedNext
    BY <1>1, <2>1 DEF Collected, CollectedNext, Types
  <2> QED BY <2>1, <2>2, <2>3 DEF OldActorKept, Versions, Training
<1>8. CASE SkipUpdate
  <2>1. rollout_id + 1 \in Nat /\ args.interval = 1 /\ args.async /\ (rollout_id + 1) % args.interval # 0
    BY <1>1, <1>8 DEF SkipUpdate, UpdateDue, Types, Keeps
  <2>2. (rollout_id + 1) % 1 \in Nat /\ ((rollout_id + 1) % 1) + 1 <= 1
    BY <2>1, NextInInterval
  <2> QED BY <2>1, <2>2
<1>9. ASSUME \/ Submit \/ TrainCritic \/ SaveActor \/ SaveCritic \/ SaveData \/ SavedData
             \/ AwaitRollout \/ Dispose \/ Manager \/ UNCHANGED vars
      PROVE  OldActorKept'
  <2>1. UNCHANGED <<args, backups, engine>>
    BY <1>9 DEF Submit, TrainCritic, SaveActor, SaveCritic, SaveData, SavedData, AwaitRollout, Dispose,
                Manager, BeginGenerate, EndGenerate, SaveDataSource, manager, models, vars
  <2>2. (pc \notin {"create", "push"} /\ pc' \notin {"create", "push"}) \/ (pc' = pc)
    BY <1>1, <1>9 DEF Submit, TrainCritic, SaveActor, SaveCritic, SaveData, SavedData, AwaitRollout, Dispose,
                Manager, BeginGenerate, EndGenerate, SaveDataSource, AfterTrain, manager, models, vars
  <2>3. /\ pc' \in Training => pc \in Training /\ curr' = curr
        /\ pc' = "loop" => UNCHANGED <<pc, next, rollout_id, curr>>
    BY <1>1, <1>9 DEF Submit, TrainCritic, SaveActor, SaveCritic, SaveData, SavedData, AwaitRollout, Dispose,
                Manager, BeginGenerate, EndGenerate, SaveDataSource, AfterTrain, manager, models, vars, Training
  <2> QED BY <2>1, <2>2, <2>3 DEF OldActorKept, Collected, Awaited
<1> QED BY <1>2, <1>3, <1>4, <1>5, <1>6, <1>7, <1>8, <1>9 DEF Next, Driver, Finished

-----------------------------------------------------------------------------
(* The order of the batches. *)

\* What is trained on a later batch stays in order.
LEMMA IncreasingAppended ==
  ASSUME NEW w \in Weights, NEW b \in Nat, Increasing(w), Below(w, b)
  PROVE  /\ Increasing(Append(w, b))
         /\ \A c \in Nat : b < c => Below(Append(w, b), c)
<1>1. \A i \in DOMAIN Append(w, b) : IF i \in DOMAIN w THEN Append(w, b)[i] = w[i]
                                    ELSE i = Len(w) + 1 /\ Append(w, b)[i] = b
  BY DEF Weights
<1>2. \A i \in DOMAIN w : w[i] \in Nat /\ i \in Nat /\ i <= Len(w) /\ Len(w) \in Nat
  BY DEF Weights
<1>3. Increasing(Append(w, b))
  BY <1>1, <1>2 DEF Increasing, Below
<1>4. ASSUME NEW c \in Nat, b < c PROVE Below(Append(w, b), c)
  BY <1>1, <1>2, <1>4 DEF Below
<1> QED BY <1>3, <1>4

\* A bound may be raised.
LEMMA BelowMore ==
  ASSUME NEW w \in Weights, NEW b \in Nat, NEW c \in Nat, Below(w, b), b <= c
  PROVE  Below(w, c)
BY DEF Below, Weights

\* Weights that were never trained are in order, and below everything.
LEMMA FreshOrdered == Increasing(Fresh) /\ \A b : Below(Fresh, b)
BY DEF Increasing, Below, Fresh

\* A restart that finds files that belong together finds the data source behind what
\* was trained on.
LEMMA CreateOrdered == ASSUME LoopInv, LoopInv', Ordered, Disk, Create PROVE Ordered'
<1> SUFFICES ASSUME ~blind' PROVE Ordered'
  BY DEF Ordered
<1>1. Types /\ DiskTypes /\ Flow /\ Types' /\ Flow'
  BY DEF LoopInv
<1>2. ~blind /\ FilesAgree
  BY <1>1, ArgTypes DEF Create, Types, FilesAgree
<1>3. backups'.actor = Loaded("actor") /\ critic' = Loaded("critic")
  BY DEF Create, InitialBackups, With
<1>4. CASE disk.actor.last = None
  <2>1. disk.critic.last = None
    BY <1>1, <1>2, <1>4, ArgTypes DEF FilesAgree, Disk, Types
  <2>2. backups'.actor = Fresh /\ critic' = Fresh
    BY <1>3, <1>4, <2>1 DEF Loaded
  <2> QED BY <1>1, <2>2, FreshOrdered
          DEF Create, Ordered, Flow, Awaited, Collected, CollectedNext, Training
<1>5. CASE disk.actor.last # None
  <2> DEFINE l == disk.actor.last
  <2>1. l \in DOMAIN disk.data /\ (args.critic => disk.critic.last = l)
    BY <1>2, <1>5 DEF FilesAgree
  <2>2. StartRollout - 1 = l
    BY <1>1, <1>5, <2>1 DEF StartRollout, DiskTypes, Roles
  <2>3. position' = disk.data[l]
    BY <1>5, <2>1, <2>2 DEF Create, StatePosition
  <2>4. ASSUME NEW role \in Roles, disk[role].last = l
        PROVE  Loaded(role) = disk[role].saved[l] /\ Increasing(Loaded(role)) /\ Below(Loaded(role), position')
    BY <1>2, <1>5, <2>1, <2>3, <2>4 DEF Loaded, Disk, OnDisk, StateFits
  <2>5. Increasing(backups'.actor) /\ Below(backups'.actor, position')
    BY <1>3, <2>4 DEF Roles
  <2>6. Increasing(critic') /\ Below(critic', position')
    <3>1. CASE args.critic
      BY <1>3, <2>1, <2>4, <3>1 DEF Roles
    <3>2. CASE ~args.critic
      BY <1>3, <3>2, FreshOrdered DEF Disk, Loaded
    <3> QED BY <3>1, <3>2
  <2> QED BY <1>1, <2>5, <2>6 DEF Create, Ordered, Flow, Awaited, Collected, CollectedNext, Training
<1> QED BY <1>4, <1>5

\* The other steps: a batch that is handed out is later than all that were trained on.
LEMMA NextOrdered == ASSUME LoopInv, LoopInv', Ordered, Disk, [Next]_vars PROVE Ordered'
<1>1. /\ Types /\ Flow /\ InFlight /\ Results /\ Types' /\ Flow' /\ InFlight' /\ Results'
  BY DEF LoopInv
<1>2. CASE Create
  BY <1>2, CreateOrdered
<1> SUFFICES ASSUME ~Create, ~blind' PROVE Ordered'
  BY <1>2 DEF Ordered
<1>3. ~blind /\ args' = args
  BY DEF Next, Driver, Manager, Crash, FirstPush, Submit, Collect, TrainCritic, TrainActor, SaveActor, SaveCritic,
         SaveData, SavedData, AwaitRollout, UpdateWeights, SkipUpdate, Dispose, BeginGenerate, EndGenerate,
         SaveDataSource, Finished, vars
<1>4. CASE Crash
  BY <1>3, <1>4 DEF Crash, models, Ordered
<1>5. CASE FirstPush
  <2>1. /\ backups'.actor = backups.actor /\ UNCHANGED <<critic, position, busy, made>> /\ pc = "push" /\ pc' = "loop"
    BY <1>1, <1>5 DEF FirstPush, KeptOld, Types
  <2>2. ~Collected' /\ ~CollectedNext'
    BY <1>1, <1>5 DEF FirstPush, Collected, CollectedNext, Types, None
  <2> QED BY <1>1, <1>3, <2>1, <2>2 DEF Ordered, Flow, Training
<1>6. CASE Submit
  <2>1. /\ UNCHANGED <<backups, critic, position, busy, made>> /\ pc = "loop" /\ pc' = "collect"
        /\ next' \notin DOMAIN made
    BY <1>1, <1>6 DEF Submit, models, Results
  <2> QED BY <1>3, <2>1 DEF Ordered, Untouched, Collected, CollectedNext, Training
<1>7. CASE Collect
  <2>1. /\ UNCHANGED <<backups, critic, position, busy, made, rollout_id>>
        /\ pc \in {"loop", "collect"} /\ pc' \in Training /\ rollout_id < NumRollout
    BY <1>1, <1>7 DEF Collect, models, Training, Types
  <2>2. ~(Awaited' /\ next' \in DOMAIN made')
    BY <1>1, <1>7, <2>1, ArgTypes DEF Collect, Types, Results, Awaited, Training
  <2>3. busy = Nothing /\ Untouched(curr'.batch)
    <3>1. CASE Collected
      BY <1>1, <1>3, <1>7, <3>1 DEF Collect, Collected, Ordered, Awaited, InFlight
    <3>2. CASE ~Collected
      <4>1. Awaited /\ next \in DOMAIN made /\ curr' = made[next]
        BY <1>1, <1>7, <2>1, <3>2, ArgTypes DEF Collect, Types, Flow, Awaited, Collected, None
      <4> QED BY <1>1, <1>3, <2>1, <4>1 DEF Ordered, InFlight
    <3> QED BY <3>1, <3>2
  <2> QED BY <1>3, <2>1, <2>2, <2>3 DEF Ordered, Untouched, Collected, CollectedNext, Training
<1>8. CASE TrainCritic
  <2>1. /\ UNCHANGED <<backups, position, busy, made, next, curr, rollout_id>> /\ pc = "train_critic"
        /\ pc' \in ({"train_actor"} \cup Trained) \ {"push_loop"}
        /\ critic' = Append(critic, curr.batch)
    BY <1>8 DEF TrainCritic, AfterTrain, manager, Trained
  <2>2. /\ curr.batch \in Nat /\ position \in Nat /\ critic \in Weights
        /\ busy # Nothing => busy.batch \in Nat
        /\ next \in DOMAIN made => made[next].batch \in Nat
    BY <1>1, <2>1 DEF Results, Types, Result, Generation, Training
  <2>3. Increasing(critic') /\ \A c \in Nat : curr.batch < c => Below(critic', c)
    BY <1>3, <2>1, <2>2, IncreasingAppended DEF Ordered
  <2>4. Awaited' <=> Awaited
    BY <2>1 DEF Awaited, Trained
  <2> QED BY <1>3, <2>1, <2>2, <2>3, <2>4 DEF Ordered, Untouched, Collected, CollectedNext, Training, Trained
<1>9. CASE TrainActor
  <2>1. /\ UNCHANGED <<critic, position, busy, made, next, curr, rollout_id>> /\ pc = "train_actor"
        /\ pc' \in Trained \ {"push_loop"}
        /\ backups'.actor = Append(backups.actor, curr.batch)
    BY <1>1, <1>9 DEF TrainActor, AfterTrain, manager, Trained, Types
  <2>2. /\ curr.batch \in Nat /\ position \in Nat /\ backups.actor \in Weights
        /\ busy # Nothing => busy.batch \in Nat
        /\ next \in DOMAIN made => made[next].batch \in Nat
    BY <1>1, <2>1 DEF Results, Types, Result, Generation, Training
  <2>3. Increasing(backups'.actor) /\ \A c \in Nat : curr.batch < c => Below(backups'.actor, c)
    BY <1>3, <2>1, <2>2, IncreasingAppended DEF Ordered, Training
  <2>4. Awaited' <=> Awaited
    BY <2>1 DEF Awaited, Trained
  <2> QED BY <1>3, <2>1, <2>2, <2>3, <2>4 DEF Ordered, Untouched, Collected, CollectedNext, Training, Trained
<1>10. CASE BeginGenerate
  <2>1. /\ UNCHANGED <<backups, critic, made, next, curr, rollout_id, pc>> /\ busy = Nothing
        /\ busy'.batch = position /\ position' = position + 1
    BY <1>10 DEF BeginGenerate, models
  <2>2. next \notin DOMAIN made /\ pc # "create"
    BY <1>1, <1>10, Taken DEF BeginGenerate, InFlight, Flow, Types
  <2>3. /\ position \in Nat /\ critic \in Weights /\ backups.actor \in Weights
        /\ pc \in Training \/ Collected \/ CollectedNext => curr.batch \in Nat
    BY <1>1 DEF Types, Results, Result
  <2>4. Below(backups.actor, position + 1) /\ Below(critic, position + 1)
    BY <1>3, <2>2, <2>3, BelowMore DEF Ordered
  <2> QED BY <1>3, <2>1, <2>2, <2>3, <2>4 DEF Ordered, Untouched, Collected, CollectedNext, Training
<1>11. CASE EndGenerate
  <2>1. /\ UNCHANGED <<backups, critic, next, curr, rollout_id, pc, position>> /\ busy # Nothing /\ busy' = Nothing
        /\ made'[next].batch = busy.batch
    BY <1>1, <1>11 DEF EndGenerate, models, With, InFlight
  <2> QED BY <1>3, <2>1 DEF Ordered, Untouched, Awaited, Collected, CollectedNext
<1>12. CASE UpdateWeights
  <2>1. /\ backups'.actor = backups.actor /\ UNCHANGED <<critic, position, busy, made, curr, next>>
        /\ pc \in {"update", "push_loop"} /\ pc' = "loop" /\ rollout_id' = rollout_id + 1
    BY <1>1, <1>12 DEF UpdateWeights, KeptOld, Types, manager
  <2>2. busy = Nothing /\ ~Awaited'
    BY <1>1, <1>12, ArgTypes DEF UpdateWeights, manager, Types, Flow, InFlight, Awaited, Trained, Training, None
  <2>3. Collected' => CollectedNext
    BY <1>1, <1>12, <2>1, ArgTypes DEF UpdateWeights, Types, Collected, CollectedNext
  <2> QED BY <1>3, <2>1, <2>2, <2>3 DEF Ordered, Untouched, CollectedNext, Training
<1>13. CASE SkipUpdate
  <2>1. /\ UNCHANGED <<backups, critic, position, busy, made, curr, next>>
        /\ pc = "update" /\ pc' = "loop" /\ rollout_id' = rollout_id + 1 /\ args.async
    BY <1>1, <1>13 DEF SkipUpdate, UpdateDue, Types, manager, models
  <2>2. (Awaited' <=> Awaited) /\ ~Collected' /\ ~CollectedNext'
    BY <1>1, <1>3, <2>1 DEF Awaited, Collected, CollectedNext, Training, Trained, Flow, Types, None
  <2> QED BY <1>3, <2>1, <2>2 DEF Ordered, Untouched, Training
<1>14. CASE AwaitRollout
  <2>1. /\ UNCHANGED <<backups, critic, position, busy, made, rollout_id>> /\ next' = None
        /\ pc = "update" /\ pc' = "push_loop" /\ args.async
    BY <1>14 DEF AwaitRollout, manager, models
  <2>2. CollectedNext' => Awaited /\ next \in DOMAIN made /\ curr' = made[next]
    BY <1>1, <1>14, <2>1 DEF AwaitRollout, CollectedNext, Flow, Training, Trained, Awaited, Types, None
  <2> QED BY <1>3, <2>1, <2>2 DEF Ordered, Untouched, Awaited, Collected, Training
<1>15. ASSUME \/ SaveActor \/ SaveCritic \/ SaveData \/ SavedData \/ Dispose \/ SaveDataSource \/ UNCHANGED vars
       PROVE  Ordered'
  <2>1. UNCHANGED <<backups, critic, position, busy, made, rollout_id, next, curr>>
    BY <1>15 DEF SaveActor, SaveCritic, SaveData, SavedData, Dispose, SaveDataSource, manager, models, vars
  <2>2. /\ pc = "create" <=> pc' = "create"
        /\ pc' \in Training => pc' = pc
        /\ pc' \in {"loop", "push_loop"} => pc' = pc
        /\ pc \in Training => pc' = pc
        /\ pc \in {"loop", "collect", "done"} <=> pc' \in {"loop", "collect", "done"}
    BY <1>15 DEF SaveActor, SaveCritic, SaveData, SavedData, Dispose, SaveDataSource, manager, models, vars, Training
  <2> QED BY <1>3, <2>1, <2>2 DEF Ordered, Untouched, Awaited, Collected, CollectedNext, Training
<1> QED BY <1>4, <1>5, <1>6, <1>7, <1>8, <1>9, <1>10, <1>11, <1>12, <1>13, <1>14, <1>15 DEF Next, Driver, Manager, Finished

-----------------------------------------------------------------------------
(* What is on disk. *)

\* A step that writes nothing: it leaves the iteration and the weights, or trains what
\* is not saved yet, or goes on to the next iteration.
LEMMA OnDiskFrame ==
  ASSUME NEW role \in Roles, OnDisk(role), Types, DiskTypes, UNCHANGED <<disk, pending>>,
         pc # "create", pc' # "create",
         \/ /\ rollout_id' = rollout_id /\ (Unsaved => Unsaved')
            /\ \/ NotYetSaved(role)
               \/ Current(role)' = Current(role) /\ ~NotYetSaved(role)'
         \/ rollout_id' = rollout_id + 1 /\ ~Unsaved
  PROVE  OnDisk(role)'
<1> DEFINE last == disk[role].last
           open == pending[role]
<1>1. /\ last \in Nat \cup {None} /\ open \in Nat \cup {None} /\ rollout_id \in Nat
  BY DEF DiskTypes, Types, None
<1>2. \A k : StateFits(role, k)' <=> StateFits(role, k)
  BY DEF StateFits
<1>3. last # None => Increasing(disk'[role].saved[last]) /\ StateFits(role, last)'
  BY <1>2 DEF OnDisk
<1>4. open # None => /\ last < open /\ Increasing(disk'[role].saved[open])
                     /\ (open = rollout_id' /\ Unsaved') \/ StateFits(role, open)'
  BY <1>2 DEF OnDisk
<1>5. \A k \in {last, open} : k <= rollout_id' /\ (NotYetSaved(role)' => k < rollout_id')
  <2> SUFFICES ASSUME NEW k \in {last, open} PROVE k <= rollout_id' /\ (NotYetSaved(role)' => k < rollout_id')
    OBVIOUS
  <2>1. k <= rollout_id /\ (NotYetSaved(role) => k < rollout_id) /\ (k \in Nat \/ k = -1)
    BY <1>1 DEF OnDisk, None
  <2>2. CASE rollout_id' = rollout_id
    BY <2>1, <2>2, <1>1
  <2>3. CASE rollout_id' = rollout_id + 1
    <3>1. k < rollout_id'
      BY <2>1, <2>3, <1>1
    <3> QED BY <3>1, <2>1, <2>3, <1>1
  <2> QED BY <2>2, <2>3
<1>6. \A k \in {last, open} : k = rollout_id' => disk'[role].saved[k] = Current(role)'
  BY <1>1 DEF OnDisk
<1> QED BY <1>3, <1>4, <1>5, <1>6 DEF OnDisk

\* A restart that finds files that belong together goes on behind what was saved.
LEMMA CreateDisk == ASSUME LoopInv, LoopInv', Disk, Create PROVE Disk'
<1>1. Types /\ DiskTypes /\ Flow
  BY DEF LoopInv
<1>2. UNCHANGED <<args, disk, pending>> /\ pc' = "push" /\ \A role \in Roles : pending[role] = None
  BY DEF Create, Disk
<1>3. ~args.critic => disk.critic.last = None /\ pending.critic = None /\ critic' = << >>
  BY <1>2 DEF Disk, Create, Loaded, Fresh
<1> SUFFICES ASSUME ~blind' PROVE Disk'
  BY <1>2, <1>3 DEF Disk
<1>4. ~blind /\ FilesAgree
  BY <1>1, ArgTypes DEF Create, Types, FilesAgree
<1>5. \A role \in Roles : disk[role].last < rollout_id' /\ disk[role].last \in Nat \cup {None} /\ rollout_id' \in Nat
  BY <1>1, <1>2, <1>3, <1>4, ArgTypes, SMTT(30) DEF FilesAgree, Create, StartRollout, DiskTypes, Types, Roles, None
<1>6. ASSUME NEW role \in Roles PROVE OnDisk(role)'
  <2>1. OnDisk(role) /\ pending[role] = None
    BY <1>2, <1>4 DEF Disk
  <2> QED BY <1>2, <1>5, <2>1 DEF OnDisk, StateFits, None
<1>7. (\A k \in DOMAIN disk.data : AtOnce(k) => k <= disk[Decides].last)'
  BY <1>2, <1>4 DEF Disk, AtOnce, Decides
<1> QED BY <1>2, <1>3, <1>6, <1>7 DEF Disk, SavedNow

\* The state of the data source is written for the rollout that was just saved.
LEMMA SaveDataSourceDisk == ASSUME LoopInv, Ordered, Disk, SaveDataSource PROVE Disk'
<1>1. Types /\ DiskTypes /\ Flow /\ InFlight
  BY DEF LoopInv
<1>2. /\ Head(calls).id = rollout_id /\ pc = "saved_data"
      /\ UNCHANGED <<args, pc, rollout_id, pending, backups, critic, blind, position>>
  BY <1>1, Taken DEF SaveDataSource, InFlight, Types, models
<1>3. /\ \A role \in Roles : disk'[role] = disk[role]
      /\ DOMAIN disk'.data = DOMAIN disk.data \cup {rollout_id}
      /\ disk'.data[rollout_id] = position
      /\ \A k \in DOMAIN disk.data : k # rollout_id => disk'.data[k] = disk.data[k]
  BY <1>1, <1>2 DEF SaveDataSource, With, DiskTypes, Roles
<1>4. ~args.critic => disk'.critic.last = None /\ pending'.critic = None /\ critic' = << >>
  BY <1>2, <1>3 DEF Disk, Roles
<1> SUFFICES ASSUME ~blind PROVE Disk'
  BY <1>2, <1>4 DEF Disk
<1>5. ASSUME NEW role \in Roles PROVE OnDisk(role)'
  <2>1. OnDisk(role) /\ ~NotYetSaved(role)
    BY <1>2 DEF Disk, NotYetSaved, Training
  <2>2. Below(Current(role), position)
    BY <1>2 DEF Ordered, Current
  <2>3. ASSUME NEW k, k = rollout_id => disk[role].saved[k] = Current(role), k # rollout_id => StateFits(role, k)
        PROVE  StateFits(role, k)'
    BY <1>3, <2>2, <2>3 DEF StateFits
  <2> DEFINE last == disk[role].last
             open == pending[role]
  <2>4. last # None => Increasing(disk'[role].saved[last]) /\ StateFits(role, last)'
    BY <1>2, <1>3, <2>1, <2>3 DEF OnDisk
  <2>5. open # None => /\ last < open /\ Increasing(disk'[role].saved[open]) /\ StateFits(role, open)'
    BY <1>2, <1>3, <2>1, <2>3 DEF OnDisk
  <2>6. \A k \in {last, open} : k <= rollout_id /\ (k = rollout_id => disk'[role].saved[k] = Current(role)')
    BY <1>2, <1>3, <2>1 DEF OnDisk, Current
  <2> QED BY <1>2, <1>3, <2>1, <2>4, <2>5, <2>6 DEF OnDisk, NotYetSaved
<1>6. \A k \in DOMAIN disk'.data : AtOnce(k) => k <= disk[Decides].last
  BY <1>1, <1>2, <1>3 DEF Disk, SavedNow, Types
<1>7. disk'[Decides] = disk[Decides] /\ Decides \in Roles
  BY <1>3 DEF Decides, Roles
<1> QED BY <1>2, <1>4, <1>5, <1>6, <1>7 DEF Disk, SavedNow, AtOnce, Decides

\* A save finalizes the one before it, and the checkpoint it writes has no state of the
\* data source yet.
LEMMA StoredOnDisk ==
  ASSUME LoopInv, Disk, ~blind, NEW role \in Roles, NEW w \in Weights, Stored(role, w),
         w = Current(role)', Increasing(w), NotYetSaved(role), NotYetSaved(Decides), pc # "create",
         ~NotYetSaved(role)', Unsaved', pc' # "create", UNCHANGED <<args, rollout_id>>
  PROVE  /\ OnDisk(role)'
         /\ \A other \in Roles : other # role => disk'[other] = disk[other] /\ pending'[other] = pending[other]
         /\ disk'.data = disk.data
         /\ rollout_id = IF AtOnce(rollout_id) THEN disk'[role].last ELSE pending'[role]
         /\ disk[role].last <= disk'[role].last
         /\ pending'[role] \in {None, rollout_id}
         /\ \A k : k = disk'[role].last /\ k # None =>
              \/ k = rollout_id /\ k \notin DOMAIN disk.data
              \/ k \in {disk[role].last, pending[role]} /\ k # rollout_id
                 /\ disk'[role].saved[k] = disk[role].saved[k]
<1>1. Types /\ DiskTypes
  BY DEF LoopInv
<1> DEFINE d == disk[role]
           e == disk'[role]
           last == d.last
           open == pending[role]
<1>2. /\ last \in Nat \cup {None} /\ open \in Nat \cup {None} /\ rollout_id \in Nat /\ last < rollout_id /\ open < rollout_id
      /\ role \in DOMAIN disk /\ role \in DOMAIN pending /\ "data" \in DOMAIN disk /\ "data" # role
      /\ disk[Decides].last < rollout_id /\ disk[Decides].last \in Nat \cup {None}
      /\ {last, open} \subseteq DOMAIN d.saved \cup {None}
  BY <1>1 DEF DiskTypes, Types, Disk, OnDisk, None, Roles, Decides
<1>3. /\ disk'.data = disk.data
      /\ \A other \in Roles : other # role => disk'[other] = disk[other] /\ pending'[other] = pending[other]
  BY <1>1, <1>2 DEF Stored, DiskTypes, Roles
<1>4. /\ e.last = IF AtOnce(rollout_id) THEN rollout_id ELSE IF open = None THEN last ELSE open
      /\ pending'[role] = IF AtOnce(rollout_id) THEN None ELSE rollout_id
      /\ e.saved = With(d.saved, rollout_id, w)
  BY <1>2 DEF Stored, Finalized, AtOnce
<1>5. e.saved[rollout_id] = w /\ \A k \in DOMAIN d.saved : k # rollout_id => e.saved[k] = d.saved[k]
  BY <1>4 DEF With
<1>6. AtOnce(rollout_id) => rollout_id \notin DOMAIN disk.data
  BY <1>2 DEF Disk, None
<1>7. OnDisk(role)
  BY DEF Disk
<1>8. \A k \in {last, open} : k # None =>
        /\ Increasing(d.saved[k]) /\ StateFits(role, k) /\ k \in DOMAIN d.saved /\ k # rollout_id
  BY <1>2, <1>7 DEF OnDisk
<1>9. \A k \in {last, open} : k # None => Increasing(e.saved[k]) /\ StateFits(role, k)'
  BY <1>3, <1>5, <1>8 DEF StateFits
<1>10. ASSUME NEW k, k = e.last, k # None PROVE Increasing(e.saved[k]) /\ StateFits(role, k)'
  <2>1. CASE AtOnce(rollout_id)
    <3>1. k = rollout_id
      BY <1>4, <1>10, <2>1
    <3> QED BY <1>3, <1>5, <1>6, <2>1, <3>1 DEF StateFits
  <2>2. CASE ~AtOnce(rollout_id)
    <3>1. k \in {last, open}
      BY <1>4, <1>10, <2>2
    <3> QED BY <1>9, <1>10, <3>1
  <2> QED BY <2>1, <2>2
<1>11. pending'[role] # None => e.last < pending'[role] /\ Increasing(e.saved[pending'[role]])
                                /\ pending'[role] = rollout_id
  BY <1>2, <1>4, <1>5
<1>12. \A k \in {e.last, pending'[role]} : k <= rollout_id /\ (k = rollout_id => e.saved[k] = w)
  BY <1>2, <1>4, <1>5 DEF None
<1>13. last <= e.last
  BY <1>2, <1>4, <1>7 DEF OnDisk, None
<1>16. ASSUME NEW k, k = e.last, k # None
       PROVE  \/ k = rollout_id /\ k \notin DOMAIN disk.data
              \/ k \in {last, open} /\ k # rollout_id /\ e.saved[k] = d.saved[k]
  BY <1>2, <1>4, <1>5, <1>6, <1>16
<1>17. pending'[role] \in {None, rollout_id}
  BY <1>4
<1> HIDE DEF d, last, open
<1>14. OnDisk(role)'
  <2>1. e.last # None => Increasing(e.saved[e.last]) /\ (e.last \in DOMAIN disk'.data => Below(e.saved[e.last], disk'.data[e.last]))
    BY <1>10 DEF StateFits
  <2> QED BY <1>11, <1>12, <2>1 DEF OnDisk, StateFits
<1>15. rollout_id = IF AtOnce(rollout_id) THEN disk'[role].last ELSE pending'[role]
  BY <1>4
<1> QED BY <1>3, <1>13, <1>14, <1>15, <1>16, <1>17 DEF last, d, open

\* The actor is saved first.
LEMMA SaveActorDisk == ASSUME LoopInv, Ordered, Disk, SaveActor PROVE Disk'
<1>1. /\ Types /\ DiskTypes /\ Flow
      /\ UNCHANGED <<args, rollout_id, backups, critic, live, blind>> /\ pc = "save_actor"
      /\ pc' = (IF args.critic THEN "save_critic" ELSE "save_data") /\ Stored("actor", live)
      /\ live = backups.actor /\ rollout_id < NumRollout /\ args.critic \in BOOLEAN
  BY ArgTypes DEF LoopInv, SaveActor, models, Flow, Trained, Types
<1>2. disk'.critic = disk.critic /\ pending'.critic = pending.critic
  BY <1>1 DEF Stored, DiskTypes, Roles
<1> SUFFICES ASSUME ~blind PROVE Disk'
  BY <1>1, <1>2 DEF Disk
<1>3. live \in Weights /\ live = Current("actor")' /\ Increasing(live)
  BY <1>1 DEF Types, Current, Ordered
<1>4. NotYetSaved("actor") /\ NotYetSaved(Decides) /\ ~NotYetSaved("actor")' /\ Unsaved' /\ Unsaved' /\ NotYetSaved("critic")
  BY <1>1 DEF NotYetSaved, Unsaved, Training, Decides
<1>5. /\ OnDisk("actor")' /\ disk'.data = disk.data /\ disk.actor.last <= disk'.actor.last
      /\ rollout_id = IF AtOnce(rollout_id) THEN disk'.actor.last ELSE pending'.actor
  BY <1>1, <1>3, <1>4, StoredOnDisk DEF Roles
<1>6. OnDisk("critic")'
  <2>1. OnDisk("critic") /\ disk.critic.last < rollout_id /\ pending.critic < rollout_id
    BY <1>1, <1>4 DEF Disk, OnDisk, Roles
  <2>2. \A k : StateFits("critic", k)' <=> StateFits("critic", k)
    BY <1>2, <1>5 DEF StateFits
  <2>3. disk.critic.last \in Int /\ pending.critic \in Int /\ rollout_id \in Int
    BY <1>1 DEF DiskTypes, Types, Roles, None
  <2>4. \A k \in {disk.critic.last, pending.critic} : k <= rollout_id /\ k # rollout_id
    BY <2>1, <2>3
  <2> QED BY <1>1, <1>2, <2>1, <2>2, <2>4 DEF OnDisk, Training
<1>7. ASSUME NEW k \in DOMAIN disk.data, AtOnce(k) PROVE k <= disk'[Decides].last
  <2>1. k <= disk[Decides].last /\ k \in Int
    BY <1>1, <1>7 DEF Disk, DiskTypes
  <2>2. disk.actor.last \in Int /\ disk'.actor.last \in Int
    BY <1>1, <1>5 DEF DiskTypes, Types, Roles, None, Stored, Finalized
  <2> QED BY <1>2, <1>5, <2>1, <2>2 DEF Decides
<1> QED BY <1>1, <1>2, <1>5, <1>6, <1>7 DEF Disk, SavedNow, AtOnce, Decides, Roles

\* The critic is saved behind the actor.
LEMMA SaveCriticDisk == ASSUME LoopInv, Ordered, Disk, SaveCritic PROVE Disk'
<1>1. /\ Types /\ DiskTypes /\ Flow
      /\ UNCHANGED <<args, rollout_id, backups, critic, live, blind>> /\ pc = "save_critic"
      /\ pc' = "save_data" /\ Stored("critic", critic) /\ rollout_id < NumRollout /\ args.critic
  BY ArgTypes DEF LoopInv, SaveCritic, models, Flow, Trained, Types
<1>2. disk'.actor = disk.actor /\ pending'.actor = pending.actor
  BY <1>1 DEF Stored, DiskTypes, Roles
<1> SUFFICES ASSUME ~blind PROVE Disk'
  BY <1>1, <1>2 DEF Disk
<1>3. critic \in Weights /\ critic = Current("critic")' /\ Increasing(critic)
  BY <1>1 DEF Types, Current, Ordered
<1>4. NotYetSaved("critic") /\ NotYetSaved(Decides) /\ ~NotYetSaved("critic")' /\ Unsaved' /\ Unsaved
      /\ ~NotYetSaved("actor")'
  BY <1>1 DEF NotYetSaved, Unsaved, Training, Decides
<1>5. /\ OnDisk("critic")' /\ disk'.data = disk.data /\ disk.critic.last <= disk'.critic.last
      /\ rollout_id = IF AtOnce(rollout_id) THEN disk'.critic.last ELSE pending'.critic
  BY <1>1, <1>3, <1>4, StoredOnDisk DEF Roles
<1>6. OnDisk("actor")'
  <2>1. OnDisk("actor")
    BY DEF Disk, Roles
  <2>2. \A k : StateFits("actor", k)' <=> StateFits("actor", k)
    BY <1>2, <1>5 DEF StateFits
  <2>3. Current("actor")' = Current("actor")
    BY <1>1 DEF Current
  <2> QED BY <1>1, <1>2, <1>4, <2>1, <2>2, <2>3 DEF OnDisk
<1>7. ASSUME NEW k \in DOMAIN disk.data, AtOnce(k) PROVE k <= disk'[Decides].last
  <2>1. k <= disk.critic.last /\ k \in Int
    BY <1>1, <1>7 DEF Disk, DiskTypes, Decides
  <2>2. disk.critic.last \in Int /\ disk'.critic.last \in Int
    BY <1>1, <1>5 DEF DiskTypes, Types, Roles, None, Stored, Finalized
  <2> QED BY <1>1, <1>5, <2>1, <2>2 DEF Decides
<1> QED BY <1>1, <1>5, <1>6, <1>7 DEF Disk, SavedNow, AtOnce, Decides, Roles

\* The steps that write nothing to disk.
Quiet ==
  \/ FirstPush \/ Submit \/ Collect \/ TrainCritic \/ TrainActor \/ SaveData \/ SavedData
  \/ AwaitRollout \/ UpdateWeights \/ SkipUpdate \/ Dispose \/ BeginGenerate \/ EndGenerate
  \/ UNCHANGED vars

\* They leave alone what is saved, unless it is not saved yet.
LEMMA QuietStep ==
  ASSUME LoopInv, LoopInv', Quiet
  PROVE  /\ UNCHANGED <<args, disk, pending, blind, crashes>>
         /\ (pc # "create" /\ pc' # "create") \/ UNCHANGED <<pc, calls, rollout_id, critic, backups>>
         /\ pc # "create" /\ pc' # "create" => \A role \in Roles :
              \/ /\ rollout_id' = rollout_id /\ (Unsaved => Unsaved')
                 /\ \/ NotYetSaved(role)
                    \/ Current(role)' = Current(role) /\ ~NotYetSaved(role)'
              \/ rollout_id' = rollout_id + 1 /\ ~Unsaved
<1>0. /\ Types /\ DiskTypes /\ Flow /\ InFlight /\ Flow' /\ Types' /\ InFlight'
  BY DEF LoopInv
<1>1. UNCHANGED <<args, disk, pending, blind, crashes>>
  BY DEF Quiet, FirstPush, Submit, Collect, TrainCritic, TrainActor, SaveData, SavedData, AwaitRollout,
              UpdateWeights, SkipUpdate, Dispose, BeginGenerate, EndGenerate, manager, models, vars
<1>2. (pc # "create" /\ pc' # "create") \/ UNCHANGED <<pc, calls, rollout_id, critic, backups>>
  BY <1>0, Taken DEF FirstPush, Submit, Collect, TrainCritic, TrainActor, SaveData, SavedData, AwaitRollout,
              UpdateWeights, SkipUpdate, Dispose, BeginGenerate, EndGenerate, manager, models, vars, AfterTrain, Flow, Quiet
<1>5. ASSUME pc # "create", pc' # "create", NEW role \in Roles
      PROVE  \/ /\ rollout_id' = rollout_id /\ (Unsaved => Unsaved')
                /\ \/ NotYetSaved(role)
                   \/ Current(role)' = Current(role) /\ ~NotYetSaved(role)'
             \/ rollout_id' = rollout_id + 1 /\ ~Unsaved
  <2>1. CASE UpdateWeights \/ SkipUpdate
    <3>1. rollout_id' = rollout_id + 1 /\ pc \in {"update", "push_loop"}
      BY <1>0, <2>1, ArgTypes DEF UpdateWeights, SkipUpdate, Types
    <3> QED BY <1>0, <3>1 DEF Unsaved, InFlight
  <2>2. CASE FirstPush \/ Submit \/ Collect \/ TrainCritic \/ TrainActor
    <3>1. rollout_id' = rollout_id /\ pc \in {"push", "loop", "collect"} \cup Training
      BY <1>0, <2>2, ArgTypes DEF FirstPush, Submit, Collect, TrainCritic, TrainActor, Types, Training
    <3>2. ~Unsaved
      BY <1>0, <3>1 DEF Unsaved, InFlight, Training
    <3> QED BY <3>1, <3>2 DEF NotYetSaved
  <2>3. CASE SaveData
    <3>1. /\ rollout_id' = rollout_id /\ pc = "save_data" /\ pc' = "saved_data" /\ UNCHANGED <<critic, backups>>
          /\ calls' = Append(calls, [call |-> "save", id |-> rollout_id])
      BY <2>3 DEF SaveData, models
    <3>2. calls'[Len(calls) + 1].call = "save" /\ Len(calls) + 1 \in DOMAIN calls'
      BY <1>0, <3>1 DEF Types
    <3> QED BY <3>1, <3>2 DEF Unsaved, NotYetSaved, Current, Training
  <2>4. CASE SavedData \/ AwaitRollout
    <3>1. rollout_id' = rollout_id /\ pc \in {"saved_data", "update"} /\ pc' \in {"update", "push_loop"}
          /\ UNCHANGED <<critic, backups>> /\ ~Unsaved
      BY <1>0, <2>4 DEF SavedData, AwaitRollout, models, Unsaved, InFlight
    <3> QED BY <3>1 DEF NotYetSaved, Current, Training
  <2>5. CASE Dispose
    <3>1. rollout_id' = rollout_id /\ NotYetSaved(role) /\ ~Unsaved
      BY <1>0, <2>5 DEF Dispose, NotYetSaved, Unsaved, InFlight
    <3> QED BY <3>1
  <2>6. CASE BeginGenerate
    <3>1. UNCHANGED <<rollout_id, pc, critic, backups>> /\ calls # << >> /\ Head(calls).call = "generate"
          /\ calls' = Tail(calls)
      BY <2>6 DEF BeginGenerate, models
    <3>2. ASSUME NEW i \in DOMAIN calls, calls[i].call = "save"
          PROVE  i - 1 \in DOMAIN calls' /\ calls'[i - 1].call = "save"
      <4>1. calls \in Seq(Calls) /\ i # 1
        BY <1>0, <3>1, <3>2, Taken DEF Types
      <4> QED BY <3>1, <3>2, <4>1
    <3>3. Unsaved => Unsaved'
      BY <3>1, <3>2 DEF Unsaved
    <3> QED BY <3>1, <3>3 DEF NotYetSaved, Current
  <2>7. CASE EndGenerate \/ UNCHANGED vars
    <3>1. UNCHANGED <<rollout_id, pc, critic, backups, calls>>
      BY <2>7 DEF EndGenerate, models, vars, manager
    <3> QED BY <3>1 DEF NotYetSaved, Current, Unsaved
  <2> QED BY <2>1, <2>2, <2>3, <2>4, <2>5, <2>6, <2>7 DEF Quiet
<1> QED BY <1>1, <1>2, <1>5

\* What is on disk stays fit to begin from.
LEMMA NextDisk == ASSUME LoopInv, LoopInv', Ordered, Disk, [Next]_vars PROVE Disk'
<1>1. /\ Types /\ DiskTypes /\ Flow /\ InFlight /\ Flow' /\ Types' /\ InFlight'
  BY DEF LoopInv
<1>2. CASE Create \/ SaveActor \/ SaveCritic \/ SaveDataSource
  BY <1>2, CreateDisk, SaveActorDisk, SaveCriticDisk, SaveDataSourceDisk
<1>3. CASE Crash
  <2>1. UNCHANGED <<args, disk, critic, blind, backups>> /\ pc' = "create" /\ \A role \in Roles : pending'[role] = None
    BY <1>3 DEF Crash, models, Roles
  <2>2. ASSUME ~blind, NEW role \in Roles PROVE OnDisk(role)'
    BY <2>1, <2>2 DEF Disk, OnDisk, StateFits
  <2> QED BY <2>1, <2>2 DEF Disk, SavedNow, AtOnce, Decides, Roles
<1>4. CASE Quiet
  <2>1. UNCHANGED <<args, disk, pending, blind>>
    BY <1>1, <1>4, QuietStep
  <2>2. (pc # "create" /\ pc' # "create") \/ UNCHANGED <<pc, calls, rollout_id, critic, backups>>
    BY <1>4, QuietStep
  <2>3. ~args.critic => critic' = critic
    BY <1>1, <1>4 DEF Quiet, FirstPush, Submit, Collect, TrainCritic, TrainActor, SaveData, SavedData, AwaitRollout,
                UpdateWeights, SkipUpdate, Dispose, BeginGenerate, EndGenerate, manager, models, vars, Flow
  <2>4. pc' \in {"save_data", "saved_data"} => SavedNow /\ rollout_id' = rollout_id
    <3>1. pc' = "save_data" => ~TrainCritic /\ ~TrainActor
      BY DEF TrainCritic, TrainActor, AfterTrain
    <3> QED BY <3>1, <1>4 DEF Quiet, FirstPush, Submit, Collect, SaveData, SavedData, AwaitRollout, TrainCritic, TrainActor, AfterTrain,
                UpdateWeights, SkipUpdate, Dispose, BeginGenerate, EndGenerate, manager, models, vars, SavedNow
  <2>6. ASSUME ~blind, NEW role \in Roles PROVE OnDisk(role)'
    <3>1. OnDisk(role)
      BY <2>6 DEF Disk
    <3>2. CASE pc # "create" /\ pc' # "create"
      BY <1>1, <1>4, <2>1, <3>1, <3>2, QuietStep, OnDiskFrame
    <3>3. CASE UNCHANGED <<pc, calls, rollout_id, critic, backups>>
      BY <2>1, <3>1, <3>3 DEF OnDisk, StateFits, NotYetSaved, Unsaved, Current
    <3> QED BY <2>2, <3>2, <3>3
  <2>7. pc' = "create" => pc = "create"
    BY <2>2
  <2> QED BY <2>1, <2>3, <2>4, <2>6, <2>7 DEF Disk, SavedNow, AtOnce, Decides
<1> QED BY <1>2, <1>3, <1>4 DEF Next, Driver, Manager, Finished, Quiet

-----------------------------------------------------------------------------
(* The batches that are lost. *)

\* Sets of batches are finite, and a smaller one has no more of them.
LEMMA FewerBatches ==
  ASSUME NEW n \in Nat, NEW S \in SUBSET (0 .. n - 1)
  PROVE  /\ IsFiniteSet(S) /\ Cardinality(S) \in Nat
         /\ \A T : T \subseteq S => IsFiniteSet(T) /\ Cardinality(T) \in Nat /\ Cardinality(T) <= Cardinality(S)
<1>1. IsFiniteSet(0 .. n - 1)
  BY FS_Interval
<1>2. IsFiniteSet(S)
  BY <1>1, FS_Subset
<1> QED BY <1>2, FS_Subset, FS_CardinalityType

\* The weights that decide what is lost.
LEMMA LostSet ==
  /\ Lost \subseteq 0 .. position - 1
  /\ \A b : b \in Lost <=>
       /\ b \in 0 .. position - 1 /\ ~Occurs(b, Current(Decides))
       /\ busy # Nothing => busy.batch # b
       /\ \A k \in DOMAIN made : k >= rollout_id => made[k].batch # b
BY DEF Lost, Current, Decides

\* What was trained on stays trained on.
LEMMA OccursAppended ==
  ASSUME NEW w \in Weights, NEW b \in Nat, NEW c
  PROVE  Occurs(b, Append(w, b)) /\ (Occurs(c, w) => Occurs(c, Append(w, b)))
<1>1. Append(w, b)[Len(w) + 1] = b /\ Len(w) + 1 \in DOMAIN Append(w, b)
  BY DEF Weights
<1>2. \A i \in DOMAIN w : i \in DOMAIN Append(w, b) /\ Append(w, b)[i] = w[i]
  BY DEF Weights
<1> QED BY <1>1, <1>2 DEF Occurs

\* What an iteration trained on is what it was given.
LEMMA NextTrainedOn ==
  ASSUME LoopInv, LoopInv', [Next]_vars, ~blind, ~Create, Losses,
         pc' \in Trained \/ (pc' = "train_actor" /\ args'.critic)
  PROVE  Occurs(made'[rollout_id'].batch, Current(Decides)')
<1>1. /\ Types /\ Flow /\ InFlight /\ Results /\ Types' /\ Flow' /\ InFlight' /\ Results'
  BY DEF LoopInv
<1>2. CASE TrainCritic
  <2>1. args.critic /\ UNCHANGED <<args, made, rollout_id>> /\ critic' = Append(critic, curr.batch)
        /\ curr = made[rollout_id] /\ curr.batch \in Nat
    BY <1>1, <1>2 DEF TrainCritic, Flow, manager, Results, Training, Types, Result
  <2> QED BY <1>1, <2>1, OccursAppended DEF Current, Decides, Types
<1>3. CASE TrainActor
  <2>1. UNCHANGED <<args, made, rollout_id, critic>> /\ pc = "train_actor" /\ backups'.actor = Append(backups.actor, curr.batch)
        /\ curr = made[rollout_id] /\ curr.batch \in Nat
    BY <1>1, <1>3 DEF TrainActor, manager, Results, Training, Types, Result
  <2>2. CASE args.critic
    BY <2>1, <2>2 DEF Losses, Current, Decides
  <2>3. CASE ~args.critic
    BY <1>1, <2>1, <2>3, OccursAppended DEF Current, Decides, Types
  <2> QED BY <2>2, <2>3
<1>4. CASE EndGenerate
  <2>1. /\ UNCHANGED <<args, rollout_id, critic, backups, pc>>
        /\ rollout_id \in DOMAIN made => made'[rollout_id] = made[rollout_id]
    BY <1>1, <1>4 DEF EndGenerate, models, With, InFlight
  <2>2. rollout_id \in DOMAIN made
    BY <1>1, <2>1 DEF Results, Training
  <2> QED BY <2>1, <2>2 DEF Losses, Current, Decides
<1>5. ASSUME \/ SaveActor \/ SaveCritic \/ SaveData \/ SavedData \/ AwaitRollout \/ BeginGenerate \/ SaveDataSource
             \/ UNCHANGED vars
      PROVE  Occurs(made'[rollout_id'].batch, Current(Decides)')
  <2>1. UNCHANGED <<args, made, rollout_id, critic, backups>> /\ (pc' = pc \/ pc \in Trained)
    BY <1>5 DEF SaveActor, SaveCritic, SaveData, SavedData, AwaitRollout, BeginGenerate, SaveDataSource, vars, manager,
                models, Trained
  <2> QED BY <2>1 DEF Losses, Current, Decides
<1>6. ~Crash /\ ~FirstPush /\ ~Submit /\ ~Collect
  BY ArgTypes, <1>1 DEF Crash, FirstPush, Submit, Collect, Trained, Types
<1>7. ~UpdateWeights /\ ~SkipUpdate /\ ~Dispose
  BY DEF UpdateWeights, SkipUpdate, Dispose, Trained
<1> QED BY <1>2, <1>3, <1>4, <1>5, <1>6, <1>7 DEF Next, Driver, Manager, Finished, Trained

\* A batch that is lost by a step of the loop was lost before.
LEMMA NextLost ==
  ASSUME LoopInv, LoopInv', Losses, ~blind, [Next]_vars, ~Create, pc # "create", pc' # "create"
  PROVE  Lost' \subseteq Lost
<1>1. /\ Types /\ Flow /\ InFlight /\ Results /\ Types' /\ Flow' /\ InFlight' /\ Results'
  BY DEF LoopInv
<1> SUFFICES ASSUME NEW b \in Lost' PROVE b \in Lost
  OBVIOUS
<1>2. /\ b \in 0 .. position' - 1 /\ ~Occurs(b, Current(Decides)')
      /\ busy' # Nothing => busy'.batch # b
      /\ \A k \in DOMAIN made' : k >= rollout_id' => made'[k].batch # b
  BY DEF Lost, Current, Decides
<1>3. CASE BeginGenerate
  <2>1. /\ UNCHANGED <<args, critic, backups, made, rollout_id>> /\ position' = position + 1 /\ busy = Nothing
        /\ busy' = [id |-> Head(calls).id, batch |-> position, by |-> engine] /\ calls # << >>
    BY <1>3 DEF BeginGenerate, models
  <2>5. Head(calls) \in Calls
    BY <1>1, <2>1, Taken DEF Types
  <2>4. Head(calls).id \in Nat
    BY <2>5 DEF Calls
  <2>2. busy' # Nothing
    BY <1>1, <2>1, <2>4, NothingAssumption DEF Types, Weights
  <2>3. b \in 0 .. position - 1
    BY <1>1, <1>2, <2>1, <2>2 DEF Types
  <2> QED BY <1>2, <2>1, <2>3, LostSet DEF Current, Decides
<1>4. CASE EndGenerate
  <2>1. /\ UNCHANGED <<args, critic, backups, rollout_id, position>> /\ busy # Nothing
        /\ DOMAIN made' = DOMAIN made \cup {next} /\ made'[next].batch = busy.batch
        /\ \A k \in DOMAIN made : made'[k] = made[k]
    BY <1>1, <1>4 DEF EndGenerate, models, With, InFlight
  <2>2. next >= rollout_id
    BY <1>1, <2>1 DEF InFlight, Awaited, Types
  <2>3. busy.batch # b
    BY <1>2, <2>1, <2>2
  <2> QED BY <1>2, <2>1, <2>3, LostSet DEF Current, Decides
<1>5. CASE UpdateWeights \/ SkipUpdate
  <2>1. /\ UNCHANGED <<args, critic, made, busy, position>> /\ rollout_id' = rollout_id + 1
        /\ backups'.actor = backups.actor /\ pc \in Trained
    BY <1>1, <1>5 DEF UpdateWeights, SkipUpdate, KeptOld, manager, models, Types, Trained
  <2>2. Occurs(made[rollout_id].batch, Current(Decides))
    BY <2>1 DEF Losses
  <2>3. ~Occurs(b, Current(Decides))
    BY <1>2, <2>1 DEF Current, Decides
  <2>4. ASSUME NEW k \in DOMAIN made, k >= rollout_id PROVE made[k].batch # b
    <3>1. k = rollout_id \/ k >= rollout_id + 1
      BY <1>1, <2>4 DEF Types
    <3> QED BY <1>2, <2>1, <2>2, <2>3, <3>1
  <2> QED BY <1>2, <2>1, <2>3, <2>4, LostSet
<1>6. CASE TrainCritic \/ TrainActor
  <2>1. UNCHANGED <<args, made, busy, position, rollout_id, curr>>
    BY <1>6 DEF TrainCritic, TrainActor, manager
  <2>2. curr.batch \in Nat
    BY <1>1, <1>6 DEF TrainCritic, TrainActor, Results, Training, Types, Result
  <2>3. Current(Decides)' = Current(Decides) \/ Current(Decides)' = Append(Current(Decides), curr.batch)
    BY <1>1, <1>6 DEF TrainCritic, TrainActor, Current, Decides, Types
  <2>4. Current(Decides) \in Weights
    BY <1>1 DEF Current, Types
  <2>5. ~Occurs(b, Current(Decides))
    BY <1>2, <2>2, <2>3, <2>4, OccursAppended
  <2> QED BY <1>2, <2>1, <2>5, LostSet
<1>7. ASSUME \/ FirstPush \/ Submit \/ Collect \/ SaveActor \/ SaveCritic \/ SaveData \/ SavedData \/ AwaitRollout
             \/ Dispose \/ SaveDataSource \/ UNCHANGED vars
      PROVE  b \in Lost
  <2>1. UNCHANGED <<args, made, busy, position, rollout_id, critic>> /\ backups'.actor = backups.actor
    BY <1>1, <1>7 DEF FirstPush, Submit, Collect, SaveActor, SaveCritic, SaveData, SavedData, AwaitRollout, Dispose,
                SaveDataSource, vars, manager, models, KeptOld, Types
  <2> QED BY <1>2, <2>1, LostSet DEF Current, Decides
<1> QED BY <1>3, <1>4, <1>5, <1>6, <1>7 DEF Next, Driver, Manager, Finished, Crash

\* A set with one more batch has at most one more of them.
LEMMA OneMoreBatch ==
  ASSUME NEW n \in Nat, NEW S \in SUBSET (0 .. n - 1), NEW b, NEW T, T \subseteq S \cup {b}
  PROVE  Cardinality(T) <= Cardinality(S) + 1
<1>1. IsFiniteSet(S) /\ Cardinality(S) \in Nat
  BY FewerBatches
<1>2. IsFiniteSet(S \cup {b}) /\ Cardinality(S \cup {b}) \in Nat /\ Cardinality(S \cup {b}) <= Cardinality(S) + 1
  <2>1. IsFiniteSet(S \cup {b})
    BY <1>1, FS_AddElement
  <2>2. Cardinality(S \cup {b}) = Cardinality(S) \/ Cardinality(S \cup {b}) = Cardinality(S) + 1
    BY <1>1, FS_AddElement
  <2> QED BY <1>1, <2>1, <2>2
<1>3. Cardinality(T) <= Cardinality(S \cup {b}) /\ Cardinality(T) \in Nat
  BY <1>2, FS_Subset, FS_CardinalityType
<1> QED BY <1>1, <1>2, <1>3

\* A restart that found the wrong files stays marked, and the arguments stay.
LEMMA StaysBlind ==
  ASSUME [Next]_vars, Types
  PROVE  args' = args /\ (~blind' => ~blind) /\ (~Crash => crashes' = crashes)
BY DEF Next, Driver, Manager, Finished, Create, Crash, FirstPush, Submit, Collect, TrainCritic, TrainActor, SaveActor,
       SaveCritic, SaveData, SavedData, AwaitRollout, UpdateWeights, SkipUpdate, Dispose, BeginGenerate, EndGenerate,
       SaveDataSource, vars, Types

\* The bounds are numbers.
LEMMA LossBounds ==
  ASSUME Types
  PROVE  LostBound \in Nat /\ SkippedBound \in Nat /\ (pc # "create" /\ args.async => SkippedBound = LostBound + 1)
BY ArgTypes DEF Types, LostBound, SkippedBound

\* A restart skips what its checkpoint skips.
LEMMA CreateLosses == ASSUME LoopInv, LoopInv', Disk, Losses, Create PROVE Losses'
<1>1. Types /\ DiskTypes /\ Types'
  BY DEF LoopInv
<1>2. UNCHANGED <<args, disk, pending, crashes>> /\ pc = "create" /\ pc' = "push" /\ \A role \in Roles : pending[role] = None
  BY DEF Create, Disk
<1> SUFFICES ASSUME ~blind' PROVE Losses'
  BY DEF Losses
<1>3. ~blind /\ FilesAgree /\ disk.actor.last = disk[Decides].last /\ Decides \in Roles /\ pending[Decides] = None
  BY <1>1, <1>2, ArgTypes DEF Create, Types, FilesAgree, Decides, Roles
<1> DEFINE l == disk[Decides].last
<1>4. SkippedBound = LostBound' /\ LostBound' \in Nat
  BY <1>1, <1>2, ArgTypes DEF SkippedBound, LostBound, Types
<1>5. Cardinality(Lost') <= LostBound'
  <2>1. CASE l = None
    <3>1. position' = 0
      BY <1>2, <1>3, <2>1 DEF Create, StatePosition
    <3>2. Lost' = {}
      BY <3>1 DEF Lost
    <3> QED BY <1>4, <3>2, FS_EmptySet
  <2>2. CASE l # None
    <3>1. StartRollout = l + 1 /\ l \in Nat /\ l \in DOMAIN disk.data
      BY <1>1, <1>3, <2>2, ArgTypes DEF StartRollout, FilesAgree, Decides, DiskTypes, Types, Roles, None
    <3>2. position' = disk.data[l]
      BY <1>3, <2>2, <3>1 DEF Create, StatePosition
    <3>3. Current(Decides)' = disk[Decides].saved[l]
      <4>1. Loaded(Decides) = disk[Decides].saved[l]
        BY <2>2 DEF Loaded
      <4>2. backups'.actor = Loaded("actor") /\ critic' = Loaded("critic")
        BY DEF Create, InitialBackups, With
      <4> QED BY <1>2, <4>1, <4>2 DEF Current, Decides
    <3>4. Lost' \subseteq Untrained(disk.data[l], disk[Decides].saved[l])
      BY <3>2, <3>3 DEF Lost, Current, Decides, Untrained
    <3>5. Cardinality(Untrained(disk.data[l], disk[Decides].saved[l])) <= SkippedBound
      BY <1>3, <2>2, <3>1 DEF Losses, SkipsOnDisk, SkipsFew, Skipped
    <3>6. Untrained(disk.data[l], disk[Decides].saved[l]) \in SUBSET (0 .. disk.data[l] - 1) /\ disk.data[l] \in Nat
      BY <1>1, <3>1 DEF Untrained, DiskTypes
    <3> HIDE DEF l
    <3>7. /\ Cardinality(Lost') <= Cardinality(Untrained(disk.data[l], disk[Decides].saved[l])) /\ Cardinality(Lost') \in Nat
          /\ Cardinality(Untrained(disk.data[l], disk[Decides].saved[l])) \in Nat
      BY <3>4, <3>6, FewerBatches
    <3> QED BY <1>4, <3>5, <3>7
  <2> QED BY <2>1, <2>2
<1>6. SkippedBound <= SkippedBound' /\ SkippedBound \in Nat /\ SkippedBound' \in Nat
  BY <1>1, <1>2, ArgTypes DEF SkippedBound, Types
<1>7. ASSUME NEW k, k = disk[Decides].last, k # None, k \in DOMAIN disk.data
      PROVE  Cardinality(Skipped(k)) <= SkippedBound'
  <2>1. Cardinality(Skipped(k)) <= SkippedBound
    BY <1>3, <1>7 DEF Losses, SkipsOnDisk, SkipsFew
  <2>2. disk.data[k] \in Nat /\ Skipped(k) \in SUBSET (0 .. disk.data[k] - 1)
    BY <1>1, <1>7 DEF Skipped, Untrained, DiskTypes
  <2>3. Cardinality(Skipped(k)) \in Nat
    BY <2>2, FewerBatches
  <2> QED BY <1>6, <2>1, <2>3
<1>8. SkipsOnDisk'
  BY <1>2, <1>3, <1>7 DEF SkipsOnDisk, SkipsFew, Skipped, Decides
<1> QED BY <1>2, <1>5, <1>8 DEF Losses, Trained

\* A crash loses the batch of the rollout in flight.
LEMMA CrashLosses == ASSUME LoopInv, Losses, Crash PROVE Losses'
<1>1. Types /\ DiskTypes
  BY DEF LoopInv
<1>2. UNCHANGED <<args, disk, blind>> /\ pc # "create" /\ pc' = "create" /\ \A role \in Roles : pending'[role] = None
  BY DEF Crash, Roles
<1>3. SkippedBound' = SkippedBound /\ Decides' = Decides /\ Decides \in Roles
  BY <1>1, <1>2, ArgTypes DEF SkippedBound, Crash, Decides, Roles, Types
<1>4. ~blind => SkipsOnDisk'
  BY <1>2, <1>3 DEF Losses, SkipsOnDisk, SkipsFew, Skipped
<1> QED BY <1>2, <1>4 DEF Losses, Trained

\* A step that writes nothing leaves what a restart would skip.
LEMMA QuietSkips ==
  ASSUME LoopInv, LoopInv', Losses, Quiet, ~blind
  PROVE  SkipsOnDisk'
<1>1. Types /\ DiskTypes
  BY DEF LoopInv
<1>2. UNCHANGED <<args, disk, pending, blind, crashes>> /\ (pc = "create" <=> pc' = "create")
  BY QuietStep
<1>3. Decides' = Decides /\ Decides \in Roles /\ SkippedBound' = SkippedBound
  BY <1>2 DEF Decides, Roles, SkippedBound
<1>4. ASSUME NEW k, SkipsFew(k), k \in DOMAIN disk.data PROVE Cardinality(Skipped(k)) <= SkippedBound'
  BY <1>3, <1>4 DEF SkipsFew
<1>5. disk[Decides].last # None => SkipsFew(disk[Decides].last)
  BY DEF Losses, SkipsOnDisk
<1>6. ASSUME pending[Decides] # None
      PROVE  (pending[Decides] = rollout_id' /\ Unsaved') \/ SkipsFew(pending[Decides])
  <2>1. (pending[Decides] = rollout_id /\ Unsaved) \/ SkipsFew(pending[Decides])
    BY <1>6 DEF Losses, SkipsOnDisk
  <2>2. CASE pc # "create" /\ pc' # "create"
    BY <1>3, <2>1, <2>2, QuietStep
  <2>3. CASE UNCHANGED <<pc, calls, rollout_id, critic, backups>>
    BY <2>1, <2>3 DEF Unsaved
  <2> QED BY <2>2, <2>3, QuietStep
<1> QED BY <1>2, <1>3, <1>4, <1>5, <1>6 DEF SkipsOnDisk, SkipsFew, Skipped

\* A checkpoint is skipped over only by the state of the data source behind it.
LEMMA SaveActorSkips ==
  ASSUME LoopInv, LoopInv', Ordered, Disk, Losses, SaveActor, ~blind
  PROVE  SkipsOnDisk'
<1>1. /\ Types /\ DiskTypes /\ Flow
      /\ UNCHANGED <<args, rollout_id, backups, critic, live, blind, crashes>> /\ pc = "save_actor"
      /\ pc' = (IF args.critic THEN "save_critic" ELSE "save_data") /\ Stored("actor", live)
      /\ live = backups.actor /\ rollout_id < NumRollout /\ args.critic \in BOOLEAN
  BY ArgTypes DEF LoopInv, SaveActor, models, Flow, Trained, Types
<1>2. live \in Weights /\ live = Current("actor")' /\ Increasing(live)
  BY <1>1 DEF Types, Current, Ordered
<1>3. NotYetSaved("actor") /\ NotYetSaved(Decides) /\ ~NotYetSaved("actor")' /\ Unsaved' /\ ~Unsaved
  BY <1>1 DEF NotYetSaved, Unsaved, Training, Decides, LoopInv, InFlight
<1>4. Decides' = Decides /\ Decides \in Roles /\ SkippedBound' = SkippedBound
  BY <1>1 DEF Decides, Roles, SkippedBound
<1>5. ASSUME NEW k, SkipsFew(k), k \in DOMAIN disk.data PROVE Cardinality(Skipped(k)) <= SkippedBound'
  BY <1>4, <1>5 DEF SkipsFew
<1>6. /\ disk[Decides].last # None => SkipsFew(disk[Decides].last)
      /\ pending[Decides] # None => SkipsFew(pending[Decides])
  BY <1>3 DEF Losses, SkipsOnDisk
<1>7. /\ \A other \in Roles : other # "actor" => disk'[other] = disk[other] /\ pending'[other] = pending[other]
      /\ disk'.data = disk.data
      /\ pending'["actor"] \in {None, rollout_id}
      /\ \A k : k = disk'["actor"].last /\ k # None =>
              \/ k = rollout_id /\ k \notin DOMAIN disk.data
              \/ k \in {disk["actor"].last, pending["actor"]} /\ k # rollout_id
                 /\ disk'["actor"].saved[k] = disk["actor"].saved[k]
  BY <1>1, <1>2, <1>3, StoredOnDisk DEF Roles
<1>8. CASE Decides = "actor"
  <2>1. pending'[Decides] # None => pending'[Decides] = rollout_id' /\ Unsaved'
    BY <1>1, <1>3, <1>7, <1>8
  <2>2. ASSUME NEW k, k = disk'[Decides].last, k # None, k \in DOMAIN disk'.data
        PROVE  Cardinality(Untrained(disk'.data[k], disk'[Decides].saved[k])) <= SkippedBound'
    <3>1. k \in {disk["actor"].last, pending["actor"]} /\ k # rollout_id /\ disk'["actor"].saved[k] = disk["actor"].saved[k]
      BY <1>7, <1>8, <2>2
    <3>2. SkipsFew(k)
      BY <1>6, <1>8, <2>2, <3>1
    <3> QED BY <1>5, <1>7, <1>8, <2>2, <3>1, <3>2 DEF Skipped
  <2> QED BY <1>4, <2>1, <2>2 DEF SkipsOnDisk, SkipsFew, Skipped
<1>9. CASE Decides = "critic"
  <2>1. disk'[Decides] = disk[Decides] /\ pending'[Decides] = pending[Decides]
    BY <1>7, <1>9 DEF Roles
  <2> QED BY <1>4, <1>5, <1>6, <1>7, <2>1 DEF SkipsOnDisk, SkipsFew, Skipped
<1> QED BY <1>8, <1>9 DEF Decides

\* The same for the critic.
LEMMA SaveCriticSkips ==
  ASSUME LoopInv, LoopInv', Ordered, Disk, Losses, SaveCritic, ~blind
  PROVE  SkipsOnDisk'
<1>1. /\ Types /\ DiskTypes /\ Flow
      /\ UNCHANGED <<args, rollout_id, backups, critic, live, blind, crashes>> /\ pc = "save_critic"
      /\ pc' = "save_data" /\ Stored("critic", critic) /\ rollout_id < NumRollout /\ args.critic
  BY ArgTypes DEF LoopInv, SaveCritic, models, Flow, Trained, Types
<1>2. critic \in Weights /\ critic = Current("critic")' /\ Increasing(critic)
  BY <1>1 DEF Types, Current, Ordered
<1>3. NotYetSaved("critic") /\ NotYetSaved(Decides) /\ ~NotYetSaved("critic")' /\ Unsaved'
  BY <1>1 DEF NotYetSaved, Unsaved, Training, Decides
<1>4. Decides' = Decides /\ Decides = "critic" /\ SkippedBound' = SkippedBound
  BY <1>1 DEF Decides, SkippedBound
<1>5. ASSUME NEW k, SkipsFew(k), k \in DOMAIN disk.data PROVE Cardinality(Skipped(k)) <= SkippedBound'
  BY <1>4, <1>5 DEF SkipsFew
<1>6. /\ disk[Decides].last # None => SkipsFew(disk[Decides].last)
      /\ pending[Decides] # None => pending[Decides] = rollout_id \/ SkipsFew(pending[Decides])
  BY DEF Losses, SkipsOnDisk
<1>7. /\ disk'.data = disk.data
      /\ pending'["critic"] \in {None, rollout_id}
      /\ \A k : k = disk'["critic"].last /\ k # None =>
              \/ k = rollout_id /\ k \notin DOMAIN disk.data
              \/ k \in {disk["critic"].last, pending["critic"]} /\ k # rollout_id
                 /\ disk'["critic"].saved[k] = disk["critic"].saved[k]
  BY <1>1, <1>2, <1>3, StoredOnDisk DEF Roles
<1>8. pending'[Decides] # None => pending'[Decides] = rollout_id' /\ Unsaved'
  BY <1>1, <1>3, <1>4, <1>7
<1>9. ASSUME NEW k, k = disk'[Decides].last, k # None, k \in DOMAIN disk'.data
      PROVE  Cardinality(Untrained(disk'.data[k], disk'[Decides].saved[k])) <= SkippedBound'
  <2>1. k \in {disk["critic"].last, pending["critic"]} /\ k # rollout_id /\ disk'["critic"].saved[k] = disk["critic"].saved[k]
    BY <1>4, <1>7, <1>9
  <2>2. SkipsFew(k)
    BY <1>4, <1>6, <1>9, <2>1
  <2> QED BY <1>4, <1>5, <1>7, <1>9, <2>1, <2>2 DEF Skipped
<1> QED BY <1>4, <1>8, <1>9 DEF SkipsOnDisk, SkipsFew, Skipped

\* The state of the data source is behind the rollout in flight, which a restart skips.
LEMMA SaveDataSourceSkips ==
  ASSUME LoopInv, LoopInv', Disk, Losses, SaveDataSource, ~blind
  PROVE  SkipsOnDisk'
<1>1. Types /\ DiskTypes /\ Flow /\ InFlight /\ Results
  BY DEF LoopInv
<1>2. /\ Head(calls).id = rollout_id /\ pc = "saved_data" /\ busy = Nothing
      /\ UNCHANGED <<args, pc, rollout_id, pending, backups, critic, blind, position, crashes>>
  BY <1>1, Taken DEF SaveDataSource, InFlight, Types, models
<1>3. /\ \A role \in Roles : disk'[role] = disk[role]
      /\ DOMAIN disk'.data = DOMAIN disk.data \cup {rollout_id}
      /\ disk'.data[rollout_id] = position
      /\ \A k \in DOMAIN disk.data : k # rollout_id => disk'.data[k] = disk.data[k]
  BY <1>1, <1>2 DEF SaveDataSource, With, DiskTypes, Roles
<1>4. /\ Decides' = Decides /\ Decides \in Roles /\ SkippedBound' = SkippedBound
      /\ disk'[Decides] = disk[Decides] /\ pending' = pending
  BY <1>2, <1>3 DEF Decides, Roles, SkippedBound
<1>5. Cardinality(Untrained(position, Current(Decides))) <= SkippedBound
  <2> DEFINE U == Untrained(position, Current(Decides))
  <2>1. Lost \in SUBSET (0 .. position - 1) /\ position \in Nat /\ Cardinality(Lost) <= LostBound
    BY <1>1, <1>2, LostSet DEF Losses, Types
  <2>2. ASSUME NEW b \in U, b \notin Lost
        PROVE  rollout_id + 1 \in DOMAIN made /\ b = made[rollout_id + 1].batch
    <3>1. PICK k \in DOMAIN made : k >= rollout_id /\ made[k].batch = b
      BY <1>2, <2>2, LostSet DEF Untrained
    <3>2. k # rollout_id
      BY <1>2, <2>2, <3>1 DEF Losses, Trained, Untrained
    <3>3. k = rollout_id + 1
      BY <1>1, <3>1, <3>2 DEF Results, Types
    <3> QED BY <3>1, <3>3
  <2>3. Cardinality(Lost) \in Nat /\ LostBound \in Nat /\ SkippedBound \in Nat
        /\ (args.async => SkippedBound = LostBound + 1) /\ LostBound <= SkippedBound
    <3>1. Cardinality(Lost) \in Nat
      BY <2>1, FewerBatches
    <3> QED BY <1>1, <1>2, <3>1, ArgTypes DEF LostBound, SkippedBound, Types
  <2>4. CASE args.async
    <3>1. U \subseteq Lost \cup {made[rollout_id + 1].batch}
      BY <2>2
    <3> HIDE DEF U
    <3>2. Cardinality(U) <= Cardinality(Lost) + 1
      BY <2>1, <3>1, OneMoreBatch
    <3>3. Cardinality(U) \in Nat
      <4>1. U \in SUBSET (0 .. position - 1)
        BY DEF U, Untrained
      <4> QED BY <2>1, <4>1, FewerBatches
    <3> QED BY <2>1, <2>3, <2>4, <3>2, <3>3 DEF U
  <2>5. CASE ~args.async
    <3>1. rollout_id + 1 \notin DOMAIN made
      BY <1>1, <2>5 DEF Results, Types
    <3>2. U \subseteq Lost
      BY <2>2, <3>1
    <3> HIDE DEF U
    <3>3. Cardinality(U) <= Cardinality(Lost) /\ Cardinality(U) \in Nat
      BY <2>1, <3>2, FewerBatches
    <3> QED BY <2>1, <2>3, <3>3 DEF U
  <2> QED BY <2>4, <2>5
<1>6. ASSUME NEW k, k \in DOMAIN disk'.data, k = rollout_id => disk[Decides].saved[k] = Current(Decides),
             k # rollout_id => SkipsFew(k)
      PROVE  Cardinality(Untrained(disk'.data[k], disk'[Decides].saved[k])) <= SkippedBound'
  BY <1>3, <1>4, <1>5, <1>6 DEF SkipsFew, Skipped
<1>7. \A k \in {disk[Decides].last, pending[Decides]} : k # None =>
        /\ k = rollout_id => disk[Decides].saved[k] = Current(Decides)
        /\ k # rollout_id => SkipsFew(k)
  BY <1>2, <1>4 DEF Losses, SkipsOnDisk, Disk, OnDisk
<1> QED BY <1>4, <1>6, <1>7 DEF SkipsOnDisk, SkipsFew, Skipped

\* Nothing but the rollout in flight is lost, by any step.
LEMMA NextLosses == ASSUME LoopInv, LoopInv', Ordered, Disk, Losses, [Next]_vars PROVE Losses'
<1>1. Types /\ Types' /\ Flow /\ Flow'
  BY DEF LoopInv
<1>2. CASE Create \/ Crash
  BY <1>2, CreateLosses, CrashLosses
<1>3. CASE ~Create /\ ~Crash
  <2> SUFFICES ASSUME ~blind' PROVE Losses'
    BY DEF Losses
  <2>1. args' = args /\ ~blind /\ crashes' = crashes
    BY <1>1, <1>3, StaysBlind
  <2>2. Quiet \/ SaveActor \/ SaveCritic \/ SaveDataSource
    BY <1>3 DEF Next, Driver, Manager, Finished, Quiet
  <2>3. SkipsOnDisk'
    BY <2>1, <2>2, QuietSkips, SaveActorSkips, SaveCriticSkips, SaveDataSourceSkips
  <2>4. pc = "create" <=> pc' = "create"
    <3>1. Quiet => (pc = "create" <=> pc' = "create")
      BY QuietStep
    <3> QED BY <2>2, <3>1, <1>1, Taken DEF SaveActor, SaveCritic, SaveDataSource, Flow
  <2>5. ASSUME pc' # "create" PROVE Cardinality(Lost') <= LostBound'
    <3>1. Lost' \subseteq Lost /\ Cardinality(Lost) <= LostBound
      BY <1>3, <2>1, <2>4, <2>5, NextLost DEF Losses
    <3>2. Lost \in SUBSET (0 .. position - 1) /\ position \in Nat
      BY <1>1, LostSet DEF Types
    <3>3. Cardinality(Lost') <= Cardinality(Lost) /\ Cardinality(Lost) \in Nat /\ Cardinality(Lost') \in Nat
      BY <3>1, <3>2, FewerBatches
    <3>4. LostBound' = LostBound /\ LostBound \in Nat
      BY <1>1, <2>1, LossBounds DEF LostBound
    <3> QED BY <3>1, <3>3, <3>4
  <2>6. (pc \in Trained \/ (pc = "train_actor" /\ args.critic) => Occurs(made[rollout_id].batch, Current(Decides)))'
    BY <1>3, <2>1, NextTrainedOn
  <2> QED BY <2>3, <2>5, <2>6 DEF Losses
<1> QED BY <1>2, <1>3

-----------------------------------------------------------------------------
(* The theorems. *)

IInv ==
  /\ LoopInv
  /\ RefSwitchedBack => Versions
  /\ Keeps => OldActorKept
  /\ Ordered /\ Disk /\ Losses

\* A job that has not begun has no weights, no batches and nothing on disk.
LEMMA InitInv == Init => IInv
<1> SUFFICES ASSUME Init PROVE IInv
  OBVIOUS
<1>1. LoopInv
  BY InitLoop
<1>2. Versions /\ OldActorKept
  BY DEF Init, Versions, OldActorKept, Awaited, Collected, CollectedNext, Training
<1>3. Ordered
  BY FreshOrdered DEF Init, Ordered
<1>4. Disk
  BY DEF Init, Disk, OnDisk, SavedNow, Roles, Fresh
<1>5. Losses
  BY DEF Init, Losses, SkipsOnDisk, Decides, Trained
<1> QED BY <1>1, <1>2, <1>3, <1>4, <1>5 DEF IInv

\* Every layer rests on the ones before it.
LEMMA NextInv == IInv /\ [Next]_vars => IInv'
<1> SUFFICES ASSUME IInv, [Next]_vars PROVE IInv'
  OBVIOUS
<1>1. LoopInv /\ LoopInv' /\ Ordered /\ Disk /\ Losses
  BY NextLoop DEF IInv
<1>2. args' = args
  BY <1>1, StaysBlind DEF LoopInv
<1>3. RefSwitchedBack' => Versions'
  <2>1. RefSwitchedBack' <=> RefSwitchedBack
    BY <1>2 DEF RefSwitchedBack
  <2> QED BY <1>1, <2>1, NextVersions DEF IInv
<1>4. Keeps' => OldActorKept'
  <2>1. (Keeps' <=> Keeps) /\ (Keeps => RefSwitchedBack)
    BY <1>2 DEF RefSwitchedBack, Keeps
  <2> QED BY <1>1, <2>1, NextOldActor DEF IInv
<1>5. Ordered' /\ Disk'
  BY <1>1, NextOrdered, NextDisk
<1>6. Losses'
  BY <1>1, NextLosses
<1> QED BY <1>1, <1>3, <1>4, <1>5, <1>6 DEF IInv

\* The weights that generated a batch are an earlier version of the actor.
LEMMA VersionsAreRecent == LoopInv /\ Versions => StaleAtMostInterval
<1> SUFFICES ASSUME LoopInv, Versions, pc = "train_actor"
             PROVE  /\ Cardinality(curr.by) = 1
                    /\ \A w \in curr.by :
                         LET behind == Len(backups.actor) - Len(w)
                         IN  /\ behind \in 0 .. (IF args.async THEN args.interval ELSE 0)
                             /\ w = SubSeq(backups.actor, 1, Len(w))
  BY DEF StaleAtMostInterval
<1>1. backups.actor \in Seq(Nat) /\ StepsAllowed \in Nat
  BY ArgTypes DEF LoopInv, Types, Weights, StepsAllowed
<1>2. PICK w \in Past(StepsAllowed) : curr.by = {w}
  BY DEF Versions, Training
<1>3. PICK n \in 0 .. Len(backups.actor) : w = SubSeq(backups.actor, 1, n) /\ Len(backups.actor) - n <= StepsAllowed
  BY <1>2 DEF Past
<1>4. Len(w) = n
  BY <1>1, <1>3
<1>5. Cardinality(curr.by) = 1
  BY <1>2, FS_Singleton
<1>6. Len(backups.actor) - n \in 0 .. StepsAllowed /\ w = SubSeq(backups.actor, 1, Len(w))
  BY <1>1, <1>3, <1>4
<1> QED BY <1>2, <1>4, <1>5, <1>6 DEF StepsAllowed

\* The batches of the weights ascend, so that none is there twice.
LEMMA NothingRepeated == LoopInv /\ Ordered /\ Losses => GoesOnWhereSaved
<1> SUFFICES ASSUME LoopInv, Ordered, Losses PROVE GoesOnWhereSaved
  OBVIOUS
<1>1. ASSUME NEW w \in Weights, Increasing(w), NEW i \in DOMAIN w, NEW j \in DOMAIN w, w[i] = w[j]
      PROVE  i = j
  BY <1>1 DEF Weights, Increasing
<1>2. backups.actor \in Weights /\ critic \in Weights
  BY DEF LoopInv, Types
<1>3. NothingTwice
  BY <1>1, <1>2 DEF NothingTwice, Ordered
<1>4. LostBounded
  BY DEF LostBounded, Losses, LostBound
<1> QED BY <1>3, <1>4 DEF GoesOnWhereSaved

\* A job runs the driver: what the servers do leaves it alone.
LEMMA JobRunsDriver == JobSpec => Spec
<1>1. JobInit => Init
  BY DEF JobInit
<1>2. [JobNext]_jobVars => [Next]_vars
  BY DEF JobNext, JobDriver, CreateOnServers, UpdateRecovered, OtherDriverStep, ManagerStep, ServersStep,
         RecoverInUpdate, MonitorKills, JobCrash, JobEnded, jobVars, Next, Driver
<1> QED BY <1>1, <1>2, PTL DEF JobSpec, Spec

\* The inductive invariant holds throughout a job.
THEOREM Inductive == Spec => []IInv
BY InitInv, NextInv, PTL DEF Spec

\* The rollout that is trained on was generated by one version of the actor, behind by at
\* most --update-weights-interval training steps in train_async.py and by none in train.py,
\* over restarts too.  A reference that create_training_models leaves in the model in place
\* of the actor is excepted: the engines are then sent it before the loop (PushesActor).
THEOREM StaleAtMostIntervalCorrect == JobSpec => [](RefSwitchedBack => StaleAtMostInterval)
<1>1. IInv => (RefSwitchedBack => StaleAtMostInterval)
  BY VersionsAreRecent DEF IInv
<1> QED BY <1>1, Inductive, JobRunsDriver, PTL

\* With --keep-old-actor, train_async.py and an interval of one, "old_actor" is the version
\* that generated the rollout the actor trains on (update_weights).
THEOREM OldActorGeneratedItCorrect == JobSpec => []OldActorGeneratedIt
<1>1. IInv => OldActorGeneratedIt
  BY DEF IInv, OldActorGeneratedIt, OldActorKept, Keeps, Training
<1> QED BY <1>1, Inductive, JobRunsDriver, PTL

\* A job whose restarts found files that belong together trains on no batch twice, loses
\* none in train.py and at most one for each restart in train_async.py (save_model,
\* RolloutManager.save, load_checkpoint).
THEOREM GoesOnWhereSavedCorrect == JobSpec => []GoesOnWhereSaved
<1>1. IInv => GoesOnWhereSaved
  BY NothingRepeated DEF IInv
<1> QED BY <1>1, Inductive, JobRunsDriver, PTL

-----------------------------------------------------------------------------
(* Numbers, and recursive definitions. *)

\* A set of numbers that is not empty has a least one.
LEMMA LeastNumber ==
  ASSUME NEW S, S \subseteq Nat, S # {}
  PROVE  \E n \in S : \A m \in S : n <= m
<1>1. \E n \in S : \A m \in S : ~(<<m, n>> \in OpToRel(<, Nat))
  BY NatLessThanWellFounded, WFMin
<1>2. PICK n \in S : \A m \in S : ~(<<m, n>> \in OpToRel(<, Nat))
  BY <1>1
<1>3. ASSUME NEW m \in S PROVE n <= m
  <2>1. m \in Nat /\ n \in Nat
    OBVIOUS
  <2>2. ~(m < n)
    BY <1>2, <2>1 DEF OpToRel
  <2> QED BY <2>1, <2>2
<1> QED BY <1>3

\* From a number and the value there, the next value.
Steps(D) == [Nat \X D -> D]
\* f starts with a and goes on by step.
Recurs(f, D, a, step) ==
  f \in [Nat -> D] /\ f[0] = a /\ \A n \in Nat : f[n + 1] = step[<<n, f[n]>>]

\* What is defined by its first value and a step exists.
LEMMA Recursion ==
  ASSUME NEW D, NEW a \in D, NEW step \in Steps(D)
  PROVE  \E f : Recurs(f, D, a, step)
<1> DEFINE Upto(n) == {f \in [0 .. n -> D] : f[0] = a /\ \A m \in 0 .. n - 1 : f[m + 1] = step[<<m, f[m]>>]}
<1>1. ASSUME NEW n \in Nat, NEW f \in Upto(n), NEW k \in Nat, NEW g \in Upto(k), NEW m \in 0 .. n, m <= k
      PROVE  f[m] = g[m]
  <2> DEFINE S == {l \in 0 .. n : l <= k /\ f[l] # g[l]}
  <2> SUFFICES ASSUME S # {} PROVE FALSE
    BY <1>1
  <2>0. S \subseteq Nat
    OBVIOUS
  <2>1. PICK l \in S : \A i \in S : l <= i
    <3> HIDE DEF S
    <3> QED BY <2>0, LeastNumber
  <2>2. l # 0
    BY <2>1
  <2>3. l - 1 \in 0 .. n - 1 /\ l - 1 \in 0 .. k - 1 /\ l - 1 \notin S
    BY <2>1, <2>2
  <2>4. f[l - 1] = g[l - 1]
    BY <2>3
  <2>5. f[l - 1 + 1] = step[<<l - 1, f[l - 1]>>] /\ g[l - 1 + 1] = step[<<l - 1, g[l - 1]>>]
    BY <2>3
  <2>6. l - 1 + 1 = l
    BY <2>1
  <2> QED BY <2>1, <2>4, <2>5, <2>6
<1>2. ASSUME NEW n \in Nat PROVE Upto(n) # {}
  <2> DEFINE S == {l \in Nat : Upto(l) = {}}
  <2> SUFFICES ASSUME S # {} PROVE FALSE
    BY <1>2
  <2>0. S \subseteq Nat
    OBVIOUS
  <2>1. PICK l \in S : \A i \in S : l <= i
    <3> HIDE DEF S
    <3> QED BY <2>0, LeastNumber
  <2>2. [m \in 0 .. 0 |-> a] \in Upto(0)
    OBVIOUS
  <2>3. l # 0
    BY <2>1, <2>2
  <2>4. l - 1 \in Nat /\ l - 1 \notin S
    <3> HIDE DEF S
    <3>1. l \in Nat /\ l # 0
      BY <2>0, <2>1, <2>3
    <3>2. l - 1 \in Nat /\ ~(l <= l - 1)
      BY <3>1
    <3> QED BY <2>1, <3>2
  <2>5. PICK f : f \in Upto(l - 1)
    BY <2>4
  <2> USE DEF Steps
  <2> DEFINE g == [m \in 0 .. l |-> IF m = l THEN step[<<l - 1, f[l - 1]>>] ELSE f[m]]
  <2>6. f[l - 1] \in D
    BY <2>4, <2>5
  <2>7. g \in [0 .. l -> D]
    BY <2>4, <2>5, <2>6
  <2>8. g[0] = a
    BY <2>3, <2>5
  <2>9. ASSUME NEW m \in 0 .. l - 1 PROVE g[m + 1] = step[<<m, g[m]>>]
    <3>1. CASE m = l - 1
      <4>1. g[m + 1] = step[<<l - 1, f[l - 1]>>]
        BY <3>1, <2>4
      <4>2. g[m] = f[m]
        BY <3>1, <2>4
      <4> QED BY <4>1, <4>2, <3>1
    <3>2. CASE m # l - 1
      <4>1. m \in 0 .. (l - 1) - 1
        BY <3>2, <2>4
      <4>2. f[m + 1] = step[<<m, f[m]>>]
        BY <4>1, <2>5
      <4>3. g[m + 1] = f[m + 1] /\ g[m] = f[m]
        BY <4>1, <2>4
      <4> QED BY <4>2, <4>3
    <3> QED BY <3>1, <3>2
  <2>10. g \in Upto(l)
    BY <2>7, <2>8, <2>9
  <2> QED BY <2>1, <2>10
<1> DEFINE At(n) == CHOOSE f \in Upto(n) : TRUE
           h == [n \in Nat |-> At(n)[n]]
<1>3. ASSUME NEW n \in Nat PROVE At(n) \in Upto(n)
  BY <1>2
<1> HIDE DEF At
<1>4. h \in [Nat -> D]
  <2>1. ASSUME NEW n \in Nat PROVE At(n)[n] \in D
    BY <1>3
  <2> QED BY <2>1
<1>5. h[0] = a
  BY <1>3
<1>6. ASSUME NEW n \in Nat PROVE h[n + 1] = step[<<n, h[n]>>]
  <2>1. At(n + 1) \in Upto(n + 1) /\ At(n) \in Upto(n)
    BY <1>3
  <2>2. At(n + 1)[n + 1] = step[<<n, At(n + 1)[n]>>]
    BY <2>1
  <2>3. At(n + 1)[n] = At(n)[n]
    <3>1. n + 1 \in Nat /\ n \in 0 .. n + 1 /\ n <= n
      OBVIOUS
    <3> HIDE DEF Upto
    <3> QED BY <1>1, <2>1, <3>1
  <2> QED BY <2>2, <2>3
<1> QED BY <1>4, <1>5, <1>6 DEF Recurs

\* A statement about numbers that holds of the first, and of the one behind each.
LEMMA Induction ==
  ASSUME NEW first \in Nat, NEW last \in Nat, NEW Holds, first \in Holds,
         \A n \in first .. last : n \in Holds /\ n < last => n + 1 \in Holds
  PROVE  \A n \in first .. last : n \in Holds
<1> DEFINE S == {n \in first .. last : n \notin Holds}
<1> SUFFICES ASSUME S # {} PROVE FALSE
  OBVIOUS
<1>1. S \subseteq Nat
  OBVIOUS
<1>2. PICK n \in S : \A m \in S : n <= m
  <2> HIDE DEF S
  <2> QED BY <1>1, LeastNumber
<1>3. n - 1 \in first .. last /\ n - 1 < last /\ n - 1 \notin S
  BY <1>2
<1>4. n - 1 \in Holds
  BY <1>3
<1>5. (n - 1) + 1 \in Holds
  BY <1>3, <1>4
<1> QED BY <1>2, <1>5

\* What \o does, index by index.
LEMMA Joined ==
  ASSUME NEW T, NEW x \in Seq(T), NEW y \in Seq(T), NEW z, z = x \o y
  PROVE  /\ z \in Seq(T) /\ Len(z) = Len(x) + Len(y)
         /\ \A j \in 1 .. Len(x) : j \in 1 .. Len(z) /\ z[j] = x[j]
         /\ \A j \in 1 .. Len(y) : Len(x) + j \in 1 .. Len(z) /\ z[Len(x) + j] = y[j]
OBVIOUS

\* f[i] is made of the first i of s, each behind the one before.
Grows(f, s, N, start) ==
  /\ f[1] = s[1] /\ \A i \in 2 .. N : f[i] = f[i - 1] \o s[i]
  /\ start[1] = 0 /\ \A i \in 1 .. N : start[i + 1] = Len(f[i])

\* The sequence flat holds each s[i] behind its start.
Holding(flat, s, N, start, T) ==
  /\ flat \in Seq(T)
  /\ \A i \in 1 .. N : start[i + 1] \in Nat
  /\ \A i \in 1 .. N : start[i + 1] = start[i] + Len(s[i])
  /\ \A i \in 1 .. N : \A j \in 1 .. Len(s[i]) : flat[start[i] + j] = s[i][j]

\* Sequences that grow by one after the other keep what they held.
LEMMA Growing ==
  ASSUME NEW T, NEW N \in Nat \ {0}, NEW s, \A i \in 1 .. N : s[i] \in Seq(T),
         NEW f, NEW start, Grows(f, s, N, start)
  PROVE  Holding(f[N], s, N, start, T)
<1> SUFFICES
         ASSUME f[1] = s[1], \A i \in 2 .. N : f[i] = f[i - 1] \o s[i],
                start[1] = 0, \A i \in 1 .. N : start[i + 1] = Len(f[i])
         PROVE  Holding(f[N], s, N, start, T)
  BY DEF Grows
<1> DEFINE Placed(i) == /\ f[i] \in Seq(T)
                        /\ \A l \in 1 .. i : \A j \in 1 .. Len(s[l]) :
                             start[l] + j \in 1 .. Len(f[i]) /\ f[i][start[l] + j] = s[l][j]
           Holds == {i \in 1 .. N : Placed(i)}
<1>1. start[1] = 0 /\ \A i \in 1 .. N : start[i + 1] = Len(f[i])
  OBVIOUS
<1>2. 1 \in Holds
  BY <1>1
<1>3. ASSUME NEW n \in 1 .. N, n \in Holds, n < N PROVE n + 1 \in Holds
  <2>1. n + 1 \in 2 .. N /\ n + 1 \in 1 .. N /\ n + 1 - 1 = n
    BY <1>3
  <2>2. Placed(n)
    BY <1>3
  <2>3. f[n + 1] = f[n] \o s[n + 1]
    <3> HIDE DEF Placed, Holds
    <3> DEFINE m == n + 1
    <3>1. m \in 2 .. N /\ m - 1 = n
      BY <2>1
    <3> HIDE DEF m
    <3>2. f[m] = f[m - 1] \o s[m]
      BY <3>1
    <3> QED BY <3>1, <3>2 DEF m
  <2> DEFINE x == f[n]
             y == s[n + 1]
             z == f[n + 1]
  <2>4. x \in Seq(T) /\ y \in Seq(T) /\ z = x \o y
    BY <2>1, <2>2, <2>3
  <2>5. start[n + 1] = Len(x)
    BY <1>1
  <2>6. \A l \in 1 .. n : \A j \in 1 .. Len(s[l]) : start[l] + j \in 1 .. Len(x) /\ x[start[l] + j] = s[l][j]
    BY <2>2
  <2>7. /\ z \in Seq(T) /\ Len(z) = Len(x) + Len(y)
        /\ \A j \in 1 .. Len(x) : j \in 1 .. Len(z) /\ z[j] = x[j]
        /\ \A j \in 1 .. Len(y) : Len(x) + j \in 1 .. Len(z) /\ z[Len(x) + j] = y[j]
    <3> HIDE DEF x, y, z
    <3> QED BY <2>4, Joined
  <2>8. ASSUME NEW l \in 1 .. n + 1, NEW j \in 1 .. Len(s[l])
        PROVE  start[l] + j \in 1 .. Len(z) /\ z[start[l] + j] = s[l][j]
    <3>1. CASE l = n + 1
      <4>1. j \in 1 .. Len(y)
        BY <3>1
      <4>2. Len(x) + j \in 1 .. Len(z) /\ z[Len(x) + j] = y[j]
        <5> HIDE DEF x, y, z
        <5> QED BY <4>1, <2>7
      <4> QED BY <4>2, <3>1, <2>5
    <3>2. CASE l # n + 1
      <4>1. l \in 1 .. n
        BY <3>2
      <4> DEFINE at == start[l] + j
      <4>2. at \in 1 .. Len(x) /\ x[at] = s[l][j]
        BY <4>1, <2>6
      <4> HIDE DEF at, x, y, z
      <4>4. at \in 1 .. Len(z) /\ z[at] = x[at]
        BY <4>2, <2>7
      <4> QED BY <4>2, <4>4 DEF at
    <3> QED BY <3>1, <3>2
  <2>9. Placed(n + 1)
    BY <2>7, <2>8
  <2> QED BY <2>1, <2>9
<1>4. \A i \in 1 .. N : i \in Holds
  <2> HIDE DEF Holds
  <2>1. 1 \in Nat /\ N \in Nat
    OBVIOUS
  <2> QED BY <1>2, <1>3, <2>1, Induction
<1>5. \A i \in 1 .. N : Placed(i)
  BY <1>4
<1>6. \A i \in 1 .. N : f[i] \in Seq(T) /\ Len(f[i]) \in Nat
  BY <1>5
<1>7. \A i \in 1 .. N : start[i + 1] \in Nat
  BY <1>1, <1>6
<1>8. ASSUME NEW i \in 1 .. N PROVE start[i + 1] = start[i] + Len(s[i])
  <2>1. CASE i = 1
    BY <2>1, <1>1, <1>6
  <2>2. CASE i # 1
    <3>1. i \in 2 .. N /\ i - 1 \in 1 .. N /\ (i - 1) + 1 = i
      BY <2>2
    <3>2. f[i] = f[i - 1] \o s[i] /\ f[i - 1] \in Seq(T) /\ s[i] \in Seq(T)
      BY <3>1, <1>6
    <3> DEFINE x == f[i - 1]
               y == s[i]
               z == f[i]
    <3>3. Len(z) = Len(x) + Len(y)
      <4>1. x \in Seq(T) /\ y \in Seq(T) /\ z = x \o y
        BY <3>2
      <4> HIDE DEF x, y, z
      <4> QED BY <4>1, Joined
    <3>4. start[i + 1] = Len(f[i]) /\ start[(i - 1) + 1] = Len(f[i - 1])
      BY <3>1, <1>1
    <3> QED BY <3>1, <3>3, <3>4
  <2> QED BY <2>1, <2>2
<1>9. ASSUME NEW i \in 1 .. N, NEW j \in 1 .. Len(s[i]) PROVE f[N][start[i] + j] = s[i][j]
  <2>1. N \in 1 .. N /\ i \in 1 .. N
    OBVIOUS
  <2>2. Placed(N)
    <3> HIDE DEF Placed
    <3> QED BY <2>1, <1>5
  <2> QED BY <2>1, <2>2
<1>10. f[N] \in Seq(T)
  BY <1>1, <1>6
<1> HIDE DEF Placed, Holds
<1> QED BY <1>7, <1>8, <1>9, <1>10 DEF Holding

\* FlattenSeq puts the sequences behind each other.
LEMMA Flattened ==
  ASSUME NEW T, NEW s \in Seq(Seq(T))
  PROVE  /\ FlattenSeq(s) \in Seq(T)
         /\ \E start \in [1 .. Len(s) + 1 -> Nat] :
              /\ start[1] = 0
              /\ \A i \in 1 .. Len(s) : start[i + 1] = start[i] + Len(s[i])
              /\ Len(FlattenSeq(s)) = start[Len(s) + 1]
              /\ \A i \in 1 .. Len(s) : \A j \in 1 .. Len(s[i]) : FlattenSeq(s)[start[i] + j] = s[i][j]
<1>1. CASE Len(s) = 0
  <2>1. FlattenSeq(s) = << >> /\ s = << >>
    BY <1>1 DEF FlattenSeq
  <2> DEFINE start == [i \in 1 .. Len(s) + 1 |-> 0]
  <2>2. start \in [1 .. Len(s) + 1 -> Nat] /\ start[1] = 0 /\ start[Len(s) + 1] = 0
    BY <1>1
  <2>3. \A i \in 1 .. Len(s) : FALSE
    BY <1>1
  <2>4. FlattenSeq(s) \in Seq(T) /\ Len(FlattenSeq(s)) = 0
    BY <2>1
  <2> HIDE DEF start
  <2> QED BY <2>2, <2>3, <2>4
<1>2. CASE Len(s) # 0
  <2> DEFINE N == Len(s)
             Eq(f) == f = [i \in 1 .. N |-> IF i = 1 THEN s[i] ELSE f[i - 1] \o s[i]]
             flat == CHOOSE f : Eq(f)
  <2>1. \E f : Eq(f)
    <3> DEFINE step == [p \in Nat \X Seq(T) |-> IF p[1] + 1 \in 1 .. N THEN p[2] \o s[p[1] + 1] ELSE p[2]]
    <3>1. step \in [Nat \X Seq(T) -> Seq(T)]
      OBVIOUS
    <3>2. << >> \in Seq(T)
      OBVIOUS
    <3>3. step \in Steps(Seq(T))
      BY <3>1 DEF Steps
    <3>4. PICK h : Recurs(h, Seq(T), << >>, step)
      <4> HIDE DEF step, N, Eq, flat
      <4> QED BY <3>2, <3>3, Recursion
    <3>40. h \in [Nat -> Seq(T)] /\ h[0] = << >> /\ \A n \in Nat : h[n + 1] = step[<<n, h[n]>>]
      BY <3>4 DEF Recurs
    <3>5. ASSUME NEW n \in 1 .. N PROVE h[n] = h[n - 1] \o s[n]
      <4>1. n - 1 \in Nat /\ (n - 1) + 1 = n /\ h[n - 1] \in Seq(T)
        BY <3>40
      <4>2. h[n] = step[<<n - 1, h[n - 1]>>]
        BY <3>40, <4>1
      <4>3. step[<<n - 1, h[n - 1]>>] = h[n - 1] \o s[n]
        BY <4>1
      <4> QED BY <4>2, <4>3
    <3>6. 1 \in 1 .. N /\ s[1] \in Seq(T)
      BY <1>2
    <3>7. h[1] = s[1]
      <4>1. h[1] = h[0] \o s[1]
        <5> HIDE DEF N, step
        <5>1. h[1] = h[1 - 1] \o s[1]
          BY <3>5, <3>6
        <5>2. 1 - 1 = 0
          OBVIOUS
        <5> QED BY <5>1, <5>2
      <4> QED BY <4>1, <3>40, <3>6
    <3> DEFINE f == [n \in 1 .. N |-> h[n]]
    <3>8. ASSUME NEW i \in 1 .. N PROVE f[i] = IF i = 1 THEN s[i] ELSE f[i - 1] \o s[i]
      <4>1. CASE i = 1
        BY <4>1, <3>7
      <4>2. CASE i # 1
        <5>1. i - 1 \in 1 .. N
          BY <4>2
        <5>2. f[i] = h[i] /\ f[i - 1] = h[i - 1]
          BY <5>1
        <5> HIDE DEF f
        <5> QED BY <4>2, <5>2, <3>5
      <4> QED BY <4>1, <4>2
    <3>9. f = [i \in 1 .. N |-> f[i]]
      OBVIOUS
    <3> HIDE DEF f
    <3>10. [i \in 1 .. N |-> f[i]] = [i \in 1 .. N |-> IF i = 1 THEN s[i] ELSE f[i - 1] \o s[i]]
      BY <3>8
    <3>11. Eq(f)
      BY <3>9, <3>10
    <3> QED BY <3>11
  <2>2. Eq(flat)
    BY <2>1
  <2>3. FlattenSeq(s) = flat[N]
    BY <1>2 DEF FlattenSeq
  <2>4. N \in Nat \ {0} /\ \A i \in 1 .. N : s[i] \in Seq(T)
    BY <1>2
  <2> HIDE DEF flat
  <2>5. \A i \in 1 .. N : flat[i] = IF i = 1 THEN s[i] ELSE flat[i - 1] \o s[i]
    <3> DEFINE F == [i \in 1 .. N |-> IF i = 1 THEN s[i] ELSE flat[i - 1] \o s[i]]
    <3>1. flat = F
      BY <2>2
    <3>2. \A i \in 1 .. N : F[i] = IF i = 1 THEN s[i] ELSE flat[i - 1] \o s[i]
      OBVIOUS
    <3> HIDE DEF F
    <3> QED BY <3>1, <3>2
  <2>6. flat[1] = s[1] /\ \A i \in 2 .. N : flat[i] = flat[i - 1] \o s[i]
    <3> HIDE DEF N
    <3>1. 1 \in 1 .. N /\ \A i \in 2 .. N : i \in 1 .. N /\ i # 1
      BY <2>4
    <3> QED BY <3>1, <2>5
  <2> DEFINE start == [i \in 1 .. N + 1 |-> IF i = 1 THEN 0 ELSE Len(flat[i - 1])]
  <2>60. start[1] = 0 /\ \A i \in 1 .. N : start[i + 1] = Len(flat[i])
    <3> HIDE DEF N
    <3>1. \A i \in 1 .. N : i + 1 \in 1 .. N + 1 /\ i + 1 # 1 /\ i + 1 - 1 = i
      BY <2>4
    <3>2. 1 \in 1 .. N + 1
      BY <2>4
    <3> QED BY <3>1, <3>2
  <2> HIDE DEF start, Eq, N
  <2>7. /\ flat[N] \in Seq(T)
        /\ \A i \in 1 .. N : start[i + 1] \in Nat
        /\ \A i \in 1 .. N : start[i + 1] = start[i] + Len(s[i])
        /\ \A i \in 1 .. N : \A j \in 1 .. Len(s[i]) : flat[N][start[i] + j] = s[i][j]
    <3>1. Grows(flat, s, N, start)
      BY <2>6, <2>60 DEF Grows
    <3>2. Holding(flat[N], s, N, start, T)
      BY <2>4, <3>1, Growing
    <3> QED BY <3>2 DEF Holding
  <2>8. start \in [1 .. N + 1 -> Nat]
    <3>1. ASSUME NEW i \in 1 .. N + 1 PROVE start[i] \in Nat
      <4>1. CASE i = 1
        BY <4>1, <2>60
      <4>2. CASE i # 1
        <5> DEFINE m == i - 1
        <5>1. m \in 1 .. N /\ m + 1 = i
          BY <4>2, <2>4
        <5> HIDE DEF m
        <5>2. start[m + 1] \in Nat
          BY <5>1, <2>7
        <5> QED BY <5>1, <5>2
      <4> QED BY <4>1, <4>2
    <3> QED BY <3>1 DEF start
  <2>9. start[N + 1] = Len(flat[N])
    BY <2>4, <2>60
  <2> QED BY <2>3, <2>7, <2>8, <2>9, <2>60 DEF N
<1> QED BY <1>1, <1>2

-----------------------------------------------------------------------------
(* Where the GPUs of a group are. *)

\* The nodes of the placement group.
NumNodes == Len(layout.nodes)

\* The bundles of node n are those behind start[n].
Layers(start) ==
  /\ start \in [1 .. NumNodes + 1 -> Nat]
  /\ start[1] = 0
  /\ Len(Bundles) = start[NumNodes + 1]
  /\ \A n \in 1 .. NumNodes : start[n + 1] = start[n] + layout.nodes[n]
  /\ \A n \in 1 .. NumNodes : \A j \in 1 .. layout.nodes[n] : Bundles[start[n] + j] = n

\* What is assumed of the layout of a job.
LEMMA LayoutFacts ==
  ASSUME layout \in Layouts
  PROVE  /\ FirstPort \in Nat /\ DistPorts \in Nat \ {0} /\ MaxKills \in Nat
         /\ layout.num_gpus_per_node \in Nat \ {0} /\ layout.actor_gpus \in Nat
         /\ layout.nodes \in Seq(0 .. layout.num_gpus_per_node)
         /\ layout.busy \subseteq Nat /\ IsFiniteSet(layout.busy)
         /\ NumNodes \in Nat /\ RolloutOffset \in Nat
         /\ \A n \in 1 .. NumNodes : layout.nodes[n] \in Nat /\ layout.nodes[n] <= layout.num_gpus_per_node
<1>1. layout.nodes \in Seq(0 .. layout.num_gpus_per_node) /\ layout.num_gpus_per_node \in Nat \ {0}
  BY LayoutAssumption
<1>2. \A n \in 1 .. NumNodes : layout.nodes[n] \in 0 .. layout.num_gpus_per_node
  BY <1>1 DEF NumNodes
<1>3. NumNodes \in Nat
  BY <1>1 DEF NumNodes
<1>4. RolloutOffset \in Nat
  BY LayoutAssumption DEF RolloutOffset
<1>5. \A n \in 1 .. NumNodes : layout.nodes[n] \in Nat /\ layout.nodes[n] <= layout.num_gpus_per_node
  BY <1>1, <1>2
<1>6. FirstPort \in Nat /\ DistPorts \in Nat \ {0} /\ MaxKills \in Nat
  BY LayoutAssumption
<1>7. layout.actor_gpus \in Nat /\ layout.busy \subseteq Nat /\ IsFiniteSet(layout.busy)
  BY LayoutAssumption
<1> QED BY <1>1, <1>3, <1>4, <1>5, <1>6, <1>7

\* The bundles are those of each node behind the ones of the node before.
LEMMA LayersExist ==
  ASSUME layout \in Layouts
  PROVE  Bundles \in Seq(Nat) /\ \E start : Layers(start)
<1> DEFINE s == [n \in DOMAIN layout.nodes |-> [b \in 1 .. layout.nodes[n] |-> n]]
<1>1. layout.nodes \in Seq(Nat) /\ DOMAIN layout.nodes = 1 .. NumNodes /\ NumNodes \in Nat
      /\ \A n \in 1 .. NumNodes : layout.nodes[n] \in Nat
  BY LayoutFacts DEF NumNodes
<1>2. ASSUME NEW n \in 1 .. NumNodes
      PROVE  s[n] \in Seq(Nat) /\ Len(s[n]) = layout.nodes[n] /\ \A j \in 1 .. layout.nodes[n] : s[n][j] = n
  <2>1. s[n] = [b \in 1 .. layout.nodes[n] |-> n] /\ layout.nodes[n] \in Nat
    BY <1>1
  <2> DEFINE k == layout.nodes[n]
             t == s[n]
  <2>2. t = [b \in 1 .. k |-> n] /\ k \in Nat /\ n \in Nat
    BY <2>1, <1>1
  <2> HIDE DEF k, t
  <2>3. t \in Seq(Nat) /\ Len(t) = k /\ \A j \in 1 .. k : t[j] = n
    BY <2>2
  <2> QED BY <2>3 DEF k, t
<1>3. s \in Seq(Seq(Nat)) /\ Len(s) = NumNodes
  <2>1. s = [n \in 1 .. NumNodes |-> [b \in 1 .. layout.nodes[n] |-> n]]
    BY <1>1
  <2>2. s \in [1 .. NumNodes -> Seq(Nat)]
    BY <2>1, <1>1, <1>2
  <2> DEFINE T == Seq(Nat)
             n == NumNodes
  <2>3. s \in [1 .. n -> T] /\ n \in Nat
    BY <2>2, <1>1
  <2> HIDE DEF s, T, n
  <2>4. s \in Seq(T) /\ Len(s) = n
    BY <2>3
  <2> QED BY <2>4 DEF T, n
<1>4. Bundles = FlattenSeq(s)
  BY DEF Bundles
<1> HIDE DEF s
<1>5. /\ Bundles \in Seq(Nat)
      /\ \E start \in [1 .. Len(s) + 1 -> Nat] :
           /\ start[1] = 0
           /\ \A i \in 1 .. Len(s) : start[i + 1] = start[i] + Len(s[i])
           /\ Len(Bundles) = start[Len(s) + 1]
           /\ \A i \in 1 .. Len(s) : \A j \in 1 .. Len(s[i]) : Bundles[start[i] + j] = s[i][j]
  BY <1>3, <1>4, Flattened, ZenonT(60)
<1>6. PICK start \in [1 .. NumNodes + 1 -> Nat] :
           /\ start[1] = 0
           /\ \A i \in 1 .. NumNodes : start[i + 1] = start[i] + Len(s[i])
           /\ Len(Bundles) = start[NumNodes + 1]
           /\ \A i \in 1 .. NumNodes : \A j \in 1 .. Len(s[i]) : Bundles[start[i] + j] = s[i][j]
  BY <1>3, <1>5
<1>7. Layers(start)
  <2>1. \A n \in 1 .. NumNodes : start[n + 1] = start[n] + layout.nodes[n]
    BY <1>2, <1>6
  <2>2. \A n \in 1 .. NumNodes : \A j \in 1 .. layout.nodes[n] : Bundles[start[n] + j] = n
    BY <1>2, <1>6, ZenonT(60)
  <2> QED BY <1>6, <2>1, <2>2 DEF Layers
<1> QED BY <1>5, <1>7

\* A later node starts behind an earlier one.
LEMMA LayersAscend ==
  ASSUME layout \in Layouts, NEW start, Layers(start), NEW n \in 1 .. NumNodes + 1, NEW m \in n .. NumNodes + 1
  PROVE  start[n] <= start[m]
<1> DEFINE Holds == {i \in n .. NumNodes + 1 : start[n] <= start[i]}
<1>1. NumNodes \in Nat /\ start \in [1 .. NumNodes + 1 -> Nat]
  BY LayoutFacts DEF Layers
<1>2. n \in Holds
  BY <1>1
<1>3. ASSUME NEW i \in n .. NumNodes + 1, i \in Holds, i < NumNodes + 1 PROVE i + 1 \in Holds
  <2>1. i \in 1 .. NumNodes /\ i + 1 \in n .. NumNodes + 1
    BY <1>1, <1>3
  <2>2. start[i + 1] = start[i] + layout.nodes[i] /\ layout.nodes[i] \in Nat
    BY <2>1, LayoutFacts DEF Layers
  <2> QED BY <1>1, <1>3, <2>1, <2>2
<1>4. \A i \in n .. NumNodes + 1 : i \in Holds
  <2> HIDE DEF Holds
  <2>1. n \in Nat /\ NumNodes + 1 \in Nat
    BY <1>1
  <2> QED BY <1>2, <1>3, <2>1, Induction
<1> QED BY <1>4

\* Each bundle is on a node, between its start and that of the next.
LEMMA OnNode ==
  ASSUME layout \in Layouts, NEW start, Layers(start), NEW p \in 1 .. Len(Bundles)
  PROVE  /\ Bundles[p] \in 1 .. NumNodes
         /\ start[Bundles[p]] < p /\ p <= start[Bundles[p] + 1]
<1> DEFINE S == {n \in 1 .. NumNodes + 1 : p <= start[n]}
<1>1. NumNodes \in Nat /\ start \in [1 .. NumNodes + 1 -> Nat] /\ start[1] = 0 /\ p \in Nat \ {0}
  BY LayoutFacts, LayersExist, SMTT(30) DEF Layers
<1>2. NumNodes + 1 \in S
  BY <1>1, LayersExist DEF Layers
<1>3. S \subseteq Nat /\ S # {}
  BY <1>1, <1>2
<1>4. PICK n \in S : \A m \in S : n <= m
  <2> HIDE DEF S
  <2> QED BY <1>3, LeastNumber
<1>5. n # 1 /\ n \in 1 .. NumNodes + 1 /\ p <= start[n]
  BY <1>1, <1>4
<1> DEFINE k == n - 1
<1>6. k \in 1 .. NumNodes /\ k + 1 = n /\ k < n
  BY <1>1, <1>5
<1>7. ~(p <= start[k])
  BY <1>1, <1>4, <1>6
<1> HIDE DEF k
<1>8. start[k] < p /\ p <= start[k + 1]
  <2>1. start[k] \in Nat /\ start[k + 1] \in Nat
    BY <1>1, <1>5, <1>6
  <2> QED BY <2>1, <1>1, <1>5, <1>6, <1>7
<1>9. Bundles[p] = k
  <2> DEFINE j == p - start[k]
  <2>1. start[k + 1] = start[k] + layout.nodes[k] /\ layout.nodes[k] \in Nat /\ start[k] \in Nat
    BY <1>1, <1>6, LayoutFacts DEF Layers
  <2>2. j \in 1 .. layout.nodes[k] /\ start[k] + j = p
    BY <1>1, <1>8, <2>1
  <2> HIDE DEF j
  <2>3. Bundles[start[k] + j] = k
    BY <1>6, <2>2 DEF Layers
  <2> QED BY <2>2, <2>3
<1> QED BY <1>6, <1>8, <1>9

\* In an aligned group whose engines fit in the placement group, the nodes follow each
\* other, each with as many GPUs as args.num_gpus_per_node.
LEMMA AlignedNodes ==
  ASSUME layout \in Layouts, NEW g, g.gpu_offset \in Nat, NEW count \in Nat \ {0},
         count = NumEngines(g) * LocalGpus(g), RolloutOffset + g.gpu_offset + count <= Len(Bundles),
         Aligned(g), NEW a \in 0 .. count - 1
  PROVE  /\ NodeOfGpu(g.gpu_offset) \in Nat
         /\ NodeOfGpu(g.gpu_offset + a) = NodeOfGpu(g.gpu_offset) + (a \div layout.num_gpus_per_node)
<1> DEFINE N == layout.num_gpus_per_node
           F == RolloutOffset + g.gpu_offset
           n0 == Bundles[F + 1]
           nl == Bundles[F + count]
           n == Bundles[F + a + 1]
<1>1. PICK start : Layers(start)
  BY LayersExist
<1>2. /\ N \in Nat \ {0} /\ F \in Nat /\ NumNodes \in Nat
      /\ start \in [1 .. NumNodes + 1 -> Nat] /\ Len(Bundles) \in Nat
      /\ F + count <= Len(Bundles)
  <2>1. N \in Nat \ {0} /\ RolloutOffset \in Nat /\ NumNodes \in Nat
    BY LayoutFacts
  <2>2. start \in [1 .. NumNodes + 1 -> Nat]
    BY <1>1 DEF Layers
  <2>3. Len(Bundles) \in Nat
    BY LayersExist
  <2> QED BY <2>1, <2>2, <2>3, SMTT(30)
<1>3. ASSUME NEW i \in 1 .. NumNodes
      PROVE  start[i + 1] <= start[i] + N /\ start[i + 1] = start[i] + layout.nodes[i]
  <2>1. start[i + 1] = start[i] + layout.nodes[i]
    BY <1>1 DEF Layers
  <2>2. layout.nodes[i] \in Nat /\ layout.nodes[i] <= N
    BY LayoutFacts
  <2>3. start[i] \in Nat
    BY <1>2
  <2> DEFINE x == start[i]
             y == start[i + 1]
             z == layout.nodes[i]
  <2>4. y = x + z /\ z \in Nat /\ z <= N /\ x \in Nat /\ N \in Nat
    BY <2>1, <2>2, <2>3, <1>2
  <2> HIDE DEF x, y, z, N
  <2>5. y <= x + N
    BY <2>4
  <2> QED BY <2>1, <2>5 DEF x, y
<1>4. NodeOfGpu(g.gpu_offset) = n0 /\ NodeOfGpu(g.gpu_offset + a) = n
  <2>1. RolloutOffset + (g.gpu_offset + a) + 1 = F + a + 1
    BY LayoutFacts
  <2> QED BY <2>1 DEF NodeOfGpu
<1>5. NodeOfGpu(g.gpu_offset + NumEngines(g) * LocalGpus(g) - 1) = nl
  <2>1. RolloutOffset + (g.gpu_offset + count - 1) + 1 = F + count
    BY LayoutFacts, SMTT(30)
  <2>2. NodeOfGpu(g.gpu_offset + count - 1) = nl
    BY <2>1 DEF NodeOfGpu
  <2> QED BY <2>2
<1>6. \/ n0 = nl
      \/ FirstOfNode(g.gpu_offset) /\ \A i \in n0 .. nl - 1 : layout.nodes[i] = N
  BY <1>4, <1>5 DEF Aligned
<1>7. FirstOfNode(g.gpu_offset) <=> F = 0 \/ Bundles[F] # n0
  BY <1>4 DEF FirstOfNode
<1>8. F + 1 \in 1 .. Len(Bundles) /\ F + count \in 1 .. Len(Bundles) /\ F + a + 1 \in 1 .. Len(Bundles)
  <2> HIDE DEF F
  <2> DEFINE len == Len(Bundles)
  <2>1. len \in Nat /\ F + count <= len /\ F \in Nat /\ count \in Nat \ {0} /\ a \in 0 .. count - 1
    BY <1>2
  <2> HIDE DEF len
  <2>2. F + 1 \in 1 .. len /\ F + count \in 1 .. len /\ F + a + 1 \in 1 .. len
    BY <2>1
  <2> QED BY <2>2 DEF len
<1> HIDE DEF N, F
<1>9. /\ n0 \in 1 .. NumNodes /\ start[n0] < F + 1 /\ F + 1 <= start[n0 + 1]
      /\ nl \in 1 .. NumNodes /\ start[nl] < F + count /\ F + count <= start[nl + 1]
      /\ n \in 1 .. NumNodes /\ start[n] < F + a + 1 /\ F + a + 1 <= start[n + 1]
  BY <1>1, <1>8, OnNode
<1>10. F = 0 \/ (Bundles[F] \in 1 .. NumNodes /\ start[Bundles[F]] < F /\ F <= start[Bundles[F] + 1])
  <2>1. CASE F # 0
    <3>1. F \in 1 .. Len(Bundles)
      BY <1>2, <1>8, <2>1
    <3> QED BY <1>1, <3>1, OnNode
  <2> QED BY <2>1
<1> HIDE DEF n0, nl, n
<1>11. \A i \in 1 .. NumNodes + 1 : \A k \in i .. NumNodes + 1 : start[i] <= start[k]
  BY <1>1, LayersAscend
<1>12. ASSUME NEW i \in 1 .. NumNodes, NEW k \in 1 .. NumNodes, i < k PROVE start[i + 1] <= start[k]
  <2>1. i + 1 \in 1 .. NumNodes + 1 /\ k \in i + 1 .. NumNodes + 1
    BY <1>2, <1>12
  <2> QED BY <2>1, <1>11
<1>13. /\ start[n0] \in Nat /\ start[n] \in Nat /\ start[nl] \in Nat
       /\ start[n0 + 1] \in Nat /\ start[n + 1] \in Nat /\ start[nl + 1] \in Nat
  BY <1>2, <1>9
<1> DEFINE from0 == start[n0]
           to0 == start[n0 + 1]
           from == start[n]
           to == start[n + 1]
           froml == start[nl]
           tol == start[nl + 1]
<1>20. /\ from0 \in Nat /\ to0 \in Nat /\ from \in Nat /\ to \in Nat /\ froml \in Nat /\ tol \in Nat
       /\ F \in Nat /\ n0 \in Nat /\ n \in Nat /\ nl \in Nat /\ N \in Nat \ {0}
       /\ count \in Nat \ {0} /\ a \in 0 .. count - 1
       /\ from0 < F + 1 /\ F + 1 <= to0 /\ froml < F + count /\ F + count <= tol
       /\ from < F + a + 1 /\ F + a + 1 <= to /\ to0 <= from0 + N /\ to <= from + N
  BY <1>2, <1>3, <1>9, <1>13, SMTT(30)
<1> HIDE DEF from0, to0, from, to, froml, tol
<1>14. n \in n0 .. nl
  <2>1. ~(n < n0)
    <3> SUFFICES ASSUME n < n0 PROVE FALSE
      OBVIOUS
    <3>1. to <= from0
      BY <1>9, <1>12 DEF to, from0
    <3> QED BY <3>1, <1>20
  <2>2. ~(nl < n)
    <3> SUFFICES ASSUME nl < n PROVE FALSE
      OBVIOUS
    <3>1. tol <= from
      BY <1>9, <1>12 DEF tol, from
    <3> QED BY <3>1, <1>20
  <2> QED BY <2>1, <2>2, <1>2, <1>9
<1>15. CASE n0 = nl
  <2>1. n = n0
    BY <1>14, <1>15, <1>9
  <2>2. a < N
    <3>1. from = from0 /\ to = to0
      BY <2>1 DEF from, from0, to, to0
    <3> QED BY <3>1, <1>20
  <2>3. a \div N = 0
    BY <2>2, <1>2, SMTT(30)
  <2> QED BY <2>1, <2>3, <1>4, <1>9 DEF N
<1>16. CASE FirstOfNode(g.gpu_offset) /\ \A i \in n0 .. nl - 1 : layout.nodes[i] = N
  <2>1. start[n0] = F
    <3>1. F = 0 \/ Bundles[F] # n0
      BY <1>7, <1>16
    <3>2. CASE F = 0
      BY <3>2, <1>9, <1>13, SMTT(30)
    <3>3. CASE F # 0 /\ Bundles[F] # n0
      <4> DEFINE m == Bundles[F]
      <4>1. m \in 1 .. NumNodes /\ start[m] < F /\ F <= start[m + 1] /\ m # n0
        BY <1>10, <3>3
      <4> HIDE DEF m
      <4>2. start[m] \in Nat /\ start[m + 1] \in Nat
        BY <4>1, <1>2
      <4>3. CASE m < n0
        <5>1. start[m + 1] <= from0
          BY <4>1, <4>3, <1>9, <1>12 DEF from0
        <5> DEFINE k == start[m + 1]
        <5>2. k \in Nat /\ F <= k /\ k <= from0
          BY <5>1, <4>1, <4>2
        <5> HIDE DEF k
        <5>3. from0 = F
          BY <5>2, <1>20
        <5> QED BY <5>3 DEF from0
      <4>4. CASE n0 < m
        <5>1. to0 <= start[m]
          BY <4>1, <4>4, <1>9, <1>12 DEF to0
        <5> DEFINE k == start[m]
        <5>2. k \in Nat /\ k < F /\ to0 <= k
          BY <5>1, <4>1, <4>2
        <5> HIDE DEF k
        <5> QED BY <5>2, <1>20
      <4> QED BY <4>1, <4>3, <4>4, <1>2, <1>9
    <3> QED BY <3>1, <3>2, <3>3
  <2> DEFINE at(i) == F + (i - n0) * N
             Holds == {i \in n0 .. nl : start[i] = at(i)}
  <2>2. n0 \in Holds
    <3>1. (n0 - n0) * N = 0 /\ n0 \in n0 .. nl
      BY <1>2, <1>9, <1>14
    <3> QED BY <3>1, <2>1, <1>2
  <2>3. ASSUME NEW i \in n0 .. nl, i \in Holds, i < nl PROVE i + 1 \in Holds
    <3>1. i \in n0 .. nl - 1 /\ i \in 1 .. NumNodes /\ i + 1 \in n0 .. nl
      BY <2>3, <1>2, <1>9
    <3>2. start[i + 1] = start[i] + N
      BY <3>1, <1>3, <1>16
    <3>3. start[i] = F + (i - n0) * N
      BY <2>3
    <3>4. ((i + 1) - n0) * N = (i - n0) * N + N
      BY <3>1, <1>2, <1>9
    <3>5. (i - n0) * N \in Int
      BY <3>1, <1>2, <1>9
    <3>6. start[i + 1] = F + ((i + 1) - n0) * N
      BY <3>2, <3>3, <3>4, <3>5, <1>2
    <3>7. start[i + 1] = at(i + 1)
      BY <3>6
    <3> HIDE DEF at
    <3> QED BY <3>1, <3>7
  <2>4. \A i \in n0 .. nl : i \in Holds
    <3> HIDE DEF Holds
    <3>1. n0 \in Nat /\ nl \in Nat
      BY <1>2, <1>9
    <3> QED BY <2>2, <2>3, <3>1, Induction
  <2>5. start[n] = F + (n - n0) * N
    BY <2>4, <1>14
  <2> DEFINE d == n - n0
             e == d * N
  <2>7. d \in Nat /\ e \in Nat
    BY <1>2, <1>9, <1>14
  <2>8. e <= a /\ a < e + N
    <3>1. from = F + e
      BY <2>5 DEF from
    <3> HIDE DEF e, d
    <3> QED BY <3>1, <2>7, <1>20
  <2>9. a \div N = d
    <3>1. d * N <= a /\ a < d * N + N /\ d \in Nat
      BY <2>7, <2>8
    <3> HIDE DEF d, e
    <3> QED BY <3>1, <1>2, SMTT(30)
  <2>10. n = n0 + d
    BY <1>2, <1>9
  <2> HIDE DEF d
  <2> QED BY <2>9, <2>10, <1>4, <1>9 DEF N
<1> QED BY <1>6, <1>15, <1>16

-----------------------------------------------------------------------------
(* The sizes of a group. *)

\* The least and the greatest of two.
LEMMA OfTwo ==
  ASSUME NEW x \in Nat, NEW y \in Nat
  PROVE  /\ Min({x, y}) = IF x <= y THEN x ELSE y
         /\ Max({x, y}) = IF x <= y THEN y ELSE x
<1>1. Min({x, y}) = IF x <= y THEN x ELSE y
  <2> DEFINE m == IF x <= y THEN x ELSE y
             P(z) == z \in {x, y} /\ \A w \in {x, y} : z <= w
  <2>1. P(m)
    OBVIOUS
  <2>2. \A z : P(z) => z = m
    BY <2>1
  <2>3. Min({x, y}) = CHOOSE z \in {x, y} : \A w \in {x, y} : z <= w
    BY DEF Min
  <2>4. m \in {x, y} /\ \A w \in {x, y} : m <= w
    BY <2>1
  <2>5. \A z \in {x, y} : (\A w \in {x, y} : z <= w) => z = m
    BY <2>2
  <2> HIDE DEF m, P
  <2> QED BY <2>3, <2>4, <2>5 DEF m
<1>2. Max({x, y}) = IF x <= y THEN y ELSE x
  <2> DEFINE m == IF x <= y THEN y ELSE x
  <2>3. Max({x, y}) = CHOOSE z \in {x, y} : \A w \in {x, y} : z >= w
    BY DEF Max
  <2>4. m \in {x, y} /\ \A w \in {x, y} : m >= w
    OBVIOUS
  <2>5. \A z \in {x, y} : (\A w \in {x, y} : z >= w) => z = m
    BY <2>4
  <2> HIDE DEF m
  <2> QED BY <2>3, <2>4, <2>5 DEF m
<1> QED BY <1>1, <1>2

\* A number of whole nodes and a part of the next.
LEMMA Quotient ==
  ASSUME NEW n \in Nat \ {0}, NEW q \in Nat, NEW r \in 0 .. n - 1
  PROVE  (q * n + r) \div n = q
<1> DEFINE x == q * n
           y == x + r
           d == y \div n
<1>1. x \in Nat /\ y \in Nat /\ d \in Nat
  OBVIOUS
<1>2. n * d <= y /\ y < n * d + n
  <2>1. y = n * d + (y % n) /\ y % n \in 0 .. n - 1
    BY <1>1
  <2> DEFINE e == n * d
             m == y % n
  <2>2. e \in Int /\ m \in 0 .. n - 1 /\ y = e + m
    BY <1>1, <2>1
  <2> HIDE DEF e, m, y, d
  <2> QED BY <2>2 DEF e
<1> HIDE DEF d
<1>3. ~(d < q)
  <2> SUFFICES ASSUME d < q PROVE FALSE
    OBVIOUS
  <2>1. n * (d + 1) <= n * q
    BY <1>1
  <2> QED BY <2>1, <1>1, <1>2
<1>4. ~(q < d)
  <2> SUFFICES ASSUME q < d PROVE FALSE
    OBVIOUS
  <2>1. n * (q + 1) <= n * d
    BY <1>1
  <2> QED BY <2>1, <1>1, <1>2
<1> QED BY <1>1, <1>3, <1>4 DEF d, y, x

\* A divisor, and how often it goes.
LEMMA Divides ==
  ASSUME NEW n \in Nat \ {0}, NEW d \in Nat \ {0}, n % d = 0
  PROVE  n \div d \in Nat \ {0} /\ n = (n \div d) * d /\ d <= n
<1>1. n = d * (n \div d) + (n % d) /\ n \div d \in Nat
  OBVIOUS
<1> DEFINE q == n \div d
<1>2. q \in Nat /\ n = d * q
  BY <1>1
<1> HIDE DEF q
<1>3. q # 0
  BY <1>2
<1>4. d * q >= d
  BY <1>2, <1>3
<1>5. d * q = q * d
  BY <1>2
<1> QED BY <1>2, <1>3, <1>4, <1>5 DEF q

\* What is a group of the sglang config.
Sized(c) ==
  /\ c.num_gpus \in Nat \ {0} /\ c.num_gpus_per_engine \in Nat \ {0}
  /\ \/ layout.num_gpus_per_node % c.num_gpus_per_engine = 0
     \/ c.num_gpus_per_engine % layout.num_gpus_per_node = 0

\* The engines of a group fit in it, each node of an engine has the same number of its
\* GPUs, and those are on one node when nodes are whole.
LEMMA GroupArith ==
  ASSUME layout \in Layouts, NEW g, Sized(g)
  PROVE  /\ LocalGpus(g) \in Nat \ {0} /\ NodesPerEngine(g) \in Nat \ {0} /\ NumEngines(g) \in Nat
         /\ NumEngines(g) * LocalGpus(g) <= g.num_gpus
         /\ NodesPerEngine(g) * LocalGpus(g) = g.num_gpus_per_engine
         /\ EnginesPerNode(g) \in Nat \ {0} /\ (EnginesPerNode(g) = 1 \/ NodesPerEngine(g) = 1)
         /\ \A i \in Nat : \A r \in 0 .. LocalGpus(g) - 1 :
              (i * LocalGpus(g) + r) \div layout.num_gpus_per_node = i \div EnginesPerNode(g)
<1> DEFINE N == layout.num_gpus_per_node
           pe == g.num_gpus_per_engine
           L == LocalGpus(g)
           P == NodesPerEngine(g)
           E == EnginesPerNode(g)
<1>1. N \in Nat \ {0} /\ pe \in Nat \ {0} /\ g.num_gpus \in Nat \ {0} /\ (N % pe = 0 \/ pe % N = 0)
  BY LayoutFacts DEF Sized
<1>2. L = IF pe <= N THEN pe ELSE N
  BY <1>1, OfTwo DEF LocalGpus
<1>3. P = IF 1 <= pe \div N THEN pe \div N ELSE 1
  <2>1. pe \div N \in Nat
    BY <1>1
  <2>2. P = Max({1, pe \div N})
    BY DEF NodesPerEngine
  <2> DEFINE d == pe \div N
  <2> HIDE DEF d
  <2>3. Max({1, d}) = IF 1 <= d THEN d ELSE 1
    BY <2>1, OfTwo DEF d
  <2> QED BY <2>2, <2>3 DEF d
<1>30. E = IF 1 <= N \div pe THEN N \div pe ELSE 1
  <2>1. N \div pe \in Nat
    BY <1>1
  <2>2. E = Max({1, N \div pe})
    BY DEF EnginesPerNode
  <2> DEFINE d == N \div pe
  <2> HIDE DEF d
  <2>3. Max({1, d}) = IF 1 <= d THEN d ELSE 1
    BY <2>1, OfTwo DEF d
  <2> QED BY <2>2, <2>3 DEF d
<1>4. L \in Nat \ {0}
  BY <1>1, <1>2
<1>5. NumEngines(g) \in Nat /\ NumEngines(g) * L <= g.num_gpus
  <2> DEFINE n == g.num_gpus
             q == n \div L
  <2>0. n \in Nat /\ L \in Nat \ {0}
    BY <1>1, <1>4
  <2>1. n = L * q + (n % L) /\ n % L \in 0 .. L - 1 /\ q \in Nat /\ n \in Nat
    <3> HIDE DEF n, L
    <3> QED BY <2>0
  <2>2. NumEngines(g) = q
    BY DEF NumEngines
  <2> DEFINE m == n % L
  <2> HIDE DEF n, q, L, m
  <2>3. m \in Nat /\ n = L * q + m /\ L * q \in Nat /\ q * L = L * q
    BY <2>1, <1>4 DEF m
  <2>4. q * L <= n
    <3> DEFINE e == L * q
    <3>1. e \in Nat /\ n = e + m /\ q * L = e /\ m \in Nat
      BY <2>3
    <3> HIDE DEF e
    <3>2. e <= n
      BY <3>1
    <3> QED BY <3>1, <3>2
  <2> QED BY <2>1, <2>2, <2>4 DEF n
<1> HIDE DEF N, pe, L, P, E
<1>6. CASE pe % N = 0
  <2>1. pe \div N \in Nat \ {0} /\ pe = (pe \div N) * N /\ N <= pe
    BY <1>1, <1>6, Divides
  <2>2. L = N
    BY <1>1, <1>2, <2>1
  <2>3. P = pe \div N
    <3> DEFINE d == pe \div N
    <3> HIDE DEF d
    <3>1. d \in Nat \ {0}
      BY <2>1 DEF d
    <3>2. P = IF 1 <= d THEN d ELSE 1
      BY <1>3 DEF d
    <3>3. P = d
      BY <3>1, <3>2
    <3> QED BY <3>3 DEF d
  <2>4. P \in Nat \ {0} /\ P * L = pe
    BY <2>1, <2>2, <2>3
  <2>6. E = 1
    <3>1. CASE pe = N
      <4>1. N \div pe = 1
        BY <3>1, <1>1
      <4> QED BY <4>1, <1>30
    <3>2. CASE N < pe
      <4>1. N \div pe = 0
        BY <3>2, <1>1
      <4> QED BY <4>1, <1>30
    <3> QED BY <3>1, <3>2, <2>1, <1>1
  <2>5. ASSUME NEW i \in Nat, NEW r \in 0 .. L - 1 PROVE (i * L + r) \div N = i \div E
    <3>1. r \in 0 .. N - 1
      BY <1>1, <2>2
    <3>2. (i * N + r) \div N = i
      BY <3>1, <1>1, Quotient
    <3>3. i \div 1 = i
      OBVIOUS
    <3> QED BY <3>2, <3>3, <2>2, <2>6
  <2> QED BY <2>4, <2>5, <2>6, <1>4, <1>5 DEF L, P, N, pe, E
<1>7. CASE N % pe = 0
  <2>0. N \div pe \in Nat \ {0} /\ N = (N \div pe) * pe /\ pe <= N
    BY <1>1, <1>7, Divides
  <2>01. E = N \div pe
    <3> DEFINE d == N \div pe
    <3> HIDE DEF d
    <3>1. d \in Nat \ {0}
      BY <2>0 DEF d
    <3>2. E = IF 1 <= d THEN d ELSE 1
      BY <1>30 DEF d
    <3>3. E = d
      BY <3>1, <3>2
    <3> QED BY <3>3 DEF d
  <2>1. E \in Nat \ {0} /\ N = E * pe /\ pe <= N
    BY <2>0, <2>01
  <2>2. L = pe
    BY <1>1, <1>2, <2>1
  <2>3. P = 1
    <3>1. CASE pe = N
      <4>1. pe \div N = 1
        BY <3>1, <1>1
      <4> QED BY <4>1, <1>3
    <3>2. CASE pe < N
      <4>1. pe \div N = 0
        BY <3>2, <1>1
      <4> QED BY <4>1, <1>3
    <3> QED BY <3>1, <3>2, <2>1, <1>1
  <2>4. P \in Nat \ {0} /\ P * L = pe
    BY <2>2, <2>3, <1>1
  <2>5. ASSUME NEW i \in Nat, NEW r \in 0 .. L - 1 PROVE (i * L + r) \div N = i \div E
    <3> DEFINE q == i \div E
               m == i % E
               s == m * pe + r
    <3>1. q \in Nat /\ m \in 0 .. E - 1 /\ i = E * q + m
      BY <2>1
    <3> HIDE DEF q, m
    <3>2. m * pe \in Nat /\ m * pe <= (E - 1) * pe
      BY <3>1, <2>1, <1>1
    <3>3. (E - 1) * pe = E * pe - pe
      BY <2>1, <1>1
    <3>4. s \in 0 .. N - 1
      <4> DEFINE x == m * pe
      <4>1. x \in Nat /\ x <= N - pe /\ r \in 0 .. pe - 1 /\ s = x + r /\ N \in Nat /\ pe \in Nat
        BY <3>2, <3>3, <2>1, <2>2, <1>1
      <4> HIDE DEF x, s
      <4> QED BY <4>1
    <3>5. i * L + r = q * N + s
      <4>1. i * pe = (E * q) * pe + m * pe
        BY <3>1, <2>1, <1>1
      <4>2. (E * q) * pe = q * (E * pe)
        BY <3>1, <2>1, <1>1
      <4>3. i * pe = q * N + m * pe
        BY <4>1, <4>2, <2>1
      <4> DEFINE x == i * pe
                 y == q * N
                 z == m * pe
      <4>4. x = y + z /\ x \in Int /\ y \in Int /\ z \in Int /\ r \in Int /\ s = z + r
        BY <4>3, <3>1, <1>1
      <4> HIDE DEF x, y, z, s
      <4>5. x + r = y + s
        BY <4>4
      <4> QED BY <4>5, <2>2 DEF x, y
    <3> HIDE DEF s
    <3>6. (q * N + s) \div N = q
      BY <3>1, <3>4, <1>1, Quotient
    <3> QED BY <3>5, <3>6 DEF q
  <2> QED BY <2>3, <2>4, <2>5, <2>1, <1>4, <1>5 DEF L, P, N, pe, E
<1> QED BY <1>1, <1>6, <1>7

-----------------------------------------------------------------------------
(* The groups that are to be started. *)

\* The groups that a config may ask for, and what the plan holds of them.
Configs == GroupConfigs(layout)
Batch == [model : Nat, groups : Seq(Configs)]

\* Of sequences one of which is not empty, something is left.
LEMMA FlattenedNonEmpty ==
  ASSUME NEW T, NEW s \in Seq(Seq(T)), s # << >>, s[1] # << >>
  PROVE  FlattenSeq(s) # << >>
<1> DEFINE N == Len(s)
<1>1. PICK start \in [1 .. N + 1 -> Nat] :
        /\ start[1] = 0
        /\ \A i \in 1 .. N : start[i + 1] = start[i] + Len(s[i])
        /\ Len(FlattenSeq(s)) = start[N + 1]
  BY Flattened
<1>2. N \in Nat \ {0} /\ \A i \in 1 .. N : Len(s[i]) \in Nat
  OBVIOUS
<1>3. Len(s[1]) > 0
  BY <1>2
<1> HIDE DEF N
<1> DEFINE Holds == {i \in 2 .. N + 1 : start[i] > 0}
<1>4. 2 \in Holds
  <2>1. 1 \in 1 .. N /\ 1 + 1 = 2 /\ 2 \in 2 .. N + 1
    BY <1>2
  <2>2. start[2] = start[1] + Len(s[1])
    BY <1>1, <2>1
  <2> QED BY <2>1, <2>2, <1>1, <1>2, <1>3
<1>5. ASSUME NEW i \in 2 .. N + 1, i \in Holds, i < N + 1 PROVE i + 1 \in Holds
  <2>1. i \in 1 .. N /\ i + 1 \in 2 .. N + 1
    BY <1>2, <1>5
  <2>2. start[i + 1] = start[i] + Len(s[i]) /\ Len(s[i]) \in Nat /\ start[i] \in Nat
    BY <1>1, <1>2, <2>1
  <2> QED BY <1>5, <2>1, <2>2
<1>6. \A i \in 2 .. N + 1 : i \in Holds
  <2> HIDE DEF Holds
  <2>1. 2 \in Nat /\ N + 1 \in Nat
    BY <1>2
  <2> QED BY <1>4, <1>5, <2>1, Induction
<1>7. N + 1 \in Holds
  BY <1>2, <1>6
<1>8. Len(FlattenSeq(s)) > 0
  BY <1>1, <1>7
<1> QED BY <1>8

\* The batches of a model are made of its groups.
LEMMA BatchesType ==
  ASSUME NEW C, NEW cs \in Seq(C)
  PROVE  StartBatches(cs) \in Seq(Seq(C)) \ {<< >>}
<1> DEFINE encoder(j) == cs[j].worker_type = "encoder"
           as == [j \in DOMAIN cs |-> IF encoder(j) THEN << <<cs[j]>> >> ELSE << >>]
           os == [j \in DOMAIN cs |-> IF encoder(j) THEN << >> ELSE <<cs[j]>>]
           alone == FlattenSeq(as)
           others == FlattenSeq(os)
<1>1. DOMAIN cs = 1 .. Len(cs) /\ Len(cs) \in Nat /\ \A j \in DOMAIN cs : cs[j] \in C
  OBVIOUS
<1>2. as \in Seq(Seq(Seq(C)))
  <2>1. ASSUME NEW j \in 1 .. Len(cs) PROVE (IF encoder(j) THEN << <<cs[j]>> >> ELSE << >>) \in Seq(Seq(C))
    <3>1. <<cs[j]>> \in Seq(C)
      BY <1>1
    <3> DEFINE x == <<cs[j]>>
    <3> HIDE DEF x
    <3>2. <<x>> \in Seq(Seq(C)) /\ << >> \in Seq(Seq(C))
      BY <3>1 DEF x
    <3> QED BY <3>2 DEF x
  <2> HIDE DEF encoder
  <2>2. as \in [1 .. Len(cs) -> Seq(Seq(C))]
    BY <1>1, <2>1
  <2> QED BY <1>1, <2>2
<1>3. os \in Seq(Seq(C))
  <2>1. ASSUME NEW j \in 1 .. Len(cs) PROVE (IF encoder(j) THEN << >> ELSE <<cs[j]>>) \in Seq(C)
    BY <1>1
  <2> HIDE DEF encoder
  <2>2. os \in [1 .. Len(cs) -> Seq(C)]
    BY <1>1, <2>1
  <2> QED BY <1>1, <2>2
<1>4. StartBatches(cs) = IF alone = << >> THEN <<cs>> ELSE Append(alone, others)
  BY DEF StartBatches
<1> HIDE DEF as, os
<1>5. alone \in Seq(Seq(C)) /\ others \in Seq(C)
  BY <1>2, <1>3, Flattened
<1> HIDE DEF alone, others
<1>6. <<cs>> \in Seq(Seq(C)) \ {<< >>}
  OBVIOUS
<1>7. Append(alone, others) \in Seq(Seq(C)) \ {<< >>}
  <2> DEFINE D == Seq(C)
  <2>1. alone \in Seq(D) /\ others \in D
    BY <1>5
  <2> HIDE DEF D
  <2>2. Append(alone, others) \in Seq(D) /\ Len(Append(alone, others)) = Len(alone) + 1 /\ Len(alone) \in Nat
    BY <2>1
  <2>3. Append(alone, others) # << >>
    BY <2>2
  <2> QED BY <2>2, <2>3 DEF D
<1> QED BY <1>4, <1>6, <1>7

\* So is the plan, and it is not empty.
LEMMA PlanType ==
  ASSUME layout \in Layouts
  PROVE  Plan(layout.models) \in Seq(Batch) \ {<< >>}
<1> DEFINE ms == layout.models
           s == [m \in DOMAIN ms |->
                  [b \in DOMAIN StartBatches(ms[m].groups) |->
                     [model |-> m, groups |-> StartBatches(ms[m].groups)[b]]]]
<1>1. ms \in Seq([update_weights : BOOLEAN, groups : Seq(Configs)]) \ {<< >>}
  BY LayoutAssumption DEF Configs
<1>2. /\ DOMAIN ms = 1 .. Len(ms) /\ Len(ms) \in Nat \ {0}
      /\ \A m \in DOMAIN ms : ms[m].groups \in Seq(Configs)
  <2> DEFINE M == [update_weights : BOOLEAN, groups : Seq(Configs)]
  <2>1. \A c \in M : c.groups \in Seq(Configs)
    OBVIOUS
  <2>2. ms \in Seq(M) \ {<< >>}
    BY <1>1
  <2> HIDE DEF M, ms
  <2>3. DOMAIN ms = 1 .. Len(ms) /\ Len(ms) \in Nat \ {0} /\ \A m \in DOMAIN ms : ms[m] \in M
    BY <2>2
  <2> QED BY <2>1, <2>3
<1>3. ASSUME NEW m \in 1 .. Len(ms) PROVE s[m] \in Seq(Batch) \ {<< >>}
  <2> DEFINE bs == StartBatches(ms[m].groups)
             t == s[m]
  <2>1. bs \in Seq(Seq(Configs)) \ {<< >>}
    BY <1>2, BatchesType
  <2>2. t = [b \in DOMAIN bs |-> [model |-> m, groups |-> bs[b]]]
    BY <1>2
  <2> HIDE DEF bs, t, s, ms
  <2>3. DOMAIN bs = 1 .. Len(bs) /\ Len(bs) \in Nat \ {0} /\ \A b \in DOMAIN bs : bs[b] \in Seq(Configs)
    BY <2>1
  <2>4. m \in Nat
    BY <1>2
  <2>5. t \in [1 .. Len(bs) -> Batch]
    BY <2>2, <2>3, <2>4 DEF Batch
  <2>6. t \in Seq(Batch) /\ Len(t) = Len(bs)
    BY <2>3, <2>5
  <2> QED BY <2>3, <2>6 DEF t
<1>4. Plan(ms) = FlattenSeq(s)
  BY DEF Plan
<1>5. DOMAIN s = 1 .. Len(ms)
  BY <1>2
<1>50. s = [m \in 1 .. Len(ms) |-> s[m]]
  BY <1>5
<1> HIDE DEF s, ms
<1>6. s \in [1 .. Len(ms) -> Seq(Batch)]
  BY <1>3, <1>50
<1>7. s \in Seq(Seq(Batch)) /\ Len(s) = Len(ms) /\ s # << >>
  BY <1>2, <1>6
<1>8. s[1] # << >>
  BY <1>2, <1>3
<1>9. FlattenSeq(s) \in Seq(Batch) /\ FlattenSeq(s) # << >>
  BY <1>7, <1>8, Flattened, FlattenedNonEmpty
<1> QED BY <1>4, <1>9 DEF ms

-----------------------------------------------------------------------------
(* Where the groups are. *)

\* The type of a group.
Group ==
  [model : Nat, worker_type : WorkerTypes, num_gpus : Nat, num_gpus_per_engine : Nat,
   rank_offset : Nat, gpu_offset : Nat, needs_offload : BOOLEAN]

\* s is a sequence of something.
IsSequence(s) == \E S : s \in Seq(S)

\* The slots of a group: none, or those of its engines, whose GPUs exist.
SlotsFit(g, slots) ==
  /\ IsSequence(slots)
  /\ slots # << >> =>
       /\ Len(slots) = NumEngines(g)
       /\ RolloutOffset + g.gpu_offset + Len(slots) * LocalGpus(g) <= Len(Bundles)

\* The groups follow each other, and each shares GPUs with the training if its first
\* is one of those.
Placed ==
  /\ layout \in Layouts
  /\ plan \in Seq(Batch) /\ (phase = "start" => plan # << >>)
  /\ engine_offset \in Nat /\ gpu_offset \in Nat
  /\ groups \in Seq(Group)
  /\ IsSequence(all_engines) /\ Len(all_engines) = Len(groups)
  /\ \A k \in DOMAIN groups :
       /\ Sized(groups[k])
       /\ groups[k].gpu_offset + groups[k].num_gpus <= gpu_offset
       /\ groups[k].needs_offload =
            (layout.offload_rollout /\ RolloutOffset + groups[k].gpu_offset < layout.actor_gpus)
       /\ SlotsFit(groups[k], all_engines[k])
  /\ \A k1, k2 \in DOMAIN groups : k1 < k2 =>
       groups[k1].gpu_offset + groups[k1].num_gpus <= groups[k2].gpu_offset

\* One element more.
LEMMA AppendSequence ==
  ASSUME NEW s, IsSequence(s), NEW x
  PROVE  /\ IsSequence(Append(s, x)) /\ Len(s) \in Nat /\ Len(Append(s, x)) = Len(s) + 1
         /\ \A i \in 1 .. Len(s) : Append(s, x)[i] = s[i]
         /\ Append(s, x)[Len(s) + 1] = x
<1>1. PICK S : s \in Seq(S)
  BY DEF IsSequence
<1> DEFINE T == S \cup {x}
<1>2. s \in Seq(T) /\ x \in T
  <2>1. DOMAIN s = 1 .. Len(s) /\ Len(s) \in Nat /\ \A i \in 1 .. Len(s) : s[i] \in S
    BY <1>1
  <2>2. s = [i \in 1 .. Len(s) |-> s[i]]
    BY <1>1, <2>1
  <2>3. s \in [1 .. Len(s) -> T]
    BY <2>1, <2>2
  <2> QED BY <2>1, <2>3
<1> HIDE DEF T
<1>3. Append(s, x) \in Seq(T)
  BY <1>2
<1>4. Len(s) \in Nat /\ Len(Append(s, x)) = Len(s) + 1 /\ Append(s, x)[Len(s) + 1] = x
  BY <1>2
<1>5. \A i \in 1 .. Len(s) : Append(s, x)[i] = s[i]
  BY <1>2
<1> QED BY <1>3, <1>4, <1>5 DEF IsSequence

\* A function on the indices of a sequence.
LEMMA FunctionSequence ==
  ASSUME NEW s, IsSequence(s), NEW t, DOMAIN t = DOMAIN s, t = [i \in DOMAIN t |-> t[i]]
  PROVE  IsSequence(t) /\ Len(t) = Len(s) /\ DOMAIN s = 1 .. Len(s) /\ Len(s) \in Nat
<1>1. PICK S : s \in Seq(S)
  BY DEF IsSequence
<1>2. DOMAIN s = 1 .. Len(s) /\ Len(s) \in Nat
  BY <1>1
<1> DEFINE T == {t[i] : i \in DOMAIN t}
<1>3. \A i \in 1 .. Len(s) : t[i] \in T
  BY <1>2
<1> HIDE DEF T
<1>4. t \in [1 .. Len(s) -> T]
  BY <1>2, <1>3
<1>5. t \in Seq(T) /\ Len(t) = Len(s)
  BY <1>2, <1>4
<1> QED BY <1>2, <1>5 DEF IsSequence

\* What PlacementSound says follows from where the groups are.
LEMMA PlacedSound == Placed => PlacementSound
<1> SUFFICES ASSUME Placed PROVE PlacementSound
  OBVIOUS
<1>1. RolloutOffset \in Nat /\ layout \in Layouts
  BY LayoutFacts DEF Placed
<1>2. Len(Bundles) \in Nat
  BY <1>1, LayersExist
<1>3. ASSUME NEW k \in DOMAIN groups
      PROVE  /\ groups[k].gpu_offset \in Nat /\ groups[k].num_gpus \in Nat /\ groups[k].rank_offset \in Nat
             /\ Sized(groups[k])
             /\ groups[k].needs_offload =
                  (layout.offload_rollout /\ RolloutOffset + groups[k].gpu_offset < layout.actor_gpus)
             /\ SlotsFit(groups[k], all_engines[k])
  <2>1. groups[k] \in Group
    BY DEF Placed
  <2> QED BY <2>1 DEF Placed, Group
<1>4. \A k1, k2 \in DOMAIN groups : k1 # k2 => Reserved(k1) \cap Reserved(k2) = {}
  <2>1. ASSUME NEW k1 \in DOMAIN groups, NEW k2 \in DOMAIN groups, k1 < k2
        PROVE  Reserved(k1) \cap Reserved(k2) = {}
    <3>1. groups[k1].gpu_offset + groups[k1].num_gpus <= groups[k2].gpu_offset
      BY <2>1 DEF Placed
    <3> DEFINE a == groups[k1].gpu_offset
               b == groups[k1].num_gpus
               c == groups[k2].gpu_offset
               d == groups[k2].num_gpus
    <3>2. a \in Nat /\ b \in Nat /\ c \in Nat /\ d \in Nat /\ a + b <= c
      BY <3>1, <1>3
    <3>3. Reserved(k1) = a .. a + b - 1 /\ Reserved(k2) = c .. c + d - 1
      BY DEF Reserved
    <3> HIDE DEF a, b, c, d
    <3> QED BY <3>2, <3>3
  <2>2. DOMAIN groups \subseteq Nat
    BY DEF Placed
  <2>3. ASSUME NEW k1 \in DOMAIN groups, NEW k2 \in DOMAIN groups, k1 # k2
        PROVE  Reserved(k1) \cap Reserved(k2) = {}
    <3>1. k1 < k2 \/ k2 < k1
      BY <2>2, <2>3
    <3> QED BY <3>1, <2>1
  <2> QED BY <2>3
<1> DEFINE Gpus(k, s) == GpusOf(k, s - 1)
\* The GPUs of an engine.
<1>5. ASSUME NEW k \in DOMAIN groups, NEW s \in DOMAIN all_engines[k]
      PROVE  /\ LocalGpus(groups[k]) \in Nat \ {0} /\ NumEngines(groups[k]) \in Nat
             /\ s \in Nat \ {0} /\ s <= NumEngines(groups[k])
             /\ NumEngines(groups[k]) * LocalGpus(groups[k]) <= groups[k].num_gpus
             /\ RolloutOffset + groups[k].gpu_offset + NumEngines(groups[k]) * LocalGpus(groups[k]) <= Len(Bundles)
  <2> DEFINE slots == all_engines[k]
             g == groups[k]
  <2>1. PICK S : slots \in Seq(S)
    BY <1>3 DEF SlotsFit, IsSequence
  <2>2. s \in 1 .. Len(slots) /\ slots # << >> /\ Len(slots) \in Nat
    BY <2>1
  <2>3. Len(slots) = NumEngines(g) /\ RolloutOffset + g.gpu_offset + Len(slots) * LocalGpus(g) <= Len(Bundles)
    BY <1>3, <2>2 DEF SlotsFit
  <2>4. LocalGpus(g) \in Nat \ {0} /\ NumEngines(g) \in Nat /\ NumEngines(g) * LocalGpus(g) <= g.num_gpus
    BY <1>1, <1>3, GroupArith
  <2>5. s \in Nat \ {0} /\ s <= NumEngines(g)
    BY <2>2, <2>3
  <2> HIDE DEF slots, g
  <2>6. RolloutOffset + g.gpu_offset + NumEngines(g) * LocalGpus(g) <= Len(Bundles)
    BY <2>3
  <2> QED BY <2>4, <2>5, <2>6 DEF g
<1>6. ASSUME NEW k \in DOMAIN groups, NEW s \in DOMAIN all_engines[k], NEW gpu \in Gpus(k, s)
      PROVE  \E r \in 0 .. LocalGpus(groups[k]) - 1 :
               /\ gpu = groups[k].gpu_offset + ((s - 1) * LocalGpus(groups[k]) + r)
               /\ (s - 1) * LocalGpus(groups[k]) \in Nat
               /\ (s - 1) * LocalGpus(groups[k]) + r < NumEngines(groups[k]) * LocalGpus(groups[k])
  <2> DEFINE L == LocalGpus(groups[k])
             n == NumEngines(groups[k])
             off == groups[k].gpu_offset
             i == s - 1
             x == i * L
             r == gpu - (off + x)
  <2>1. L \in Nat \ {0} /\ n \in Nat /\ i \in Nat /\ i + 1 <= n /\ off \in Nat
    BY <1>3, <1>5
  <2>2. gpu \in off + x .. off + x + L - 1
    BY DEF GpusOf, GpuOf
  <2> HIDE DEF L, n, off, i
  <2>3. x \in Nat /\ (i + 1) * L <= n * L /\ (i + 1) * L = x + L /\ n * L \in Nat
    BY <2>1
  <2> DEFINE all == n * L
  <2>4. x \in Nat /\ x + L <= all /\ all \in Nat
    BY <2>3
  <2> HIDE DEF x, all
  <2>5. r \in 0 .. L - 1 /\ gpu = off + (x + r) /\ x + r < all
    BY <2>1, <2>2, <2>4
  <2> QED BY <2>4, <2>5 DEF L, n, off, i, x, all
<1>7. ASSUME NEW k \in DOMAIN groups, NEW s1 \in DOMAIN all_engines[k], NEW s2 \in DOMAIN all_engines[k]
      PROVE  /\ Gpus(k, s1) \subseteq Reserved(k)
             /\ s1 # s2 => Gpus(k, s1) \cap Gpus(k, s2) = {}
  <2> DEFINE L == LocalGpus(groups[k])
             n == NumEngines(groups[k])
             off == groups[k].gpu_offset
             size == groups[k].num_gpus
  <2>1. /\ L \in Nat \ {0} /\ off \in Nat /\ size \in Nat /\ n \in Nat /\ n * L <= size
        /\ s1 \in Nat \ {0} /\ s2 \in Nat \ {0}
    BY <1>3, <1>5
  <2>2. Reserved(k) = off .. off + size - 1
    BY DEF Reserved
  <2>3. ASSUME NEW gpu \in Gpus(k, s1) PROVE gpu \in Reserved(k)
    <3>1. PICK r \in 0 .. L - 1 : /\ gpu = off + ((s1 - 1) * L + r)
                                   /\ (s1 - 1) * L \in Nat /\ (s1 - 1) * L + r < n * L
      BY <1>6
    <3> DEFINE x == (s1 - 1) * L
               y == n * L
    <3>2. gpu = off + (x + r) /\ x \in Nat /\ x + r < y /\ y <= size /\ y \in Nat /\ r \in Nat
      BY <2>1, <3>1
    <3> HIDE DEF x, y, off, size, L, n, Gpus
    <3> QED BY <2>1, <2>2, <3>2
  <2>4. ASSUME NEW gpu, gpu \in Gpus(k, s1), gpu \in Gpus(k, s2) PROVE s1 = s2
    <3>1. PICK r1 \in 0 .. L - 1 : gpu = off + ((s1 - 1) * L + r1)
      BY <1>6, <2>4
    <3>2. PICK r2 \in 0 .. L - 1 : gpu = off + ((s2 - 1) * L + r2)
      BY <1>6, <2>4
    <3> DEFINE i1 == s1 - 1
               i2 == s2 - 1
    <3>3. i1 \in Nat /\ i2 \in Nat
      BY <2>1
    <3> HIDE DEF i1, i2, L, off
    <3>4. i1 * L + r1 = i2 * L + r2
      <4> DEFINE x1 == i1 * L
                 x2 == i2 * L
      <4>1. gpu = off + (x1 + r1) /\ gpu = off + (x2 + r2)
        BY <3>1, <3>2 DEF i1, i2
      <4>2. x1 \in Nat /\ x2 \in Nat /\ r1 \in Nat /\ r2 \in Nat /\ off \in Nat
        BY <2>1, <3>3
      <4> HIDE DEF x1, x2
      <4>3. x1 + r1 = x2 + r2
        BY <4>1, <4>2
      <4> QED BY <4>3 DEF x1, x2
    <3>5. (i1 * L + r1) \div L = i1 /\ (i2 * L + r2) \div L = i2
      BY <2>1, <3>3, Quotient
    <3>6. i1 = i2
      BY <3>4, <3>5
    <3> QED BY <2>1, <3>6 DEF i1, i2
  <2> QED BY <2>3, <2>4
<1>8. ASSUME NEW k \in DOMAIN groups, NEW s \in DOMAIN all_engines[k], NEW gpu \in Gpus(k, s)
      PROVE  /\ RolloutOffset + gpu < Len(Bundles)
             /\ Aligned(groups[k]) => NodeOfGpu(gpu) = NodeOf(groups[k], s - 1)
             /\ layout.offload_rollout /\ RolloutOffset + gpu < layout.actor_gpus => groups[k].needs_offload
  <2> DEFINE g == groups[k]
             L == LocalGpus(groups[k])
             n == NumEngines(groups[k])
             off == groups[k].gpu_offset
             x == (s - 1) * LocalGpus(groups[k])
             count == n * L
  <2>1. PICK r \in 0 .. L - 1 : gpu = off + (x + r) /\ x \in Nat /\ x + r < count
    BY <1>6
  <2>2. L \in Nat \ {0} /\ n \in Nat /\ off \in Nat /\ s - 1 \in Nat /\ RolloutOffset + off + count <= Len(Bundles)
    BY <1>3, <1>5
  <2>3. count \in Nat /\ r \in Nat
    BY <2>1, <2>2
  <2>4. RolloutOffset + gpu < Len(Bundles)
    <3> DEFINE len == Len(Bundles)
    <3> HIDE DEF count, x, len, off
    <3>1. RolloutOffset + gpu < len
      BY <2>1, <2>2, <2>3, <1>1, <1>2 DEF len
    <3> QED BY <3>1 DEF len
  <2>5. ASSUME Aligned(g) PROVE NodeOfGpu(gpu) = NodeOf(g, s - 1)
    <3>1. count \in Nat \ {0} /\ x + r \in 0 .. count - 1 /\ x \in 0 .. count - 1
      <4> HIDE DEF count, x
      <4> QED BY <2>1, <2>3
    <3>2. /\ NodeOfGpu(off + (x + r)) = NodeOfGpu(off) + ((x + r) \div layout.num_gpus_per_node)
          /\ NodeOfGpu(off + x) = NodeOfGpu(off) + (x \div layout.num_gpus_per_node)
      <4> DEFINE h == g
      <4>1. /\ layout \in Layouts /\ h.gpu_offset \in Nat /\ count = NumEngines(h) * LocalGpus(h)
            /\ RolloutOffset + h.gpu_offset + count <= Len(Bundles) /\ Aligned(h) /\ h.gpu_offset = off
        BY <1>1, <2>2, <2>5
      <4> HIDE DEF h, count, x, off
      <4>2. \A a \in 0 .. count - 1 :
              NodeOfGpu(h.gpu_offset + a) = NodeOfGpu(h.gpu_offset) + (a \div layout.num_gpus_per_node)
        BY <3>1, <4>1, AlignedNodes
      <4> QED BY <3>1, <4>1, <4>2
    <3>3. (x + r) \div layout.num_gpus_per_node = x \div layout.num_gpus_per_node
      <4> DEFINE i == s - 1
                 N == layout.num_gpus_per_node
      <4>1. Sized(g) /\ i \in Nat /\ 0 \in 0 .. L - 1
        BY <1>3, <2>2
      <4>2. (i * L + r) \div N = i \div EnginesPerNode(g) /\ (i * L + 0) \div N = i \div EnginesPerNode(g)
        <5> HIDE DEF i
        <5> QED BY <1>1, <4>1, GroupArith
      <4>3. x + 0 = x /\ x = i * L
        <5>1. x = i * L
          OBVIOUS
        <5> HIDE DEF x
        <5> QED BY <5>1, <2>1
      <4> QED BY <4>2, <4>3
    <3>4. NodeOf(g, s - 1) = NodeOfGpu(off + x)
      BY DEF NodeOf, GpuOf
    <3> HIDE DEF x, off
    <3>5. NodeOfGpu(gpu) = NodeOfGpu(off + (x + r))
      BY <2>1
    <3> QED BY <3>2, <3>3, <3>4, <3>5
  <2>6. ASSUME layout.offload_rollout, RolloutOffset + gpu < layout.actor_gpus PROVE g.needs_offload
    <3>1. layout.actor_gpus \in Nat
      BY <1>1, LayoutFacts
    <3>2. RolloutOffset + off < layout.actor_gpus
      <4> HIDE DEF x, off, count
      <4> QED BY <2>1, <2>2, <2>3, <2>6, <3>1, <1>1
    <3> QED BY <2>6, <3>2, <1>3
  <2> QED BY <2>4, <2>5, <2>6
<1>9. ASSUME NEW k \in DOMAIN groups, NEW i \in Engines(k)
      PROVE  /\ Aligned(groups[k]) => NodeRank(groups[k], i) = 0
             /\ GpuOf(groups[k], i) = groups[k].gpu_offset
                                        + (i \div NodesPerEngine(groups[k])) * groups[k].num_gpus_per_engine
  <2> DEFINE g == groups[k]
             P == NodesPerEngine(groups[k])
             L == LocalGpus(groups[k])
             j == i \div P
             ro == groups[k].rank_offset
  <2>1. P \in Nat \ {0} /\ L \in Nat \ {0} /\ P * L = g.num_gpus_per_engine /\ ro \in Nat
    BY <1>1, <1>3, GroupArith
  <2>2. i \in Nat /\ i % P = 0
    <3>1. PICK S : all_engines[k] \in Seq(S)
      BY <1>3 DEF SlotsFit, IsSequence
    <3>2. Len(all_engines[k]) \in Nat
      BY <3>1
    <3> QED BY <3>2 DEF Engines
  <2>3. i = P * j /\ j \in Nat
    <3> HIDE DEF P
    <3> QED BY <2>1, <2>2
  <2>4. GpuOf(g, i) = g.gpu_offset + j * g.num_gpus_per_engine
    <3>1. GpuOf(g, i) = g.gpu_offset + i * L
      BY DEF GpuOf
    <3>2. i * L = j * (P * L)
      <4> HIDE DEF P, L, j
      <4>1. (P * j) * L = j * (P * L)
        BY <2>1, <2>3
      <4> QED BY <4>1, <2>3
    <3> HIDE DEF P, L, j
    <3> QED BY <3>1, <3>2, <2>1
  <2>5. ASSUME Aligned(g) PROVE NodeRank(g, i) = 0
    <3>1. ro % P = 0
      BY <2>5 DEF Aligned
    <3>2. (ro + i) % P = 0
      <4> DEFINE q == ro \div P
      <4> HIDE DEF P, j, ro
      <4>1. ro = P * q /\ q \in Nat
        BY <2>1, <3>1
      <4> HIDE DEF q
      <4>2. ro + i = P * (q + j) /\ q + j \in Nat
        BY <2>1, <2>3, <4>1
      <4> DEFINE m == q + j
      <4>3. (P * m) % P = 0
        <5>1. m \in Nat /\ P \in Nat \ {0}
          BY <4>2, <2>1
        <5> HIDE DEF m
        <5> QED BY <5>1
      <4> QED BY <4>2, <4>3
    <3> QED BY <3>2 DEF NodeRank
  <2> QED BY <2>4, <2>5
<1> QED BY <1>4, <1>7, <1>8, <1>9 DEF PlacementSound

\* A step that leaves the groups and their numbers of slots alone.
Shapes ==
  /\ layout' = layout /\ groups' = groups
  /\ engine_offset' = engine_offset /\ gpu_offset' = gpu_offset
  /\ plan' \in Seq(Batch) /\ (phase' = "start" => plan' # << >>)
  /\ IsSequence(all_engines') /\ Len(all_engines') = Len(all_engines)
  /\ \A k \in DOMAIN groups : IsSequence(all_engines[k]) =>
       IsSequence(all_engines'[k]) /\ Len(all_engines'[k]) = Len(all_engines[k])

\* What an engine is given or loses does not move the groups.
LEMMA ShapesKeep == Placed /\ Shapes => Placed'
<1> SUFFICES ASSUME Placed, Shapes PROVE Placed'
  OBVIOUS
<1>1. layout' = layout /\ groups' = groups /\ engine_offset' = engine_offset /\ gpu_offset' = gpu_offset
  BY DEF Shapes
<1>2. Batch' = Batch
  BY <1>1 DEF Batch, Configs
<1>3. ASSUME NEW k \in DOMAIN groups PROVE SlotsFit(groups[k], all_engines[k])'
  <2> DEFINE x == all_engines[k]
             y == all_engines'[k]
             g == groups[k]
  <2>1. SlotsFit(g, x)
    BY DEF Placed
  <2>2. IsSequence(x)
    BY <2>1 DEF SlotsFit
  <2>3. IsSequence(y) /\ Len(y) = Len(x)
    BY <2>2 DEF Shapes
  <2>4. y # << >> => x # << >>
    <3> HIDE DEF x, y
    <3> QED BY <2>2, <2>3 DEF IsSequence
  <2>5. Bundles' = Bundles /\ RolloutOffset' = RolloutOffset /\ NumEngines(g)' = NumEngines(g) /\ LocalGpus(g)' = LocalGpus(g)
    BY <1>1 DEF Bundles, RolloutOffset, NumEngines, LocalGpus
  <2>6. y # << >> =>
          /\ Len(y) = NumEngines(g)
          /\ RolloutOffset + g.gpu_offset + Len(y) * LocalGpus(g) <= Len(Bundles)
    <3> HIDE DEF x, y, g
    <3> QED BY <2>1, <2>3, <2>4 DEF SlotsFit
  <2> QED BY <2>3, <2>5, <2>6, <1>1 DEF SlotsFit
<1>4. ASSUME NEW k \in DOMAIN groups
      PROVE  /\ Sized(groups[k])'
             /\ (groups[k].gpu_offset + groups[k].num_gpus <= gpu_offset)'
             /\ (groups[k].needs_offload =
                  (layout.offload_rollout /\ RolloutOffset + groups[k].gpu_offset < layout.actor_gpus))'
  <2>1. Sized(groups[k])'
    BY <1>1 DEF Placed, Sized
  <2>2. (groups[k].gpu_offset + groups[k].num_gpus <= gpu_offset)'
    BY <1>1 DEF Placed
  <2>3. (groups[k].needs_offload =
           (layout.offload_rollout /\ RolloutOffset + groups[k].gpu_offset < layout.actor_gpus))'
    <3>1. groups[k].needs_offload =
            (layout.offload_rollout /\ RolloutOffset + groups[k].gpu_offset < layout.actor_gpus)
      BY DEF Placed
    <3>2. RolloutOffset' = RolloutOffset
      BY <1>1 DEF RolloutOffset
    <3> QED BY <3>1, <3>2, <1>1
  <2> QED BY <2>1, <2>2, <2>3
<1>5. (\A k \in DOMAIN groups :
       /\ Sized(groups[k])
       /\ groups[k].gpu_offset + groups[k].num_gpus <= gpu_offset
       /\ groups[k].needs_offload =
            (layout.offload_rollout /\ RolloutOffset + groups[k].gpu_offset < layout.actor_gpus)
       /\ SlotsFit(groups[k], all_engines[k]))'
  BY <1>1, <1>3, <1>4
<1>6. /\ (layout \in Layouts)'
      /\ (plan \in Seq(Batch) /\ (phase = "start" => plan # << >>))'
      /\ (engine_offset \in Nat /\ gpu_offset \in Nat)'
      /\ (groups \in Seq(Group))'
      /\ (IsSequence(all_engines) /\ Len(all_engines) = Len(groups))'
  BY <1>1, <1>2 DEF Placed, Shapes, Group
<1>7. (\A k1, k2 \in DOMAIN groups : k1 < k2 =>
        groups[k1].gpu_offset + groups[k1].num_gpus <= groups[k2].gpu_offset)'
  BY <1>1 DEF Placed
<1> QED BY <1>5, <1>6, <1>7 DEF Placed

\* The engines as they are, or with new slots for one group, as many as before.
LEMMA SameShape ==
  ASSUME Placed, NEW k \in DOMAIN groups, NEW slots,
         DOMAIN slots = DOMAIN all_engines[k], slots = [s \in DOMAIN slots |-> slots[s]],
         all_engines' = [all_engines EXCEPT ![k] = slots]
  PROVE  /\ IsSequence(all_engines') /\ Len(all_engines') = Len(all_engines)
         /\ \A l \in DOMAIN groups : IsSequence(all_engines[l]) =>
              IsSequence(all_engines'[l]) /\ Len(all_engines'[l]) = Len(all_engines[l])
<1> DEFINE e == all_engines
           f == all_engines'
<1>1. IsSequence(e) /\ DOMAIN groups = DOMAIN e
  <2>1. IsSequence(e) /\ Len(e) = Len(groups) /\ groups \in Seq(Group)
    BY DEF Placed
  <2>2. PICK S : e \in Seq(S)
    BY <2>1 DEF IsSequence
  <2> QED BY <2>1, <2>2
<1>2. f = [l \in DOMAIN e |-> IF l = k THEN slots ELSE e[l]]
  OBVIOUS
<1> HIDE DEF e, f
<1>3. DOMAIN f = DOMAIN e /\ f = [l \in DOMAIN f |-> f[l]]
  BY <1>2
<1>4. IsSequence(f) /\ Len(f) = Len(e)
  BY <1>1, <1>3, FunctionSequence
<1>5. ASSUME NEW l \in DOMAIN groups, IsSequence(e[l]) PROVE IsSequence(f[l]) /\ Len(f[l]) = Len(e[l])
  <2>1. CASE l = k
    <3>1. f[l] = slots
      BY <1>1, <1>2, <2>1
    <3>2. IsSequence(e[k]) /\ DOMAIN slots = DOMAIN e[k]
      BY <1>5, <2>1 DEF e
    <3>3. IsSequence(slots) /\ Len(slots) = Len(e[k])
      BY <3>2, FunctionSequence
    <3> QED BY <2>1, <3>1, <3>3
  <2>2. CASE l # k
    <3>1. f[l] = e[l]
      BY <1>1, <1>2, <2>2
    <3> QED BY <1>5, <3>1
  <2> QED BY <2>1, <2>2
<1> QED BY <1>4, <1>5 DEF e, f

\* start_engines keeps the number of slots.
LEMMA StartedShape ==
  ASSUME NEW g, NEW slots, slots = [s \in DOMAIN slots |-> slots[s]]
  PROVE  /\ DOMAIN Started(g, slots).slots = DOMAIN slots
         /\ Started(g, slots).slots = [s \in DOMAIN slots |-> Started(g, slots).slots[s]]
<1> DEFINE new == {i \in 0 .. Len(slots) - 1 : slots[i + 1] = NoEngine}
           given == Allocate(g, new, BasePort(port_cursors))
           t == [s \in DOMAIN slots |->
                   IF s - 1 \in new THEN [status |-> "init", ports |-> {}, addr |-> given.addr[s - 1]]
                   ELSE slots[s]]
<1>1. Started(g, slots) = IF new = {} THEN [slots |-> slots, cursors |-> port_cursors]
                          ELSE [slots |-> t, cursors |-> given.cursors]
  BY DEF Started
<1> HIDE DEF given, new
<1>2. DOMAIN t = DOMAIN slots /\ t = [s \in DOMAIN slots |-> t[s]]
  OBVIOUS
<1> HIDE DEF t
<1>3. CASE new = {}
  <2>1. Started(g, slots).slots = slots
    BY <1>1, <1>3
  <2> QED BY <2>1
<1>4. CASE new # {}
  <2>1. Started(g, slots).slots = t
    BY <1>1, <1>4
  <2> QED BY <2>1, <1>2
<1> QED BY <1>3, <1>4

\* A group is made behind the ones before it.
LEMMA StartGroupPlaced == Placed /\ StartGroup => Placed'
<1> SUFFICES ASSUME Placed, StartGroup PROVE Placed'
  OBVIOUS
<1> DEFINE c == Head(Head(plan).groups)
           g == MakeGroup(c, Head(plan).model)
           old == NewSlots(c)
           new == Started(g, NewSlots(c)).slots
<1>1. /\ phase = "start" /\ Head(plan).groups # << >> /\ Fits(g, old)
      /\ groups' = Append(groups, g)
      /\ all_engines' = Append(all_engines, new)
      /\ engine_offset' = engine_offset + NumEngines(c)
      /\ gpu_offset' = gpu_offset + GpusTaken(c)
      /\ plan' = [plan EXCEPT ![1].groups = Tail(@)]
      /\ layout' = layout /\ phase' = phase
  BY DEF StartGroup
<1>2. plan \in Seq(Batch) \ {<< >>} /\ layout \in Layouts /\ gpu_offset \in Nat /\ engine_offset \in Nat
      /\ RolloutOffset \in Nat
  BY <1>1, LayoutFacts DEF Placed
<1>3. Head(plan) = plan[1] /\ 1 \in DOMAIN plan /\ plan[1] \in Batch
  BY <1>2
<1>4. Head(plan).groups \in Seq(Configs) /\ Head(plan).model \in Nat
  BY <1>3 DEF Batch
<1>5. c \in Configs
  BY <1>1, <1>4
<1>6. plan' \in Seq(Batch) /\ plan' # << >>
  <2> DEFINE b == [plan[1] EXCEPT !.groups = Tail(@)]
  <2>1. plan' = [plan EXCEPT ![1] = b]
    BY <1>1
  <2>2. Tail(plan[1].groups) \in Seq(Configs)
    BY <1>1, <1>3, <1>4
  <2>3. b \in Batch
    BY <1>3, <2>2 DEF Batch
  <2> HIDE DEF b
  <2>4. plan' \in Seq(Batch) /\ Len(plan') = Len(plan) /\ Len(plan) \in Nat \ {0}
    BY <1>2, <1>3, <2>1, <2>3
  <2> QED BY <2>4
<1>7. Sized(c) /\ c.worker_type \in WorkerTypes
  BY <1>5 DEF Configs, GroupConfigs, Sized
<1>8. /\ g.gpu_offset = gpu_offset /\ g.num_gpus = c.num_gpus
      /\ g.num_gpus_per_engine = c.num_gpus_per_engine
      /\ g.needs_offload = (layout.offload_rollout /\ RolloutOffset + gpu_offset < layout.actor_gpus)
  BY DEF MakeGroup
<1>80. LocalGpus(g) = LocalGpus(c) /\ NumEngines(g) = NumEngines(c) /\ Sized(g)
  BY <1>7, <1>8 DEF LocalGpus, NumEngines, Sized
<1>9. NumEngines(c) \in Nat /\ c.num_gpus \in Nat /\ c.num_gpus_per_engine \in Nat
  BY <1>2, <1>7, GroupArith DEF Sized
<1>10. g \in Group
  <2>1. (layout.offload_rollout /\ RolloutOffset + gpu_offset < layout.actor_gpus) \in BOOLEAN
    OBVIOUS
  <2> QED BY <2>1, <1>2, <1>4, <1>7, <1>9 DEF MakeGroup, Group
<1>11. old = << >> \/ (IsSequence(old) /\ Len(old) = NumEngines(c) /\ old # << >>)
  <2>1. CASE c.worker_type = "placeholder"
    BY <2>1 DEF NewSlots
  <2>2. CASE c.worker_type # "placeholder"
    <3> DEFINE n == NumEngines(c)
               t == [s \in 1 .. n |-> NoEngine]
    <3>1. old = t
      BY <2>2 DEF NewSlots
    <3> HIDE DEF n
    <3>2. t \in Seq({NoEngine}) /\ Len(t) = n
      BY <1>9 DEF n
    <3> HIDE DEF t
    <3>3. IsSequence(t)
      BY <3>2 DEF IsSequence
    <3> QED BY <3>1, <3>2, <3>3 DEF n
  <2> QED BY <2>1, <2>2
<1>12. IsSequence(old)
  <2>1. << >> \in Seq({})
    OBVIOUS
  <2> QED BY <1>11, <2>1 DEF IsSequence
<1>13. IsSequence(new) /\ Len(new) = Len(old)
  <2>1. old = [s \in DOMAIN old |-> old[s]]
    <3> HIDE DEF old
    <3> QED BY <1>12 DEF IsSequence
  <2>2. DOMAIN new = DOMAIN old /\ new = [s \in DOMAIN old |-> new[s]]
    <3> HIDE DEF old, g
    <3> QED BY <2>1, StartedShape DEF old
  <2> HIDE DEF new, old
  <2>3. new = [s \in DOMAIN new |-> new[s]]
    BY <2>2
  <2> QED BY <1>12, <2>2, <2>3, FunctionSequence
<1> HIDE DEF new, old, g, c
<1>14. SlotsFit(g, new)
  <2> SUFFICES ASSUME new # << >>
               PROVE  /\ Len(new) = NumEngines(g)
                      /\ RolloutOffset + g.gpu_offset + Len(new) * LocalGpus(g) <= Len(Bundles)
    BY <1>13 DEF SlotsFit
  <2>1. old # << >>
    BY <1>12, <1>13 DEF IsSequence
  <2> QED BY <2>1, <1>1, <1>11, <1>13, <1>80 DEF Fits
<1>15. /\ IsSequence(all_engines') /\ Len(all_engines') = Len(all_engines) + 1
       /\ Len(all_engines) = Len(groups) /\ Len(groups) \in Nat
       /\ \A i \in 1 .. Len(groups) : all_engines'[i] = all_engines[i]
       /\ all_engines'[Len(groups) + 1] = new
  BY <1>1, AppendSequence DEF Placed
<1>16. /\ groups \in Seq(Group) /\ groups' \in Seq(Group) /\ Len(groups') = Len(groups) + 1
       /\ \A i \in 1 .. Len(groups) : groups'[i] = groups[i]
       /\ groups'[Len(groups) + 1] = g
  BY <1>1, <1>10 DEF Placed
<1>17. DOMAIN groups = 1 .. Len(groups) /\ DOMAIN groups' = 1 .. Len(groups) + 1
  BY <1>15, <1>16
<1>18. gpu_offset' = gpu_offset + c.num_gpus /\ gpu_offset' \in Nat /\ engine_offset' \in Nat
  BY <1>1, <1>2, <1>9 DEF GpusTaken
<1>19. Bundles' = Bundles /\ RolloutOffset' = RolloutOffset /\ Batch' = Batch
  BY <1>1 DEF Bundles, RolloutOffset, Batch, Configs
<1> DEFINE Good(h, slots, offset) ==
       /\ Sized(h)
       /\ h.gpu_offset + h.num_gpus <= offset
       /\ h.needs_offload = (layout.offload_rollout /\ RolloutOffset + h.gpu_offset < layout.actor_gpus)
       /\ SlotsFit(h, slots)
<1>21. ASSUME NEW k \in DOMAIN groups' PROVE Good(groups'[k], all_engines'[k], gpu_offset')
  <2>1. CASE k = Len(groups) + 1
    <3>1. groups'[k] = g /\ all_engines'[k] = new
      BY <1>15, <1>16, <2>1
    <3>2. g.gpu_offset + g.num_gpus <= gpu_offset'
      BY <1>2, <1>8, <1>9, <1>18
    <3>3. Good(g, new, gpu_offset')
      BY <1>8, <1>80, <1>14, <3>2
    <3> HIDE DEF Good
    <3> QED BY <3>1, <3>3
  <2>2. CASE k # Len(groups) + 1
    <3>1. k \in 1 .. Len(groups) /\ k \in DOMAIN groups
      BY <1>15, <1>17, <2>2
    <3>2. groups'[k] = groups[k] /\ all_engines'[k] = all_engines[k]
      BY <1>15, <1>16, <3>1
    <3>3. Good(groups[k], all_engines[k], gpu_offset)
      BY <3>1 DEF Placed
    <3>4. groups[k] \in Group
      BY <3>1, <1>16
    <3>5. groups[k].gpu_offset + groups[k].num_gpus <= gpu_offset'
      <4>1. groups[k].gpu_offset \in Nat /\ groups[k].num_gpus \in Nat
        BY <3>4 DEF Group
      <4> QED BY <4>1, <3>3, <1>18, <1>2, <1>9, SMTT(30)
    <3> QED BY <3>2, <3>3, <3>5
  <2> QED BY <2>1, <2>2
<1>22. (\A k \in DOMAIN groups :
         /\ Sized(groups[k])
         /\ groups[k].gpu_offset + groups[k].num_gpus <= gpu_offset
         /\ groups[k].needs_offload =
              (layout.offload_rollout /\ RolloutOffset + groups[k].gpu_offset < layout.actor_gpus)
         /\ SlotsFit(groups[k], all_engines[k]))'
  <2> SUFFICES ASSUME NEW k \in DOMAIN groups'
               PROVE  /\ Sized(groups[k])'
                      /\ groups'[k].gpu_offset + groups'[k].num_gpus <= gpu_offset'
                      /\ groups'[k].needs_offload =
                           (layout'.offload_rollout /\ RolloutOffset' + groups'[k].gpu_offset < layout'.actor_gpus)
                      /\ SlotsFit(groups[k], all_engines[k])'
    OBVIOUS
  <2>1. Good(groups'[k], all_engines'[k], gpu_offset')
    BY <1>21
  <2>2. Sized(groups[k])'
    BY <2>1, <1>1 DEF Sized
  <2>3. SlotsFit(groups[k], all_engines[k])'
    BY <2>1, <1>1, <1>19 DEF SlotsFit, NumEngines, LocalGpus
  <2> QED BY <2>1, <2>2, <2>3, <1>1, <1>19
<1>23. (\A k1, k2 \in DOMAIN groups : k1 < k2 =>
          groups[k1].gpu_offset + groups[k1].num_gpus <= groups[k2].gpu_offset)'
  <2> SUFFICES ASSUME NEW k1 \in DOMAIN groups', NEW k2 \in DOMAIN groups', k1 < k2
               PROVE  groups'[k1].gpu_offset + groups'[k1].num_gpus <= groups'[k2].gpu_offset
    OBVIOUS
  <2>1. k1 \in DOMAIN groups /\ groups'[k1] = groups[k1]
    BY <1>15, <1>16, <1>17
  <2>2. CASE k2 = Len(groups) + 1
    BY <2>1, <2>2, <1>16, <1>8 DEF Placed
  <2>3. CASE k2 # Len(groups) + 1
    <3>1. k2 \in DOMAIN groups /\ groups'[k2] = groups[k2]
      BY <1>15, <1>16, <1>17, <2>3
    <3> QED BY <2>1, <3>1 DEF Placed
  <2> QED BY <2>2, <2>3
<1>24. (plan \in Seq(Batch) /\ (phase = "start" => plan # << >>))'
  BY <1>6, <1>19
<1>25. (layout \in Layouts /\ engine_offset \in Nat /\ gpu_offset \in Nat /\ groups \in Seq(Group)
        /\ IsSequence(all_engines) /\ Len(all_engines) = Len(groups))'
  BY <1>1, <1>2, <1>15, <1>16, <1>18 DEF Group
<1> QED BY <1>22, <1>23, <1>24, <1>25 DEF Placed

\* Nothing is placed when a job starts, for the first time or again.
LEMMA StartPlaced ==
  ASSUME layout \in Layouts, plan = Plan(layout.models), groups = << >>, all_engines = << >>,
         engine_offset = 0, gpu_offset = 0
  PROVE  Placed
<1>1. plan \in Seq(Batch) /\ plan # << >>
  BY PlanType
<1>2. groups \in Seq(Group) /\ Len(groups) = 0 /\ DOMAIN groups = {}
  OBVIOUS
<1>3. IsSequence(all_engines) /\ Len(all_engines) = 0
  BY DEF IsSequence
<1> QED BY <1>1, <1>2, <1>3 DEF Placed

\* The other steps leave the groups where they are.
LEMMA ServersKeepShape ==
  ASSUME Placed,
         \/ StartRefused \/ BatchServes \/ InitRaises
         \/ \E k \in DOMAIN groups : \E s \in DOMAIN all_engines[k] : Launch(k, s - 1)
         \/ KillOne \/ Recovery \/ UNCHANGED serversVars
  PROVE  Shapes
<1>1. plan \in Seq(Batch) /\ (phase = "start" => plan # << >>)
  BY DEF Placed
<1>2. /\ IsSequence(all_engines) /\ Len(all_engines) = Len(groups) /\ groups \in Seq(Group)
      /\ \A k \in DOMAIN groups : IsSequence(all_engines[k])
  BY DEF Placed, SlotsFit
<1>3. \A k \in DOMAIN groups : DOMAIN all_engines[k] \subseteq Nat /\ all_engines[k] = [s \in DOMAIN all_engines[k] |-> all_engines[k][s]]
  BY <1>2 DEF IsSequence
<1>4. DOMAIN groups = DOMAIN all_engines
  BY <1>2 DEF IsSequence
<1>5. ASSUME StartRefused \/ InitRaises \/ Recover \/ Recovered \/ UNCHANGED serversVars PROVE Shapes
  <2>1. /\ layout' = layout /\ plan' = plan /\ groups' = groups /\ all_engines' = all_engines
        /\ engine_offset' = engine_offset /\ gpu_offset' = gpu_offset
        /\ phase' = "start" => phase = "start"
    BY <1>5 DEF StartRefused, InitRaises, Recover, Recovered, serversVars
  <2> QED BY <2>1, <1>1, <1>2 DEF Shapes
<1>6. ASSUME BatchServes PROVE Shapes
  <2>1. /\ layout' = layout /\ groups' = groups /\ all_engines' = all_engines
        /\ engine_offset' = engine_offset /\ gpu_offset' = gpu_offset
        /\ phase = "start" /\ plan' = Tail(plan)
        /\ phase' = IF Tail(plan) = << >> THEN "run" ELSE "start"
    BY <1>6 DEF BatchServes
  <2>2. plan' \in Seq(Batch)
    BY <2>1, <1>1
  <2>3. phase' = "start" => plan' # << >>
    BY <2>1
  <2> QED BY <2>1, <2>2, <2>3, <1>2 DEF Shapes
<1> DEFINE Others == /\ layout' = layout /\ plan' = plan /\ groups' = groups /\ phase' = phase
                     /\ engine_offset' = engine_offset /\ gpu_offset' = gpu_offset
           Gets(k, slots) == /\ DOMAIN slots = DOMAIN all_engines[k]
                             /\ slots = [s \in DOMAIN slots |-> slots[s]]
                             /\ all_engines' = [all_engines EXCEPT ![k] = slots]
<1>7. ASSUME NEW k \in DOMAIN groups, NEW slots, Others, Gets(k, slots) PROVE Shapes
  <2>1. /\ IsSequence(all_engines') /\ Len(all_engines') = Len(all_engines)
        /\ \A l \in DOMAIN groups : IsSequence(all_engines[l]) =>
              IsSequence(all_engines'[l]) /\ Len(all_engines'[l]) = Len(all_engines[l])
    BY <1>7, SameShape
  <2> QED BY <2>1, <1>1, <1>7 DEF Shapes
<1>8. ASSUME NEW k \in DOMAIN groups, NEW s \in DOMAIN all_engines[k], Launch(k, s - 1) PROVE Shapes
  <2>1. Others
    BY <1>8 DEF Launch
  <2>2. \E e : all_engines' = [all_engines EXCEPT ![k][(s - 1) + 1] = e]
    BY <1>8 DEF Launch
  <2>3. PICK e : all_engines' = [all_engines EXCEPT ![k][(s - 1) + 1] = e]
    BY <2>2
  <2> DEFINE slots == [all_engines[k] EXCEPT ![(s - 1) + 1] = e]
  <2>4. all_engines' = [all_engines EXCEPT ![k] = slots]
    BY <2>3
  <2>5. DOMAIN slots = DOMAIN all_engines[k] /\ slots = [t \in DOMAIN slots |-> slots[t]]
    OBVIOUS
  <2> HIDE DEF slots
  <2>6. Gets(k, slots)
    BY <2>4, <2>5
  <2> HIDE DEF Others, Gets
  <2> QED BY <2>1, <2>6, <1>7
<1>9. ASSUME KillOne PROVE Shapes
  <2>0. PICK k \in DOMAIN groups :
          \E s \in DOMAIN all_engines[k] : Kill(k, (s - 1) \div NodesPerEngine(groups[k]))
    BY <1>9 DEF KillOne
  <2>1. PICK s \in DOMAIN all_engines[k] : Kill(k, (s - 1) \div NodesPerEngine(groups[k]))
    BY <2>0
  <2>2. Others
    BY <2>1 DEF Kill
  <2> DEFINE dead == {t \in DOMAIN all_engines[k] : (t - 1) \div NodesPerEngine(groups[k])
                                                      = (s - 1) \div NodesPerEngine(groups[k])}
             slots == [t \in DOMAIN all_engines[k] |-> IF t \in dead THEN NoEngine ELSE all_engines[k][t]]
  <2>3. all_engines' = [all_engines EXCEPT ![k] = slots]
    BY <2>1 DEF Kill
  <2>5. DOMAIN slots = DOMAIN all_engines[k] /\ slots = [t \in DOMAIN slots |-> slots[t]]
    OBVIOUS
  <2> HIDE DEF slots
  <2>6. Gets(k, slots)
    BY <2>3, <2>5
  <2> HIDE DEF Others, Gets
  <2> QED BY <2>2, <2>6, <1>7
<1>10. ASSUME RestartGroup PROVE Shapes
  <2> DEFINE k == Min(todo)
             slots == Started(groups[k], all_engines[k]).slots
  <2>1. Others /\ all_engines' = [all_engines EXCEPT ![k] = slots]
    BY <1>10 DEF RestartGroup
  <2>2. CASE k \in DOMAIN groups
    <3>1. all_engines[k] = [s \in DOMAIN all_engines[k] |-> all_engines[k][s]]
      BY <1>3, <2>2
    <3>2. DOMAIN slots = DOMAIN all_engines[k] /\ slots = [s \in DOMAIN all_engines[k] |-> slots[s]]
      <4> HIDE DEF k
      <4> QED BY <3>1, StartedShape
    <3>3. Gets(k, slots)
      <4> HIDE DEF k, slots
      <4> QED BY <2>1, <3>2
    <3> HIDE DEF Gets, Others, k, slots
    <3> QED BY <2>1, <2>2, <3>3, <1>7
  <2>3. CASE k \notin DOMAIN groups
    <3>1. all_engines' = all_engines
      <4> HIDE DEF k, slots
      <4>1. all_engines = [l \in DOMAIN all_engines |-> all_engines[l]]
        BY <1>2 DEF IsSequence
      <4> QED BY <2>1, <2>3, <1>4, <4>1
    <3> QED BY <2>1, <3>1, <1>1, <1>2 DEF Shapes
  <2> QED BY <2>2, <2>3
<1> QED BY <1>5, <1>6, <1>8, <1>9, <1>10 DEF Recovery

\* What a step of the job is to the servers.
ServersNext ==
  \/ Serving \/ Recovery \/ KillOne
  \/ Restart /\ layout' = layout
  \/ UNCHANGED serversVars

\* Every step of the job is one of the servers, or leaves them alone.
LEMMA JobMovesServers == [JobNext]_jobVars => ServersNext
<1> QED BY DEF JobNext, JobDriver, CreateOnServers, UpdateRecovered, OtherDriverStep, ManagerStep, ServersStep,
             RecoverInUpdate, MonitorKills, JobCrash, JobEnded, jobVars, ServersNext

\* Placed holds in every state of a job.
LEMMA PlacedKept == JobSpec => []Placed
<1>1. JobInit => Placed
  <2> SUFFICES ASSUME JobInit PROVE Placed
    OBVIOUS
  <2> QED BY StartPlaced DEF JobInit, ServersInit
<1>2. Placed /\ [JobNext]_jobVars => Placed'
  <2> SUFFICES ASSUME Placed, [JobNext]_jobVars PROVE Placed'
    OBVIOUS
  <2>1. CASE StartGroup
    BY <2>1, StartGroupPlaced
  <2>2. CASE Restart /\ layout' = layout
    <3>1. /\ layout' \in Layouts /\ layout' = layout /\ plan' = Plan(layout.models)
          /\ groups' = << >> /\ all_engines' = << >> /\ engine_offset' = 0 /\ gpu_offset' = 0
      BY <2>2 DEF Restart, Placed
    <3>2. (plan \in Seq(Batch) /\ plan # << >>)'
      <4>1. Plan(layout.models) \in Seq(Batch) \ {<< >>}
        BY PlanType DEF Placed
      <4> QED BY <3>1, <4>1 DEF Batch, Configs
    <3>3. (groups \in Seq(Group))' /\ Len(groups') = 0 /\ DOMAIN groups' = {}
      BY <3>1
    <3>4. IsSequence(all_engines)' /\ Len(all_engines') = 0
      BY <3>1 DEF IsSequence
    <3> QED BY <3>1, <3>2, <3>3, <3>4 DEF Placed
  <2>3. CASE \/ StartRefused \/ BatchServes \/ InitRaises
             \/ \E k \in DOMAIN groups : \E s \in DOMAIN all_engines[k] : Launch(k, s - 1)
             \/ KillOne \/ Recovery \/ UNCHANGED serversVars
    BY <2>3, ServersKeepShape, ShapesKeep
  <2> QED BY <2>1, <2>2, <2>3, JobMovesServers DEF Serving, ServersNext
<1> QED BY <1>1, <1>2, PTL DEF JobSpec

\* The GPUs of the rollout and of the training are given out as PlacementSound says, in
\* every job, on every cluster: two groups never share GPUs, and neither do two engines.
THEOREM PlacementSoundCorrect == JobSpec => []PlacementSound
BY PlacedKept, PlacedSound, PTL

-----------------------------------------------------------------------------
(* Free ports. *)

\* The least element of a set of numbers.
LEMMA MinIs ==
  ASSUME NEW S, S \subseteq Nat, S # {}
  PROVE  Min(S) \in S /\ \A m \in S : Min(S) <= m
<1>1. \E n \in S : \A m \in S : n <= m
  BY LeastNumber
<1> QED BY <1>1 DEF Min

\* The greatest element of a finite one.
LEMMA MaxIs ==
  ASSUME NEW S, S \subseteq Nat, IsFiniteSet(S), S # {}
  PROVE  Max(S) \in S /\ \A m \in S : m <= Max(S)
<1> DEFINE Topped(U) == \E n \in U : \A m \in U : m <= n
           Bad == {c \in Nat : \E U \in SUBSET S : U # {} /\ Cardinality(U) = c /\ ~Topped(U)}
<1>1. \A U \in SUBSET S : IsFiniteSet(U) /\ Cardinality(U) \in Nat
  BY FS_Subset, FS_CardinalityType
<1>2. Bad = {}
  <2> SUFFICES ASSUME Bad # {} PROVE FALSE
    OBVIOUS
  <2>1. Bad \subseteq Nat
    OBVIOUS
  <2>2. PICK c \in Bad : \A d \in Bad : c <= d
    <3> HIDE DEF Bad
    <3> QED BY <2>1, LeastNumber
  <2>3. PICK U \in SUBSET S : U # {} /\ Cardinality(U) = c /\ ~Topped(U)
    BY <2>2
  <2>4. PICK x : x \in U
    BY <2>3
  <2> DEFINE V == U \ {x}
  <2>5. V \in SUBSET S /\ IsFiniteSet(U) /\ Cardinality(V) = c - 1 /\ c \in Nat
    <3>1. IsFiniteSet(U) /\ Cardinality(U) \in Nat
      BY <1>1
    <3>2. Cardinality(V) = Cardinality(U) - 1
      BY <3>1, <2>4, FS_RemoveElement
    <3> QED BY <3>1, <3>2, <2>3
  <2>6. Cardinality(V) \in Nat
    BY <1>1, <2>5
  <2>7. V = {} \/ Topped(V)
    <3> SUFFICES ASSUME V # {}, ~Topped(V) PROVE FALSE
      OBVIOUS
    <3>1. c - 1 \in Bad
      <4> HIDE DEF V, Topped
      <4> QED BY <2>5, <2>6
    <3> HIDE DEF Bad
    <3> QED BY <3>1, <2>2, <2>5
  <2>8. x \in Nat /\ \A m \in U : m = x \/ m \in V
    BY <2>4
  <2>9. CASE V = {}
    <3>1. \A m \in U : m <= x
      BY <2>8, <2>9
    <3> QED BY <3>1, <2>3, <2>4
  <2>10. CASE Topped(V)
    <3>1. PICK n \in V : \A m \in V : m <= n
      BY <2>10
    <3>2. n \in Nat /\ n \in U
      BY <3>1
    <3>3. CASE x <= n
      <4>1. \A m \in U : m <= n
        BY <2>8, <3>1, <3>3
      <4> QED BY <4>1, <3>2, <2>3
    <3>4. CASE ~(x <= n)
      <4>1. \A m \in V : m \in Nat /\ m <= n
        BY <3>1
      <4>2. \A m \in V : m <= x
        BY <4>1, <2>8, <3>2, <3>4
      <4>3. \A m \in U : m <= x
        BY <4>2, <2>8
      <4> QED BY <4>3, <2>3, <2>4
    <3> QED BY <3>3, <3>4
  <2> QED BY <2>7, <2>9, <2>10
<1>3. Topped(S)
  <2>1. S \in SUBSET S /\ Cardinality(S) \in Nat
    BY <1>1
  <2> QED BY <2>1, <1>2
<1>4. PICK n \in S : \A m \in S : m <= n
  BY <1>3
<1>5. \A m \in S : n >= m
  BY <1>4
<1>6. Max(S) \in S /\ \A m \in S : Max(S) >= m
  BY <1>5 DEF Max
<1> QED BY <1>6

\* A set of ports.
PortSet(S) == S \subseteq Nat /\ IsFiniteSet(S)

\* What get_free_port returns is behind where it started, and nobody has it.
LEMMA FreePortIsFree ==
  ASSUME NEW node, PortSet(Bound(node)), NEW start \in Nat, NEW width \in Nat
  PROVE  /\ FreePort(node, start, width) \in Nat
         /\ start <= FreePort(node, start, width)
         /\ \A p \in Bound(node) :
              ~(FreePort(node, start, width) <= p /\ p < FreePort(node, start, width) + width)
<1> DEFINE bound == Bound(node)
           most == Max(bound \cup {start})
           S == {p \in start .. most + 1 : (p .. p + width - 1) \cap bound = {}}
<1>1. bound \subseteq Nat /\ IsFiniteSet(bound)
  BY DEF PortSet
<1>2. FreePort(node, start, width) = Min(S)
  BY DEF FreePort
<1> HIDE DEF bound
<1>3. most \in Nat /\ \A p \in bound \cup {start} : p <= most
  <2> DEFINE T == bound \cup {start}
  <2>1. T \subseteq Nat /\ T # {} /\ IsFiniteSet(T)
    BY <1>1, FS_AddElement
  <2> HIDE DEF T
  <2>2. Max(T) \in T /\ \A p \in T : p <= Max(T)
    BY <2>1, MaxIs
  <2> QED BY <2>1, <2>2 DEF T
<1> HIDE DEF most
<1>4. most + 1 \in S
  <2>1. start <= most
    BY <1>3
  <2>2. ASSUME NEW p \in (most + 1) .. (most + 1) + width - 1 PROVE p \notin bound
    <3>1. p > most
      BY <1>3
    <3> QED BY <3>1, <1>1, <1>3
  <2> QED BY <2>1, <2>2, <1>3
<1>5. S \subseteq Nat
  BY <1>3
<1>6. Min(S) \in S
  <2> HIDE DEF S
  <2> QED BY <1>4, <1>5, MinIs
<1> DEFINE f == Min(S)
<1>7. f \in Nat /\ start <= f /\ (f .. f + width - 1) \cap bound = {}
  <2>1. f \in S
    BY <1>6
  <2> HIDE DEF f
  <2> QED BY <2>1, <1>3
<1>8. \A p \in bound : ~(f <= p /\ p < f + width)
  <2> SUFFICES ASSUME NEW p \in bound, f <= p, p < f + width PROVE FALSE
    OBVIOUS
  <2> HIDE DEF f
  <2>1. p \in Nat
    BY <1>1
  <2>2. p \in f .. f + width - 1
    BY <2>1, <1>7
  <2> QED BY <2>2, <1>7
<1> HIDE DEF f
<1>9. FreePort(node, start, width) = f
  BY <1>2 DEF f
<1> QED BY <1>7, <1>8, <1>9 DEF bound

\* The ports of requests of these widths: each behind the one before, and free.
Requested(port, bound, start, widths) ==
  /\ port \in Seq(Nat) /\ Len(port) = Len(widths)
  /\ \A n \in 1 .. Len(widths) : start <= port[n]
  /\ \A n \in 1 .. Len(widths) : \A p \in bound : ~(port[n] <= p /\ p < port[n] + widths[n])
  /\ \A n, m \in 1 .. Len(widths) : n < m => port[n] + widths[n] <= port[m]

\* That is what Draw returns.
LEMMA DrawRequested ==
  ASSUME NEW node, PortSet(Bound(node)), NEW start \in Nat, NEW widths \in Seq(Nat \ {0})
  PROVE  Requested(Draw(node, start, widths), Bound(node), start, widths)
<1> DEFINE N == Len(widths)
           found(n, prev) == FreePort(node, IF n = 1 THEN start ELSE prev + widths[n - 1], widths[n])
           Eq(f) == f = [n \in DOMAIN widths |->
                           FreePort(node, IF n = 1 THEN start ELSE f[n - 1] + widths[n - 1], widths[n])]
           port == CHOOSE f : Eq(f)
<1>1. N \in Nat /\ DOMAIN widths = 1 .. N /\ \A n \in 1 .. N : widths[n] \in Nat \ {0}
  OBVIOUS
<1> HIDE DEF N
<1>2. ASSUME NEW n \in 1 .. N, NEW prev \in Nat
      PROVE  /\ found(n, prev) \in Nat
             /\ (IF n = 1 THEN start ELSE prev + widths[n - 1]) <= found(n, prev)
             /\ \A p \in Bound(node) : ~(found(n, prev) <= p /\ p < found(n, prev) + widths[n])
  <2> DEFINE from == IF n = 1 THEN start ELSE prev + widths[n - 1]
             w == widths[n]
  <2>1. w \in Nat
    BY <1>1
  <2>2. from \in Nat
    <3>1. CASE n = 1
      BY <3>1
    <3>2. CASE n # 1
      <4> DEFINE k == n - 1
      <4>1. k \in 1 .. N
        BY <3>2, <1>1
      <4> HIDE DEF k
      <4>2. widths[k] \in Nat
        BY <4>1, <1>1
      <4>3. prev + widths[k] \in Nat
        BY <4>2
      <4> QED BY <3>2, <4>3 DEF k
    <3> QED BY <3>1, <3>2
  <2> HIDE DEF from, w
  <2>3. /\ FreePort(node, from, w) \in Nat /\ from <= FreePort(node, from, w)
        /\ \A p \in Bound(node) : ~(FreePort(node, from, w) <= p /\ p < FreePort(node, from, w) + w)
    BY <2>1, <2>2, FreePortIsFree
  <2>4. found(n, prev) = FreePort(node, from, w)
    BY DEF from, w
  <2> HIDE DEF found
  <2> QED BY <2>3, <2>4 DEF from, w
<1>3. \E f : Eq(f)
  <2> DEFINE step == [p \in Nat \X Nat |-> IF p[1] + 1 \in 1 .. N THEN found(p[1] + 1, p[2]) ELSE 0]
  <2>1. step \in [Nat \X Nat -> Nat]
    <3> HIDE DEF found
    <3> QED BY <1>2
  <2>2. step \in Steps(Nat)
    BY <2>1 DEF Steps
  <2>3. PICK h : Recurs(h, Nat, 0, step)
    <3> HIDE DEF step, Eq, port
    <3> QED BY <2>2, Recursion
  <2>4. h \in [Nat -> Nat] /\ \A n \in Nat : h[n + 1] = step[<<n, h[n]>>]
    BY <2>3 DEF Recurs
  <2> DEFINE f == [n \in 1 .. N |-> h[n]]
  <2>5. ASSUME NEW n \in 1 .. N
        PROVE  f[n] = FreePort(node, IF n = 1 THEN start ELSE f[n - 1] + widths[n - 1], widths[n])
    <3> DEFINE k == n - 1
    <3>1. k \in Nat /\ k + 1 = n /\ h[k] \in Nat
      BY <2>4, SMTT(30)
    <3>2. h[k + 1] = step[<<k, h[k]>>]
      BY <3>1, <2>4
    <3>3. step[<<k, h[k]>>] = found(k + 1, h[k])
      <4> HIDE DEF found, k
      <4> QED BY <3>1
    <3>4. f[n] = found(n, h[k])
      <4> HIDE DEF found, k, step
      <4> QED BY <3>1, <3>2, <3>3
    <3>5. n # 1 => f[n - 1] = h[k]
      <4>1. n # 1 => k \in 1 .. N
        BY <1>1
      <4> QED BY <4>1
    <3>6. CASE n = 1
      <4> HIDE DEF f, k
      <4> QED BY <3>4, <3>6
    <3>7. CASE n # 1
      <4>1. f[n - 1] = h[k]
        BY <3>5, <3>7
      <4> HIDE DEF f, k
      <4> QED BY <3>4, <3>7, <4>1
    <3> QED BY <3>6, <3>7
  <2>6. f = [n \in 1 .. N |-> f[n]]
    OBVIOUS
  <2> HIDE DEF f
  <2>7. [n \in 1 .. N |-> f[n]]
          = [n \in 1 .. N |-> FreePort(node, IF n = 1 THEN start ELSE f[n - 1] + widths[n - 1], widths[n])]
    BY <2>5
  <2>8. Eq(f)
    BY <2>6, <2>7, <1>1
  <2> QED BY <2>8
<1>4. Eq(port)
  BY <1>3
<1>5. Draw(node, start, widths) = port
  BY DEF Draw
<1> HIDE DEF port
<1>6. ASSUME NEW n \in 1 .. N PROVE port[n] = found(n, port[n - 1])
  <2> DEFINE F == [n_1 \in DOMAIN widths |->
                     FreePort(node, IF n_1 = 1 THEN start ELSE port[n_1 - 1] + widths[n_1 - 1], widths[n_1])]
  <2>1. port = F
    BY <1>4
  <2>2. F[n] = found(n, port[n - 1])
    BY <1>1
  <2> HIDE DEF F
  <2> QED BY <2>1, <2>2
<1>7. DOMAIN port = 1 .. N /\ port = [n \in 1 .. N |-> port[n]]
  BY <1>1, <1>4
<1> HIDE DEF found, Eq
<1> DEFINE Holds == {n \in 1 .. N : port[n] \in Nat /\ start <= port[n]}
<1>8. ASSUME NEW n \in 1 .. N, n = 1 \/ port[n - 1] \in Nat
      PROVE  /\ port[n] \in Nat
             /\ (IF n = 1 THEN start ELSE port[n - 1] + widths[n - 1]) <= port[n]
             /\ \A p \in Bound(node) : ~(port[n] <= p /\ p < port[n] + widths[n])
  <2>1. CASE n = 1
    <3>1. found(1, port[0]) = found(1, 0)
      BY DEF found
    <3>2. 1 \in 1 .. N /\ 0 \in Nat /\ 1 - 1 = 0
      BY <2>1
    <3>3. /\ found(1, 0) \in Nat /\ start <= found(1, 0)
          /\ \A p \in Bound(node) : ~(found(1, 0) <= p /\ p < found(1, 0) + widths[1])
      BY <3>2, <1>2
    <3>4. port[1] = found(1, 0)
      BY <1>6, <3>1, <3>2
    <3> QED BY <2>1, <3>3, <3>4
  <2>2. CASE n # 1
    <3> DEFINE q == port[n - 1]
    <3>1. q \in Nat
      BY <1>8, <2>2
    <3>2. port[n] = found(n, q)
      BY <1>6
    <3> HIDE DEF q
    <3>3. /\ found(n, q) \in Nat
          /\ (IF n = 1 THEN start ELSE q + widths[n - 1]) <= found(n, q)
          /\ \A p \in Bound(node) : ~(found(n, q) <= p /\ p < found(n, q) + widths[n])
      BY <3>1, <1>2
    <3> QED BY <3>2, <3>3 DEF q
  <2> QED BY <2>1, <2>2
<1>9. N # 0 => \A n \in 1 .. N : n \in Holds
  <2> SUFFICES ASSUME N # 0 PROVE \A n \in 1 .. N : n \in Holds
    OBVIOUS
  <2>1. 1 \in Holds
    <3>1. 1 \in 1 .. N
      BY <1>1
    <3> QED BY <3>1, <1>8
  <2>2. ASSUME NEW n \in 1 .. N, n \in Holds, n < N PROVE n + 1 \in Holds
    <3> DEFINE k == n + 1
    <3>1. k \in 1 .. N /\ k # 1 /\ k - 1 = n
      BY <2>2, <1>1
    <3> HIDE DEF k
    <3>2. port[k] \in Nat /\ port[n] + widths[n] <= port[k]
      BY <3>1, <2>2, <1>8
    <3>3. port[n] \in Nat /\ start <= port[n] /\ widths[n] \in Nat
      BY <2>2, <1>1
    <3> DEFINE a == port[n]
               b == widths[n]
               c == port[k]
    <3>4. a \in Nat /\ b \in Nat /\ c \in Nat /\ a + b <= c /\ start <= a
      BY <3>2, <3>3
    <3> HIDE DEF a, b, c
    <3>5. start <= c
      BY <3>4
    <3>6. k \in Holds
      BY <3>1, <3>2, <3>5 DEF c
    <3> QED BY <3>6 DEF k
  <2> HIDE DEF Holds
  <2>3. 1 \in Nat /\ N \in Nat
    BY <1>1
  <2> QED BY <2>1, <2>2, <2>3, Induction
<1>10. \A n \in 1 .. N : port[n] \in Nat /\ start <= port[n]
  BY <1>1, <1>9
<1>11. ASSUME NEW n \in 1 .. N
       PROVE  /\ n # 1 => port[n - 1] + widths[n - 1] <= port[n]
              /\ \A p \in Bound(node) : ~(port[n] <= p /\ p < port[n] + widths[n])
  <2>1. n = 1 \/ port[n - 1] \in Nat
    <3> DEFINE k == n - 1
    <3>1. n = 1 \/ k \in 1 .. N
      BY <1>1
    <3> HIDE DEF k
    <3>2. n = 1 \/ port[k] \in Nat
      BY <3>1, <1>10
    <3> QED BY <3>2 DEF k
  <2> QED BY <2>1, <1>8
<1>12. ASSUME NEW n \in 1 .. N, NEW m \in 1 .. N, n < m PROVE port[n] + widths[n] <= port[m]
  <2> DEFINE After == {l \in n + 1 .. N : port[n] + widths[n] <= port[l]}
  <2>1. n + 1 \in After
    <3> DEFINE k == n + 1
    <3>1. k \in 1 .. N /\ k # 1 /\ k - 1 = n /\ k \in n + 1 .. N
      BY <1>12, <1>1
    <3> HIDE DEF k
    <3>2. port[n] + widths[n] <= port[k]
      BY <3>1, <1>11
    <3> QED BY <3>1, <3>2 DEF k
  <2>2. ASSUME NEW l \in n + 1 .. N, l \in After, l < N PROVE l + 1 \in After
    <3> DEFINE k == l + 1
    <3>1. l \in 1 .. N /\ k \in 1 .. N /\ k # 1 /\ k - 1 = l /\ k \in n + 1 .. N
      BY <2>2, <1>1
    <3> HIDE DEF k
    <3>2. port[l] + widths[l] <= port[k]
      BY <3>1, <1>11
    <3> DEFINE a == port[n]
               b == widths[n]
               c == port[l]
               d == widths[l]
               e == port[k]
    <3>3. a \in Nat /\ b \in Nat /\ c \in Nat /\ d \in Nat /\ e \in Nat /\ a + b <= c /\ c + d <= e
      BY <3>1, <3>2, <2>2, <1>10, <1>1
    <3> HIDE DEF a, b, c, d, e
    <3>4. a + b <= e
      BY <3>3
    <3>5. k \in After
      BY <3>1, <3>4 DEF a, b, e
    <3> QED BY <3>5 DEF k
  <2>3. \A l \in n + 1 .. N : l \in After
    <3> HIDE DEF After
    <3>1. n + 1 \in Nat /\ N \in Nat
      BY <1>1
    <3> QED BY <2>1, <2>2, <3>1, Induction
  <2>4. m \in n + 1 .. N
    BY <1>12, <1>1
  <2> QED BY <2>3, <2>4
<1>13. port \in Seq(Nat) /\ Len(port) = N
  <2>1. port \in [1 .. N -> Nat]
    BY <1>7, <1>10
  <2> QED BY <2>1, <1>1
<1> QED BY <1>5, <1>10, <1>11, <1>12, <1>13 DEF Requested, N

-----------------------------------------------------------------------------
(* What the new engines of a group are promised. *)

\* The ports for the distributed initialization.
DistPortsOf(a) == a.dist.port .. a.dist.port + DistPorts - 1

\* The ports of an address, and those of them that local rank i binds.
Wide(a) == a.ports \cup DistPortsOf(a)
Takes(g, i, a) == a.ports \cup (IF i % NodesPerEngine(g) = 0 THEN DistPortsOf(a) ELSE {})

\* Engines of g that are new: they fit, and they are all nodes of theirs.
Vacant(g, new) ==
  /\ layout \in Layouts /\ Sized(g) /\ g.gpu_offset \in Nat
  /\ RolloutOffset + g.gpu_offset + NumEngines(g) * LocalGpus(g) <= Len(Bundles)
  /\ new \subseteq 0 .. NumEngines(g) - 1 /\ new # {}
  /\ \A i \in new : i - (i % NodesPerEngine(g)) \in new

\* The node indices of new engines, what is asked of each, what is drawn there, and how
\* many engines its node has from the first one on.
Indices(g, new) == {NodeIndex(g, i) : i \in new}
Asked(g, new, x) == Widths(g, FirstAt(g, new, x))
DrawnAt(g, new, base, x) == Draw(NodeOf(g, FirstAt(g, new, x)), base, Asked(g, new, x))
Here(g, new, x) == EnginesPerNode(g) - (FirstAt(g, new, x) % EnginesPerNode(g))

\* The node of a local rank, and where it is in an aligned group.
LEMMA NodeOfRank ==
  ASSUME layout \in Layouts, NEW g, Sized(g), g.gpu_offset \in Nat,
         RolloutOffset + g.gpu_offset + NumEngines(g) * LocalGpus(g) <= Len(Bundles),
         NEW i \in 0 .. NumEngines(g) - 1
  PROVE  Aligned(g) => NodeOf(g, i) = NodeOfGpu(g.gpu_offset) + NodeIndex(g, i)
<1> DEFINE L == LocalGpus(g)
           n == NumEngines(g)
           E == EnginesPerNode(g)
           N == layout.num_gpus_per_node
           count == n * L
           x == i * L
<1>1. L \in Nat \ {0} /\ n \in Nat /\ E \in Nat \ {0} /\ \A r \in 0 .. L - 1 : (i * L + r) \div N = i \div E
  BY GroupArith
<1>2. i \in Nat /\ i + 1 <= n
  BY <1>1
<1>3. count \in Nat \ {0} /\ x \in 0 .. count - 1
  <2> HIDE DEF L, n
  <2>1. (i + 1) * L <= n * L /\ (i + 1) * L = i * L + L /\ i * L \in Nat /\ n * L \in Nat
    BY <1>1, <1>2
  <2> HIDE DEF count, x
  <2>2. x + L <= count /\ x \in Nat /\ count \in Nat
    BY <2>1 DEF count, x
  <2> QED BY <2>2, <1>1
<1>4. x \div N = i \div E
  <2>1. 0 \in 0 .. L - 1
    BY <1>1
  <2>2. (x + 0) \div N = i \div E
    BY <1>1, <2>1
  <2>3. x + 0 = x
    BY <1>3
  <2> QED BY <2>2, <2>3
<1>5. NodeOf(g, i) = NodeOfGpu(g.gpu_offset + x)
  BY DEF NodeOf, GpuOf
<1>6. Aligned(g) => NodeOfGpu(g.gpu_offset + x) = NodeOfGpu(g.gpu_offset) + (x \div N)
  <2>1. count = n * L /\ RolloutOffset + g.gpu_offset + count <= Len(Bundles)
    OBVIOUS
  <2> HIDE DEF count, x
  <2> QED BY <1>3, <2>1, AlignedNodes
<1> QED BY <1>4, <1>5, <1>6 DEF NodeIndex

\* What is asked of one node: single ports first, then those for the initialization.
AskedOfNode(w, g, i, here) ==
  /\ here \in Nat \ {0} /\ here * PortsEach(g) \in Nat \ {0}
  /\ w \in Seq(Nat \ {0}) /\ here * PortsEach(g) <= Len(w)
  /\ \A n \in 1 .. here * PortsEach(g) : w[n] = 1
  /\ NodesPerEngine(g) = 1 =>
       \A n \in 1 .. here :
         here * PortsEach(g) + n \in 1 .. Len(w) /\ w[here * PortsEach(g) + n] = DistPorts
  /\ NodesPerEngine(g) # 1 /\ i % NodesPerEngine(g) = 0 =>
       Len(w) = here * PortsEach(g) + 1 /\ w[here * PortsEach(g) + 1] = DistPorts

\* Widths asks for that.
LEMMA WidthsAre ==
  ASSUME layout \in Layouts, NEW g, Sized(g), NEW i \in Nat,
         NEW here, here = EnginesPerNode(g) - (i % EnginesPerNode(g))
  PROVE  AskedOfNode(Widths(g, i), g, i, here)
<1> DEFINE E == EnginesPerNode(g)
           P == NodesPerEngine(g)
           m == here * PortsEach(g)
           x == [n \in 1 .. m |-> 1]
           many == [n \in 1 .. here |-> DistPorts]
           y == IF P = 1 THEN many ELSE IF i % P = 0 THEN <<DistPorts>> ELSE << >>
           z == Widths(g, i)
           T == Nat \ {0}
<1>1. E \in Nat \ {0} /\ P \in Nat \ {0}
  BY GroupArith
<1>2. here \in Nat \ {0}
  <2>1. i % E \in 0 .. E - 1
    <3> HIDE DEF E
    <3> QED BY <1>1
  <2> DEFINE r == i % E
  <2>2. r \in 0 .. E - 1 /\ here = E - r
    BY <2>1
  <2> HIDE DEF r, E
  <2> QED BY <1>1, <2>2
<1>3. m \in Nat \ {0}
  <2>1. PortsEach(g) \in {2, 3}
    BY DEF PortsEach
  <2> QED BY <1>2, <2>1
<1>4. DistPorts \in T
  BY LayoutFacts
<1>5. z = x \o y
  BY DEF Widths
<1> HIDE DEF m, P, E, z
<1>6. x \in Seq(T) /\ Len(x) = m /\ \A n \in 1 .. m : x[n] = 1
  BY <1>3
<1>7. many \in Seq(T) /\ Len(many) = here /\ \A n \in 1 .. here : many[n] = DistPorts
  <2> HIDE DEF T
  <2> QED BY <1>2, <1>4
<1>8. <<DistPorts>> \in Seq(T) /\ << >> \in Seq(T)
  <2> HIDE DEF T
  <2> QED BY <1>4
<1>9. y \in Seq(T)
  <2> HIDE DEF many, T
  <2> QED BY <1>7, <1>8
<1> HIDE DEF x
<1>10. /\ z \in Seq(T) /\ Len(z) = Len(x) + Len(y)
       /\ \A j \in 1 .. Len(x) : j \in 1 .. Len(z) /\ z[j] = x[j]
       /\ \A j \in 1 .. Len(y) : Len(x) + j \in 1 .. Len(z) /\ z[Len(x) + j] = y[j]
  <2> HIDE DEF y, T, many
  <2>1. x \in Seq(T) /\ y \in Seq(T) /\ z = x \o y
    BY <1>5, <1>6, <1>9
  <2> QED BY <2>1, Joined
<1>11. Len(y) \in Nat
  <2> HIDE DEF y
  <2> QED BY <1>9
<1>12. P = 1 => \A n \in 1 .. here : m + n \in 1 .. Len(z) /\ z[m + n] = DistPorts
  <2> SUFFICES ASSUME P = 1 PROVE \A n \in 1 .. here : m + n \in 1 .. Len(z) /\ z[m + n] = DistPorts
    OBVIOUS
  <2>1. y = many
    OBVIOUS
  <2> HIDE DEF y, many
  <2> QED BY <1>6, <1>7, <1>10, <2>1
<1>13. P # 1 /\ i % P = 0 => Len(z) = m + 1 /\ z[m + 1] = DistPorts
  <2> SUFFICES ASSUME P # 1, i % P = 0 PROVE Len(z) = m + 1 /\ z[m + 1] = DistPorts
    OBVIOUS
  <2>1. y = <<DistPorts>>
    OBVIOUS
  <2> HIDE DEF y
  <2>2. Len(y) = 1 /\ y[1] = DistPorts
    BY <2>1
  <2> QED BY <1>6, <1>10, <2>2
<1>14. m <= Len(z) /\ \A n \in 1 .. m : z[n] = 1
  <2> HIDE DEF y
  <2>1. Len(z) = m + Len(y)
    BY <1>6, <1>10
  <2> QED BY <1>3, <1>6, <1>10, <1>11, <2>1
<1> QED BY <1>2, <1>3, <1>10, <1>12, <1>13, <1>14 DEF m, P, E, z, AskedOfNode

\* The first new engine of a node index, and the ones behind it.
LEMMA FirstIs ==
  ASSUME NEW g, NEW new, Vacant(g, new), NEW i \in new, NEW x, x = NodeIndex(g, i)
  PROVE  /\ x \in Indices(g, new) /\ x \in Nat /\ x <= i
         /\ FirstAt(g, new, x) \in new /\ NodeIndex(g, FirstAt(g, new, x)) = x
         /\ i \in Nat /\ FirstAt(g, new, x) \in Nat
         /\ i - FirstAt(g, new, x) \in 0 .. Here(g, new, x) - 1
<1> DEFINE S == {j \in new : NodeIndex(g, j) = x}
           f == FirstAt(g, new, x)
           E == EnginesPerNode(g)
<1>1. E \in Nat \ {0} /\ NumEngines(g) \in Nat
  BY GroupArith DEF Vacant
<1>2. new \subseteq Nat
  BY <1>1 DEF Vacant
<1>3. S \subseteq Nat /\ S # {}
  BY <1>2
<1>4. f \in S /\ \A j \in S : f <= j
  <2>1. f = Min(S)
    BY DEF FirstAt
  <2> HIDE DEF S, f
  <2> QED BY <1>3, <2>1, MinIs
<1>5. f \in new /\ NodeIndex(g, f) = x /\ f <= i /\ f \in Nat /\ i \in Nat
  BY <1>2, <1>4
<1> HIDE DEF f, S, E
<1>6. i \div E = x /\ f \div E = x
  BY <1>5 DEF NodeIndex, E
<1>7. i = E * x + (i % E) /\ i % E \in 0 .. E - 1 /\ x \in Nat
  <2>1. i = E * (i \div E) + (i % E) /\ i % E \in 0 .. E - 1 /\ i \div E \in Nat
    BY <1>1, <1>5
  <2> QED BY <2>1, <1>6
<1>8. f = E * x + (f % E) /\ f % E \in 0 .. E - 1
  <2>1. f = E * (f \div E) + (f % E) /\ f % E \in 0 .. E - 1
    BY <1>1, <1>5
  <2> QED BY <2>1, <1>6
<1> DEFINE r == i % E
           q == f % E
           y == E * x
<1>9. x <= y /\ y \in Nat
  <2> DEFINE d == E - 1
  <2>1. d \in Nat /\ E = d + 1 /\ x \in Nat
    BY <1>1, <1>7
  <2> HIDE DEF d
  <2>2. (d + 1) * x = d * x + x /\ d * x \in Nat
    BY <2>1
  <2> QED BY <2>1, <2>2
<1>10. i - f \in 0 .. E - q - 1 /\ x <= i
  <2>1. r \in 0 .. E - 1 /\ q \in 0 .. E - 1 /\ i = y + r /\ f = y + q
    BY <1>7, <1>8
  <2> HIDE DEF r, q, y
  <2> QED BY <2>1, <1>1, <1>5, <1>7, <1>9
<1>11. Here(g, new, x) = E - q
  BY DEF Here, E, f
<1>12. x \in Indices(g, new)
  BY DEF Indices
<1> HIDE DEF q, r, y
<1> QED BY <1>5, <1>7, <1>10, <1>11, <1>12 DEF f

\* The ports that are drawn for a node index, and the cursor behind them.
AllDrawn(g, new, base, x, limit) ==
  /\ Asked(g, new, x) \in Seq(Nat \ {0})
  /\ Requested(DrawnAt(g, new, base, x), Bound(NodeOf(g, FirstAt(g, new, x))), base, Asked(g, new, x))
  /\ \A n \in 1 .. Len(Asked(g, new, x)) :
       DrawnAt(g, new, base, x)[n] + Asked(g, new, x)[n] <= limit

\* Every node is asked, and the next group searches behind all of it.
LEMMA AllAreDrawn ==
  ASSUME NEW g, NEW new, Vacant(g, new), NEW base \in Nat, \A node : PortSet(Bound(node))
  PROVE  /\ BasePort(Allocate(g, new, base).cursors) \in Nat
         /\ \A x \in Indices(g, new) : AllDrawn(g, new, base, x, BasePort(Allocate(g, new, base).cursors))
<1> DEFINE I == Indices(g, new)
           D(x) == DrawnAt(g, new, base, x)
           W(x) == Asked(g, new, x)
           end == [x \in I |-> Last(D(x)) + Last(W(x))]
           limit == BasePort(Allocate(g, new, base).cursors)
<1>1. Allocate(g, new, base).cursors = end
  BY DEF Allocate, DrawnAt, Asked, Indices
<1>2. ASSUME NEW x \in I
      PROVE  /\ W(x) \in Seq(Nat \ {0}) /\ Len(W(x)) \in Nat \ {0}
             /\ Requested(D(x), Bound(NodeOf(g, FirstAt(g, new, x))), base, W(x))
             /\ end[x] \in Nat
             /\ \A n \in 1 .. Len(W(x)) : D(x)[n] + W(x)[n] <= end[x]
  <2>1. PICK i \in new : x = NodeIndex(g, i)
    BY DEF Indices
  <2> DEFINE f == FirstAt(g, new, x)
             here == EnginesPerNode(g) - (f % EnginesPerNode(g))
             w == W(x)
             d == D(x)
             node == NodeOf(g, f)
  <2>2. f \in Nat
    BY <2>1, FirstIs
  <2>3. w \in Seq(Nat \ {0}) /\ Len(w) \in Nat \ {0}
    <3>1. w = Widths(g, f)
      BY DEF Asked
    <3> HIDE DEF w, f
    <3>20. AskedOfNode(Widths(g, f), g, f, here)
      BY <2>2, WidthsAre DEF Vacant
    <3>2. Widths(g, f) \in Seq(Nat \ {0}) /\ here * PortsEach(g) <= Len(Widths(g, f)) /\ here * PortsEach(g) \in Nat \ {0}
      BY <3>20 DEF AskedOfNode
    <3> DEFINE m == here * PortsEach(g)
    <3> HIDE DEF m
    <3>3. w \in Seq(Nat \ {0}) /\ m <= Len(w) /\ m \in Nat \ {0}
      BY <3>1, <3>2 DEF m
    <3> QED BY <3>3
  <2>4. d = Draw(node, base, w)
    BY DEF DrawnAt
  <2> HIDE DEF w, d, node, f
  <2>5. Requested(d, Bound(node), base, w)
    BY <2>3, <2>4, DrawRequested
  <2>6. /\ d \in Seq(Nat) /\ Len(d) = Len(w)
        /\ \A n, m \in 1 .. Len(w) : n < m => d[n] + w[n] <= d[m]
    BY <2>5 DEF Requested
  <2> DEFINE l == Len(w)
  <2>7. Last(d) = d[l] /\ Last(w) = w[l] /\ l \in 1 .. l /\ d[l] \in Nat /\ w[l] \in Nat
    BY <2>3, <2>6 DEF Last
  <2>8. end[x] = d[l] + w[l]
    BY <2>7 DEF d, w
  <2>9. ASSUME NEW n \in 1 .. l PROVE d[n] + w[n] <= d[l] + w[l]
    <3>1. d[n] \in Nat /\ w[n] \in Nat
      BY <2>3, <2>6
    <3>2. CASE n = l
      BY <3>2, <3>1, <2>7
    <3>3. CASE n # l
      <4>1. n < l /\ l \in 1 .. l
        BY <3>3, <2>3
      <4>2. d[n] + w[n] <= d[l]
        BY <4>1, <2>6
      <4> DEFINE a == d[n]
                 b == w[n]
                 c == d[l]
                 e == w[l]
      <4>3. a \in Nat /\ b \in Nat /\ c \in Nat /\ e \in Nat /\ a + b <= c
        BY <4>2, <3>1, <2>7
      <4> HIDE DEF a, b, c, e
      <4>4. a + b <= c + e
        BY <4>3
      <4> QED BY <4>4 DEF a, b, c, e
    <3> QED BY <3>2, <3>3
  <2>10. d[l] + w[l] \in Nat
    BY <2>7
  <2> HIDE DEF end
  <2> QED BY <2>3, <2>5, <2>8, <2>9, <2>10 DEF w, d, node, f
<1> HIDE DEF D, W
<1>3. I # {} /\ IsFiniteSet(I)
  <2>1. I # {}
    BY DEF Vacant, Indices
  <2>2. NumEngines(g) \in Nat
    BY GroupArith DEF Vacant
  <2>3. ASSUME NEW x \in I PROVE x \in Nat /\ x <= NumEngines(g)
    <3>1. PICK i \in new : x = NodeIndex(g, i)
      BY DEF Indices
    <3>2. x \in Nat /\ x <= i /\ i \in Nat
      BY <3>1, FirstIs
    <3>3. i <= NumEngines(g)
      BY <2>2 DEF Vacant
    <3> QED BY <3>2, <3>3, <2>2
  <2>4. I \in SUBSET Nat
    BY <2>3
  <2> HIDE DEF I
  <2>5. IsFiniteSet(I)
    BY <2>2, <2>3, <2>4, FS_BoundedSetOfNaturals
  <2> QED BY <2>1, <2>5 DEF I
<1> DEFINE ends == {end[x] : x \in I}
<1>4. IsFiniteSet(ends) /\ ends \subseteq Nat /\ ends # {}
  <2>1. ends \subseteq Nat /\ ends # {}
    <3> HIDE DEF end
    <3> QED BY <1>2, <1>3
  <2>2. end \in Surjection(I, ends)
    <3>1. DOMAIN end = I /\ end = [x \in I |-> end[x]]
      OBVIOUS
    <3> HIDE DEF end
    <3> QED BY <3>1 DEF Surjection
  <2> HIDE DEF end, ends, I
  <2>3. IsFiniteSet(ends)
    BY <1>3, <2>2, FS_Surjection
  <2> QED BY <2>1, <2>3
<1>5. limit = Max(ends)
  <2>1. DOMAIN end = I
    OBVIOUS
  <2> HIDE DEF end, I
  <2> QED BY <1>1, <1>3, <2>1 DEF BasePort
<1> HIDE DEF ends, limit, end
<1>6. limit \in Nat /\ \A e \in ends : e <= limit
  <2>1. Max(ends) \in ends /\ \A e \in ends : e <= Max(ends)
    BY <1>4, MaxIs
  <2> QED BY <2>1, <1>4, <1>5
<1>7. ASSUME NEW x \in I PROVE AllDrawn(g, new, base, x, limit)
  <2>1. end[x] \in ends
    BY DEF ends
  <2>2. end[x] <= limit /\ end[x] \in Nat
    BY <1>2, <1>6, <2>1
  <2> DEFINE d == D(x)
             w == W(x)
  <2>3. ASSUME NEW n \in 1 .. Len(w) PROVE d[n] + w[n] <= limit
    <3>1. d[n] + w[n] <= end[x]
      BY <1>2
    <3>2. d[n] \in Nat /\ w[n] \in Nat
      <4>1. w \in Seq(Nat \ {0}) /\ Requested(d, Bound(NodeOf(g, FirstAt(g, new, x))), base, w)
        BY <1>2
      <4> HIDE DEF d, w
      <4> QED BY <4>1 DEF Requested
    <3> DEFINE a == d[n]
               b == w[n]
               c == end[x]
    <3>3. a \in Nat /\ b \in Nat /\ c \in Nat /\ a + b <= c /\ c <= limit
      BY <3>1, <3>2, <2>2
    <3> HIDE DEF a, b, c
    <3>4. a + b <= limit
      BY <3>3, <1>6
    <3> QED BY <3>4 DEF a, b
  <2> QED BY <1>2, <2>3 DEF AllDrawn, D, W
<1> QED BY <1>6, <1>7 DEF limit, I

\* The n-th port of an engine among those drawn for its node index, and the place of
\* the ports for its initialization.
PortAt(g, new, i, n) == PortsEach(g) * (i - FirstAt(g, new, NodeIndex(g, i))) + n
DistAt(g, new, i) ==
  Here(g, new, NodeIndex(g, i)) * PortsEach(g) + (i - FirstAt(g, new, NodeIndex(g, i))) + 1

\* The address a is made of what was drawn, at the places of local rank i.
MadeOf(g, new, base, i, a) ==
  LET x == NodeIndex(g, i)
      f == FirstAt(g, new, x)
      d == DrawnAt(g, new, base, x)
  IN  /\ a.host = NodeOf(g, f)
      /\ a.ports = {d[PortAt(g, new, i, n)] : n \in 1 .. PortsEach(g)}
      /\ \A n \in 1 .. PortsEach(g) :
           /\ PortAt(g, new, i, n) \in 1 .. Here(g, new, x) * PortsEach(g)
           /\ PortAt(g, new, i, n) \in 1 .. Len(Asked(g, new, x))
           /\ Asked(g, new, x)[PortAt(g, new, i, n)] = 1
      /\ i % NodesPerEngine(g) = 0 =>
           /\ a.dist.host = NodeOf(g, f) /\ a.dist.port = d[DistAt(g, new, i)]
           /\ DistAt(g, new, i) \in 1 .. Len(Asked(g, new, x))
           /\ Asked(g, new, x)[DistAt(g, new, i)] = DistPorts
      /\ \E y \in Indices(g, new) : \E q \in 1 .. Len(Asked(g, new, y)) :
           a.dist.port = DrawnAt(g, new, base, y)[q] /\ Asked(g, new, y)[q] = DistPorts

\* That is how Allocate makes an address.
LEMMA AddressMade ==
  ASSUME NEW g, NEW new, Vacant(g, new), NEW base \in Nat, \A node : PortSet(Bound(node)), NEW i \in new
  PROVE  MadeOf(g, new, base, i, Allocate(g, new, base).addr[i])
<1> DEFINE x == NodeIndex(g, i)
           f == FirstAt(g, new, x)
           d == DrawnAt(g, new, base, x)
           w == Asked(g, new, x)
           E == EnginesPerNode(g)
           P == NodesPerEngine(g)
           PE == PortsEach(g)
           here == Here(g, new, x)
           m == here * PE
           nth == i - f
           drawn == [y \in Indices(g, new) |-> DrawnAt(g, new, base, y)]
           a == Allocate(g, new, base).addr[i]
           head == i - (i % P)
<1>1. a = Address(g, new, drawn, i)
  BY DEF Allocate, DrawnAt, Asked, Indices
<1>2. /\ x \in Indices(g, new) /\ x \in Nat /\ f \in new /\ f \in Nat /\ i \in Nat
      /\ nth \in 0 .. here - 1 /\ NodeIndex(g, f) = x
  BY FirstIs
<1>3. here = E - (f % E)
  BY DEF Here
<1>4. drawn[x] = d
  BY <1>2
<1>5. /\ P \in Nat \ {0} /\ E \in Nat \ {0} /\ (E = 1 \/ P = 1)
  BY GroupArith DEF Vacant
<1>6. PE \in {2, 3}
  BY DEF PortsEach
<1>7. /\ here \in Nat \ {0} /\ m \in Nat \ {0} /\ m <= Len(w) /\ w \in Seq(Nat \ {0})
      /\ \A n \in 1 .. m : w[n] = 1
      /\ P = 1 => \A n \in 1 .. here : m + n \in 1 .. Len(w) /\ w[m + n] = DistPorts
      /\ P # 1 /\ f % P = 0 => Len(w) = m + 1 /\ w[m + 1] = DistPorts
  <2>1. w = Widths(g, f)
    BY DEF Asked
  <2> HIDE DEF f, here, w, P, PE
  <2>2. layout \in Layouts /\ Sized(g) /\ f \in Nat
    BY <1>2 DEF Vacant
  <2>3. here = EnginesPerNode(g) - (f % EnginesPerNode(g))
    BY <1>3
  <2>4. AskedOfNode(Widths(g, f), g, f, here)
    BY <2>2, <2>3, WidthsAre
  <2>5. AskedOfNode(w, g, f, here)
    BY <2>1, <2>4
  <2> HIDE DEF m
  <2> QED BY <2>5 DEF P, PE, m, AskedOfNode
<1>8. /\ a.host = NodeOf(g, f)
      /\ a.ports = {d[PE * nth + n] : n \in 1 .. PE}
      /\ P = 1 => a.dist = [host |-> NodeOf(g, f), port |-> d[PE * here + nth + 1]]
      /\ P # 1 => a.dist = [host |-> NodeOf(g, head), port |-> Last(drawn[head])]
  BY <1>1, <1>4 DEF Address, Here
<1>9. ASSUME NEW n \in 1 .. PE
      PROVE  PE * nth + n \in 1 .. m
  <2>1. nth \in Nat /\ nth + 1 <= here /\ here \in Nat
    <3> HIDE DEF nth, here
    <3> QED BY <1>2, <1>7
  <2>2. PE * nth + PE <= m /\ PE * nth \in Nat /\ m \in Nat
    <3> HIDE DEF nth, here, PE
    <3>1. CASE PE = 2
      BY <2>1, <3>1
    <3>2. CASE PE = 3
      BY <2>1, <3>2
    <3> QED BY <1>6, <3>1, <3>2
  <2> DEFINE y == PE * nth
  <2>3. y + PE <= m /\ y \in Nat /\ m \in Nat /\ PE \in Nat /\ n \in 1 .. PE
    BY <2>2, <1>6
  <2> HIDE DEF y, m, PE
  <2>4. y + n \in 1 .. m
    BY <2>3
  <2> QED BY <2>4 DEF y
<1>90. /\ \A n \in 1 .. PE : PortAt(g, new, i, n) = PE * nth + n
       /\ DistAt(g, new, i) = m + nth + 1
  BY DEF PortAt, DistAt
<1>10. ASSUME NEW n \in 1 .. PE
       PROVE  PortAt(g, new, i, n) \in 1 .. m /\ PortAt(g, new, i, n) \in 1 .. Len(w) /\ w[PortAt(g, new, i, n)] = 1
  <2> DEFINE q == PortAt(g, new, i, n)
  <2>1. q \in 1 .. m
    <3> HIDE DEF m, nth, PE
    <3> QED BY <1>9, <1>90
  <2> DEFINE l == Len(w)
  <2>2. l \in Nat /\ m \in Nat /\ m <= l
    <3> HIDE DEF m, w
    <3> QED BY <1>7
  <2>3. \A k \in 1 .. m : w[k] = 1
    BY <1>7
  <2> HIDE DEF q, m, w, l
  <2>4. q \in 1 .. l
    BY <2>1, <2>2
  <2>5. w[q] = 1
    BY <2>1, <2>3
  <2> QED BY <2>1, <2>4, <2>5 DEF q, l
<1>11. a.ports = {d[PortAt(g, new, i, n)] : n \in 1 .. PE}
  <2> HIDE DEF d, nth, PE, a
  <2> QED BY <1>8, <1>90
<1>12. CASE P = 1
  <2> DEFINE q == DistAt(g, new, i)
  <2>1. q = m + (nth + 1) /\ nth + 1 \in 1 .. here
    <3> HIDE DEF m, nth, here
    <3> QED BY <1>2, <1>7, <1>90
  <2>2. q \in 1 .. Len(w) /\ w[q] = DistPorts
    <3> HIDE DEF m, nth, here, w, q
    <3> QED BY <1>7, <1>12, <2>1
  <2>3. a.dist.host = NodeOf(g, f) /\ a.dist.port = d[q]
    <3>1. PE * here + nth + 1 = q
      <4> HIDE DEF nth, here, PE
      <4>1. PE * here = here * PE /\ here * PE \in Nat /\ nth \in Nat
        BY <1>2, <1>6, <1>7
      <4> QED BY <4>1, <2>1
    <3> HIDE DEF a, q
    <3> QED BY <1>8, <1>12, <3>1
  <2> HIDE DEF q
  <2>4. \E y \in Indices(g, new) : \E z \in 1 .. Len(Asked(g, new, y)) :
          a.dist.port = DrawnAt(g, new, base, y)[z] /\ Asked(g, new, y)[z] = DistPorts
    BY <2>2, <2>3, <1>2
  <2> HIDE DEF a
  <2> QED BY <1>8, <1>10, <1>11, <2>2, <2>3, <2>4 DEF MadeOf, q, a
<1>13. CASE P # 1
  <2>0. E = 1
    BY <1>5, <1>13
  <2>1. \A j \in new : j \in Nat /\ NodeIndex(g, j) = j
    <3>1. new \subseteq Nat
      BY GroupArith DEF Vacant
    <3>2. \A j \in Nat : j \div 1 = j
      OBVIOUS
    <3> QED BY <3>1, <3>2, <2>0 DEF NodeIndex
  <2>2. head \in new
    BY DEF Vacant
  <2>3. \A j \in new : FirstAt(g, new, j) = j /\ Here(g, new, j) = 1
    <3> SUFFICES ASSUME NEW j \in new PROVE FirstAt(g, new, j) = j /\ Here(g, new, j) = 1
      OBVIOUS
    <3>1. j = NodeIndex(g, j)
      BY <2>1
    <3>2. FirstAt(g, new, j) \in new /\ NodeIndex(g, FirstAt(g, new, j)) = j
      BY <3>1, FirstIs
    <3>3. FirstAt(g, new, j) = j
      BY <3>2, <2>1
    <3>4. j % 1 = 0
      BY <2>1
    <3> QED BY <3>3, <3>4, <2>0 DEF Here
  <2>4. x = i /\ f = i /\ here = 1 /\ nth = 0
    BY <2>1, <2>3, <1>2
  <2> DEFINE dh == DrawnAt(g, new, base, head)
             wh == Asked(g, new, head)
             z == PE + 1
  <2>5. head % P = 0
    <3> DEFINE q == i \div P
    <3>1. i = P * q + (i % P) /\ q \in Nat /\ i % P \in 0 .. P - 1
      <4> HIDE DEF P
      <4> QED BY <1>2, <1>5
    <3>2. head = P * q
      <4> DEFINE r == i % P
                 y == P * q
      <4>1. i = y + r /\ r \in Nat /\ y \in Nat /\ head = i - r
        <5> HIDE DEF P, q
        <5> QED BY <3>1, <1>5
      <4> HIDE DEF r, y, head
      <4> QED BY <4>1 DEF y
    <3>3. (P * q) % P = 0
      <4> HIDE DEF P, q
      <4> QED BY <3>1, <1>5
    <3> QED BY <3>2, <3>3
  <2>6. Len(wh) = z /\ wh[z] = DistPorts /\ wh \in Seq(Nat \ {0})
    <3> HIDE DEF head
    <3>1. wh = Widths(g, head) /\ head \in Nat
      BY <2>1, <2>2, <2>3 DEF Asked
    <3>2. 1 = EnginesPerNode(g) - (head % EnginesPerNode(g))
      BY <2>0, <3>1
    <3> DEFINE one == 1
    <3> HIDE DEF one, wh, P
    <3>3. one = EnginesPerNode(g) - (head % EnginesPerNode(g))
      BY <3>2 DEF one
    <3>4. AskedOfNode(wh, g, head, one)
      BY <3>1, <3>3, WidthsAre DEF Vacant
    <3>5. one * PortsEach(g) = PE
      BY <1>6 DEF one
    <3> QED BY <3>4, <3>5, <2>5, <1>13 DEF P, AskedOfNode
  <2>7. Last(drawn[head]) = dh[z]
    <3>1. head \in Indices(g, new)
      <4> HIDE DEF head
      <4> QED BY <2>1, <2>2 DEF Indices
    <3>2. drawn[head] = dh
      <4> HIDE DEF head, dh
      <4> QED BY <3>1 DEF dh
    <3>3. Len(dh) = Len(wh)
      <4> HIDE DEF head
      <4>1. AllDrawn(g, new, base, head, BasePort(Allocate(g, new, base).cursors))
        BY <3>1, AllAreDrawn
      <4> QED BY <4>1 DEF AllDrawn, Requested
    <3> HIDE DEF dh, wh, head, drawn
    <3> QED BY <3>2, <3>3, <2>6 DEF Last
  <2>8. a.dist.host = NodeOf(g, head) /\ a.dist.port = dh[z]
    <3> HIDE DEF a, dh, z, drawn, head
    <3> QED BY <1>8, <1>13, <2>7
  <2>9. z \in 1 .. Len(wh) /\ head \in Indices(g, new)
    <3>1. head \in Indices(g, new)
      <4> HIDE DEF head
      <4> QED BY <2>1, <2>2 DEF Indices
    <3>2. z \in 1 .. z
      BY <1>6
    <3> QED BY <3>1, <3>2, <2>6
  <2>10. \E y \in Indices(g, new) : \E q \in 1 .. Len(Asked(g, new, y)) :
          a.dist.port = DrawnAt(g, new, base, y)[q] /\ Asked(g, new, y)[q] = DistPorts
    <3> HIDE DEF head, z
    <3> QED BY <2>6, <2>8, <2>9
  <2>11. ASSUME i % P = 0
         PROVE  /\ a.dist.host = NodeOf(g, f) /\ a.dist.port = d[DistAt(g, new, i)]
                /\ DistAt(g, new, i) \in 1 .. Len(w) /\ w[DistAt(g, new, i)] = DistPorts
    <3>1. head = i
      BY <2>11, <1>2
    <3>2. DistAt(g, new, i) = z
      <4> HIDE DEF nth, here, PE
      <4> QED BY <2>4, <1>6, <1>90
    <3>3. dh = d /\ wh = w
      <4> HIDE DEF head
      <4> QED BY <3>1, <2>4
    <3> HIDE DEF a, dh, d, wh, w, z, head, f
    <3> QED BY <3>1, <3>2, <3>3, <2>4, <2>6, <2>8, <2>9
  <2> HIDE DEF a
  <2> QED BY <1>8, <1>10, <1>11, <2>10, <2>11 DEF MadeOf, a
<1> QED BY <1>12, <1>13

\* Two requests never get the same port.
LEMMA RequestsApart ==
  ASSUME NEW port, NEW bound, NEW start \in Nat, NEW widths \in Seq(Nat \ {0}),
         Requested(port, bound, start, widths),
         NEW n \in 1 .. Len(widths), NEW m \in 1 .. Len(widths), NEW p \in Nat,
         port[n] <= p, p < port[n] + widths[n], port[m] <= p, p < port[m] + widths[m]
  PROVE  n = m
<1> DEFINE a == port[n]
           b == widths[n]
           c == port[m]
           d == widths[m]
<1>1. a \in Nat /\ b \in Nat /\ c \in Nat /\ d \in Nat
  BY SMTT(30) DEF Requested
<1>2. n < m => a + b <= c
  BY DEF Requested
<1>3. m < n => c + d <= a
  BY DEF Requested
<1>4. a <= p /\ p < a + b /\ c <= p /\ p < c + d
  OBVIOUS
<1> HIDE DEF a, b, c, d
<1>5. ~(n < m)
  BY <1>1, <1>2, <1>4
<1>6. ~(m < n)
  BY <1>1, <1>3, <1>4
<1> QED BY <1>5, <1>6

\* An address that is promised to local rank i: ports between base and limit, that are
\* free on the node where its server will run if the group is aligned.
Promised(g, i, a, base, limit) ==
  /\ PortSet(a.ports) /\ a.dist.port \in Nat
  /\ \A p \in Wide(a) : p \in Nat /\ base <= p /\ p < limit
  /\ Aligned(g) =>
       /\ a.host = NodeOf(g, i)
       /\ \A p \in Takes(g, i, a) : p \notin Bound(NodeOf(g, i))
       /\ i % NodesPerEngine(g) = 0 =>
            a.dist.host = NodeOf(g, i) /\ \A p \in DistPortsOf(a) : p \notin a.ports

\* The port p is one of those drawn at place q.
DrawnFor(g, new, base, i, q, p) ==
  LET x == NodeIndex(g, i)
  IN  /\ q \in 1 .. Len(Asked(g, new, x))
      /\ DrawnAt(g, new, base, x)[q] <= p
      /\ p < DrawnAt(g, new, base, x)[q] + Asked(g, new, x)[q]

\* What a local rank takes was drawn at its places.
LEMMA TakesDrawn ==
  ASSUME NEW g, NEW new, Vacant(g, new), NEW base \in Nat, \A node : PortSet(Bound(node)), NEW i \in new,
         NEW a, MadeOf(g, new, base, i, a)
  PROVE  /\ \A p \in a.ports : p \in Nat /\ \E n \in 1 .. PortsEach(g) :
              DrawnFor(g, new, base, i, PortAt(g, new, i, n), p)
              /\ PortAt(g, new, i, n) \in 1 .. Here(g, new, NodeIndex(g, i)) * PortsEach(g)
         /\ i % NodesPerEngine(g) = 0 =>
              \A p \in DistPortsOf(a) : p \in Nat /\ DrawnFor(g, new, base, i, DistAt(g, new, i), p)
<1> DEFINE x == NodeIndex(g, i)
           d == DrawnAt(g, new, base, x)
           w == Asked(g, new, x)
           limit == BasePort(Allocate(g, new, base).cursors)
<1>1. x \in Indices(g, new)
  BY FirstIs
<1>2. AllDrawn(g, new, base, x, limit)
  <2> HIDE DEF x, limit
  <2> QED BY <1>1, AllAreDrawn DEF limit
<1>3. w \in Seq(Nat \ {0}) /\ d \in Seq(Nat) /\ Len(d) = Len(w)
  BY <1>2 DEF AllDrawn, Requested
<1>4. ASSUME NEW p \in a.ports
      PROVE  p \in Nat /\ \E n \in 1 .. PortsEach(g) :
               /\ DrawnFor(g, new, base, i, PortAt(g, new, i, n), p)
               /\ PortAt(g, new, i, n) \in 1 .. Here(g, new, x) * PortsEach(g)
  <2>1. PICK n \in 1 .. PortsEach(g) : p = d[PortAt(g, new, i, n)]
    BY DEF MadeOf
  <2> DEFINE q == PortAt(g, new, i, n)
  <2>2. q \in 1 .. Here(g, new, x) * PortsEach(g) /\ q \in 1 .. Len(w) /\ w[q] = 1
    BY DEF MadeOf
  <2> HIDE DEF q, d, w
  <2>3. p = d[q] /\ d[q] \in Nat
    BY <2>1, <2>2, <1>3 DEF q
  <2>4. p <= p /\ p < p + 1
    BY <2>3
  <2>5. DrawnFor(g, new, base, i, q, p)
    BY <2>2, <2>3, <2>4 DEF DrawnFor, d, w
  <2> QED BY <2>2, <2>3, <2>5 DEF q
<1>5. ASSUME i % NodesPerEngine(g) = 0, NEW p \in DistPortsOf(a)
      PROVE  p \in Nat /\ DrawnFor(g, new, base, i, DistAt(g, new, i), p)
  <2> DEFINE q == DistAt(g, new, i)
  <2>1. a.dist.port = d[q] /\ q \in 1 .. Len(w) /\ w[q] = DistPorts
    BY <1>5 DEF MadeOf
  <2>2. DistPorts \in Nat \ {0}
    BY LayoutFacts DEF Vacant
  <2> HIDE DEF q, d, w
  <2>3. d[q] \in Nat
    BY <2>1, <1>3
  <2> DEFINE from == d[q]
  <2>4. p \in from .. from + DistPorts - 1
    BY <2>1 DEF DistPortsOf
  <2> HIDE DEF from
  <2>5. p \in Nat /\ from <= p /\ p < from + DistPorts
    BY <2>2, <2>3, <2>4 DEF from
  <2>6. p \in Nat /\ d[q] <= p /\ p < d[q] + w[q]
    BY <2>1, <2>5 DEF from
  <2> QED BY <2>1, <2>6 DEF DrawnFor, d, w, q
<1> QED BY <1>4, <1>5

\* start_engines promises to each new engine what it needs.
LEMMA AddressesPromised ==
  ASSUME NEW g, NEW new, Vacant(g, new), NEW base \in Nat, \A node : PortSet(Bound(node)), NEW i \in new
  PROVE  Promised(g, i, Allocate(g, new, base).addr[i], base, BasePort(Allocate(g, new, base).cursors))
<1> DEFINE x == NodeIndex(g, i)
           f == FirstAt(g, new, x)
           d == DrawnAt(g, new, base, x)
           w == Asked(g, new, x)
           limit == BasePort(Allocate(g, new, base).cursors)
           a == Allocate(g, new, base).addr[i]
           node == NodeOf(g, i)
<1>1. x \in Indices(g, new) /\ f \in new /\ NodeIndex(g, f) = x
  BY FirstIs
<1>2. limit \in Nat /\ \A y \in Indices(g, new) : AllDrawn(g, new, base, y, limit)
  BY AllAreDrawn
<1>3. MadeOf(g, new, base, i, a)
  BY AddressMade
<1> HIDE DEF a, limit
<1>4. /\ \A p \in a.ports : p \in Nat /\ \E n \in 1 .. PortsEach(g) :
              /\ DrawnFor(g, new, base, i, PortAt(g, new, i, n), p)
              /\ PortAt(g, new, i, n) \in 1 .. Here(g, new, x) * PortsEach(g)
      /\ i % NodesPerEngine(g) = 0 =>
              \A p \in DistPortsOf(a) : p \in Nat /\ DrawnFor(g, new, base, i, DistAt(g, new, i), p)
  BY <1>3, TakesDrawn
<1>5. ASSUME NEW q, NEW p \in Nat, DrawnFor(g, new, base, i, q, p)
      PROVE  base <= p /\ p < limit /\ p \notin Bound(NodeOf(g, f))
  <2>1. q \in 1 .. Len(w) /\ d[q] <= p /\ p < d[q] + w[q]
    BY <1>5 DEF DrawnFor
  <2>2. AllDrawn(g, new, base, x, limit)
    BY <1>1, <1>2
  <2>3. w \in Seq(Nat \ {0}) /\ Requested(d, Bound(NodeOf(g, f)), base, w) /\ d[q] + w[q] <= limit
    BY <2>1, <2>2 DEF AllDrawn
  <2> HIDE DEF d, w, f
  <2>4. d[q] \in Nat /\ w[q] \in Nat /\ base <= d[q] /\ \A b \in Bound(NodeOf(g, f)) : ~(d[q] <= b /\ b < d[q] + w[q])
    BY <2>1, <2>3 DEF Requested
  <2> DEFINE y == d[q]
             z == w[q]
  <2>5. y \in Nat /\ z \in Nat /\ base <= y /\ y <= p /\ p < y + z /\ y + z <= limit
    BY <2>1, <2>3, <2>4
  <2>6. p \notin Bound(NodeOf(g, f))
    BY <2>1, <2>4
  <2> HIDE DEF y, z
  <2>7. base <= p /\ p < limit
    BY <2>5, <1>2
  <2> QED BY <2>6, <2>7
<1>6. ASSUME NEW p \in a.ports PROVE p \in Nat /\ base <= p /\ p < limit /\ p \notin Bound(NodeOf(g, f))
  BY <1>4, <1>5
<1>7. PortSet(a.ports)
  <2>1. a.ports \in SUBSET Nat /\ \A p \in a.ports : p <= limit
    BY <1>2, <1>6
  <2>2. IsFiniteSet(a.ports)
    BY <1>2, <2>1, FS_BoundedSetOfNaturals
  <2> QED BY <2>1, <2>2 DEF PortSet
<1>8. a.dist.port \in Nat /\ \A p \in DistPortsOf(a) : p \in Nat /\ base <= p /\ p < limit
  <2>1. PICK y \in Indices(g, new) : \E q \in 1 .. Len(Asked(g, new, y)) :
           a.dist.port = DrawnAt(g, new, base, y)[q] /\ Asked(g, new, y)[q] = DistPorts
    BY <1>3 DEF MadeOf
  <2> DEFINE v == Asked(g, new, y)
             e == DrawnAt(g, new, base, y)
  <2>2. PICK q \in 1 .. Len(v) : a.dist.port = e[q] /\ v[q] = DistPorts
    BY <2>1
  <2>3. v \in Seq(Nat \ {0}) /\ Requested(e, Bound(NodeOf(g, FirstAt(g, new, y))), base, v) /\ e[q] + v[q] <= limit
    BY <1>2 DEF AllDrawn
  <2> HIDE DEF v, e
  <2>4. e[q] \in Nat /\ v[q] \in Nat /\ base <= e[q]
    BY <2>3 DEF Requested
  <2> DEFINE from == a.dist.port
  <2>5. from \in Nat /\ base <= from /\ from + DistPorts <= limit /\ DistPorts \in Nat
    BY <2>2, <2>3, <2>4
  <2>6. DistPortsOf(a) = from .. from + DistPorts - 1
    BY DEF DistPortsOf
  <2> HIDE DEF from
  <2>7. \A p \in DistPortsOf(a) : p \in Nat /\ base <= p /\ p < limit
    BY <2>5, <2>6, <1>2
  <2> QED BY <2>5, <2>7 DEF from
<1>9. ASSUME Aligned(g) PROVE NodeOf(g, f) = node
  <2>1. ASSUME NEW j \in new PROVE NodeOf(g, j) = NodeOfGpu(g.gpu_offset) + NodeIndex(g, j)
    <3>1. j \in 0 .. NumEngines(g) - 1
      BY DEF Vacant
    <3> QED BY <3>1, <1>9, NodeOfRank DEF Vacant
  <2> QED BY <2>1, <1>1
<1>10. a.host = NodeOf(g, f)
  BY <1>3 DEF MadeOf
<1>11. ASSUME i % NodesPerEngine(g) = 0
       PROVE  /\ a.dist.host = NodeOf(g, f)
              /\ \A p \in DistPortsOf(a) : p \notin Bound(NodeOf(g, f)) /\ p \notin a.ports
  <2>1. a.dist.host = NodeOf(g, f)
    BY <1>3, <1>11 DEF MadeOf
  <2>2. ASSUME NEW p \in DistPortsOf(a) PROVE p \notin Bound(NodeOf(g, f)) /\ p \notin a.ports
    <3>1. p \in Nat /\ DrawnFor(g, new, base, i, DistAt(g, new, i), p)
      BY <1>4, <1>11
    <3>2. p \notin Bound(NodeOf(g, f))
      BY <3>1, <1>5
    <3>3. ASSUME p \in a.ports PROVE FALSE
      <4> DEFINE m == Here(g, new, x) * PortsEach(g)
                 q == DistAt(g, new, i)
      <4>1. PICK n \in 1 .. PortsEach(g) : /\ DrawnFor(g, new, base, i, PortAt(g, new, i, n), p)
                                            /\ PortAt(g, new, i, n) \in 1 .. m
        BY <3>3, <1>4
      <4> DEFINE k == PortAt(g, new, i, n)
      <4>2. k \in 1 .. Len(w) /\ d[k] <= p /\ p < d[k] + w[k] /\ q \in 1 .. Len(w) /\ d[q] <= p /\ p < d[q] + w[q]
        BY <3>1, <4>1 DEF DrawnFor
      <4>3. w \in Seq(Nat \ {0}) /\ Requested(d, Bound(NodeOf(g, f)), base, w)
        BY <1>1, <1>2 DEF AllDrawn
      <4>4. k = q
        <5> HIDE DEF k, q, w, d, f
        <5> QED BY <3>1, <4>2, <4>3, RequestsApart
      <4>5. q = m + (i - f) + 1
        BY DEF DistAt
      <4>6. i - f \in 0 .. Here(g, new, x) - 1 /\ i \in Nat /\ f \in Nat
        BY FirstIs
      <4>7. m \in Nat
        <5>1. k \in 1 .. m
          BY <4>1
        <5>2. Here(g, new, x) \in Int /\ PortsEach(g) \in {2, 3}
          <6>1. EnginesPerNode(g) \in Nat \ {0}
            BY GroupArith DEF Vacant
          <6>2. f % EnginesPerNode(g) \in Int
            <7> HIDE DEF f
            <7> QED BY <6>1, <4>6
          <6> QED BY <6>1, <6>2 DEF Here, PortsEach
        <5>3. m \in Int
          BY <5>2
        <5> HIDE DEF k, m
        <5> QED BY <5>1, <5>3
      <4>8. k \in 1 .. m
        BY <4>1
      <4> DEFINE nth == i - f
      <4>9. nth \in Nat
        <5> HIDE DEF nth, f
        <5>1. nth \in 0 .. Here(g, new, x) - 1
          BY <4>6 DEF nth
        <5> QED BY <5>1
      <4>10. q = m + nth + 1
        BY <4>5
      <4> HIDE DEF k, q, m, nth
      <4> QED BY <4>4, <4>7, <4>8, <4>9, <4>10
    <3> QED BY <3>2, <3>3
  <2> QED BY <2>1, <2>2
<1>12. \A p \in Wide(a) : p \in Nat /\ base <= p /\ p < limit
  BY <1>6, <1>8 DEF Wide
<1>13. ASSUME NEW p \in Takes(g, i, a) PROVE p \notin Bound(NodeOf(g, f))
  BY <1>6, <1>11 DEF Takes
<1> HIDE DEF f, node
<1>14. Aligned(g) =>
       /\ a.host = node
       /\ \A p \in Takes(g, i, a) : p \notin Bound(node)
       /\ i % NodesPerEngine(g) = 0 => a.dist.host = node /\ \A p \in DistPortsOf(a) : p \notin a.ports
  BY <1>9, <1>10, <1>11, <1>13
<1> QED BY <1>7, <1>8, <1>12, <1>14 DEF Promised, limit, a, node

\* And to each its own.
LEMMA AddressesApart ==
  ASSUME NEW g, NEW new, Vacant(g, new), NEW base \in Nat, \A node : PortSet(Bound(node)),
         NEW i \in new, NEW j \in new, i # j, NodeIndex(g, i) = NodeIndex(g, j),
         NEW p \in Takes(g, i, Allocate(g, new, base).addr[i])
  PROVE  p \notin Takes(g, j, Allocate(g, new, base).addr[j])
<1> SUFFICES ASSUME p \in Takes(g, j, Allocate(g, new, base).addr[j]) PROVE FALSE
  OBVIOUS
<1> DEFINE x == NodeIndex(g, i)
           f == FirstAt(g, new, x)
           d == DrawnAt(g, new, base, x)
           w == Asked(g, new, x)
           limit == BasePort(Allocate(g, new, base).cursors)
           PE == PortsEach(g)
           m == Here(g, new, x) * PE
           Place(k, q) == \/ q \in 1 .. m /\ \E n \in 1 .. PE : q = PE * (k - f) + n
                          \/ q = m + (k - f) + 1
<1>1. x \in Indices(g, new) /\ f \in Nat /\ i \in Nat /\ j \in Nat
      /\ i - f \in 0 .. Here(g, new, x) - 1 /\ j - f \in 0 .. Here(g, new, x) - 1
  <2>1. x \in Indices(g, new) /\ f \in Nat /\ i \in Nat /\ i - f \in 0 .. Here(g, new, x) - 1
    BY FirstIs
  <2>2. x = NodeIndex(g, j)
    OBVIOUS
  <2> HIDE DEF x
  <2>3. j \in Nat /\ j - f \in 0 .. Here(g, new, x) - 1
    BY <2>2, FirstIs
  <2> QED BY <2>1, <2>3
<1>2. w \in Seq(Nat \ {0}) /\ Requested(d, Bound(NodeOf(g, f)), base, w)
  BY <1>1, AllAreDrawn DEF AllDrawn
<1>3. ASSUME NEW k \in new, NodeIndex(g, k) = x, p \in Takes(g, k, Allocate(g, new, base).addr[k])
      PROVE  p \in Nat /\ \E q \in 1 .. Len(w) : d[q] <= p /\ p < d[q] + w[q] /\ Place(k, q)
  <2> DEFINE a == Allocate(g, new, base).addr[k]
  <2>1. MadeOf(g, new, base, k, a)
    BY AddressMade
  <2> HIDE DEF a
  <2>2. /\ \A r \in a.ports : r \in Nat /\ \E n \in 1 .. PE :
              /\ DrawnFor(g, new, base, k, PortAt(g, new, k, n), r)
              /\ PortAt(g, new, k, n) \in 1 .. Here(g, new, NodeIndex(g, k)) * PE
        /\ k % NodesPerEngine(g) = 0 =>
              \A r \in DistPortsOf(a) : r \in Nat /\ DrawnFor(g, new, base, k, DistAt(g, new, k), r)
    BY <2>1, TakesDrawn
  <2>3. CASE p \in a.ports
    <3>1. p \in Nat
      BY <2>2, <2>3
    <3>2. PICK n \in 1 .. PE : /\ DrawnFor(g, new, base, k, PortAt(g, new, k, n), p)
                                /\ PortAt(g, new, k, n) \in 1 .. m
      BY <2>2, <2>3, <1>3
    <3>3. PortAt(g, new, k, n) = PE * (k - f) + n
      BY <1>3 DEF PortAt
    <3> DEFINE q == PortAt(g, new, k, n)
    <3>4. q \in 1 .. Len(w) /\ d[q] <= p /\ p < d[q] + w[q]
      BY <3>2, <1>3 DEF DrawnFor
    <3> HIDE DEF q, w, d, m, f, PE
    <3> QED BY <3>1, <3>2, <3>3, <3>4 DEF q
  <2>4. CASE p \notin a.ports
    <3>1. k % NodesPerEngine(g) = 0 /\ p \in DistPortsOf(a)
      BY <1>3, <2>4 DEF Takes, a
    <3>2. p \in Nat /\ DrawnFor(g, new, base, k, DistAt(g, new, k), p)
      BY <2>2, <3>1
    <3>3. DistAt(g, new, k) = m + (k - f) + 1
      BY <1>3 DEF DistAt
    <3> DEFINE q == DistAt(g, new, k)
    <3>4. q \in 1 .. Len(w) /\ d[q] <= p /\ p < d[q] + w[q]
      BY <3>2, <1>3 DEF DrawnFor
    <3> HIDE DEF q, w, d, m, f, PE
    <3> QED BY <3>2, <3>3, <3>4 DEF q
  <2> QED BY <2>3, <2>4
<1>4. PICK q \in 1 .. Len(w) : d[q] <= p /\ p < d[q] + w[q] /\ Place(i, q)
  BY <1>3
<1>5. PICK r \in 1 .. Len(w) : d[r] <= p /\ p < d[r] + w[r] /\ Place(j, r)
  BY <1>3
<1>6. p \in Nat
  BY <1>3
<1>7. q = r
  <2> HIDE DEF w, d, f, Place
  <2> QED BY <1>2, <1>4, <1>5, <1>6, RequestsApart
<1> DEFINE a == i - f
           b == j - f
<1>8. a \in Nat /\ b \in Nat /\ a # b /\ PE \in {2, 3} /\ m \in Int
  <2>0. PE \in {2, 3}
    BY DEF PortsEach
  <2>1. EnginesPerNode(g) \in Nat \ {0}
    BY GroupArith DEF Vacant
  <2>2. f % EnginesPerNode(g) \in Int
    <3> HIDE DEF f
    <3> QED BY <2>1, <1>1
  <2>3. Here(g, new, x) \in Int
    BY <2>1, <2>2 DEF Here
  <2> DEFINE here == Here(g, new, x)
  <2>4. m \in Int
    <3>1. m = here * PE
      OBVIOUS
    <3> HIDE DEF here, PE, m
    <3>2. here * PE \in Int
      BY <2>0, <2>3 DEF here
    <3> QED BY <3>1, <3>2
  <2>5. a \in 0 .. here - 1 /\ b \in 0 .. here - 1 /\ a # b
    <3> HIDE DEF f, here
    <3> QED BY <1>1 DEF here
  <2> HIDE DEF a, b, here
  <2> QED BY <2>0, <2>4, <2>5
<1>9. \/ q \in 1 .. m /\ \E n \in 1 .. PE : q = PE * a + n
      \/ q = m + a + 1
  BY <1>4
<1>10. \/ q \in 1 .. m /\ \E n \in 1 .. PE : q = PE * b + n
       \/ q = m + b + 1
  BY <1>5, <1>7
<1> HIDE DEF a, b, m, PE, f, Place
<1>11. CASE q \in 1 .. m
  <2>1. PICK n \in 1 .. PE : q = PE * a + n
    BY <1>8, <1>9, <1>11
  <2>2. PICK l \in 1 .. PE : q = PE * b + l
    BY <1>8, <1>10, <1>11
  <2>3. CASE PE = 2
    BY <2>1, <2>2, <2>3, <1>8
  <2>4. CASE PE = 3
    BY <2>1, <2>2, <2>4, <1>8
  <2> QED BY <2>3, <2>4, <1>8
<1>12. CASE q \notin 1 .. m
  <2>1. q = m + a + 1 /\ q = m + b + 1
    BY <1>9, <1>10, <1>12
  <2> QED BY <2>1, <1>8
<1> QED BY <1>11, <1>12

-----------------------------------------------------------------------------
(* What holds of the promises. *)

\* Where the next group searches.
NextPort == BasePort(port_cursors)

\* A slot of a group.
Slot(e) ==
  /\ e.status \in {"none", "init", "up", "failed"}
  /\ e.ports \subseteq Nat
  /\ e.status = "none" => e = NoEngine
  /\ e.status = "init" => e = [status |-> "init", ports |-> {}, addr |-> e.addr]

\* An engine has its address and no server yet; a group has no such engine, and none that
\* failed; two slots are nodes of one engine.
Waits(k, s) == all_engines[k][s].status = "init"
Settled(k) == \A s \in DOMAIN all_engines[k] : all_engines[k][s].status \in {"none", "up"}
SameEngine(g, s, t) == (s - 1) \div NodesPerEngine(g) = (t - 1) \div NodesPerEngine(g)

\* Two engines that wait are promised different ports where they could meet.
Distinct(g, k1, s1, a1, k2, s2, a2) ==
  /\ k1 # k2 => \A p \in Wide(a1) : p \notin Wide(a2)
  /\ k1 = k2 /\ s1 # s2 /\ NodeIndex(g, s1 - 1) = NodeIndex(g, s2 - 1) =>
       \A p \in Takes(g, s1 - 1, a1) : p \notin Takes(g, s2 - 1, a2)

\* Every slot is one of those; their ports are bounded.
SlotsKnown == \A k \in DOMAIN groups : \A s \in DOMAIN all_engines[k] : Slot(all_engines[k][s])

PortsBounded ==
  \E m \in Nat : \A k \in DOMAIN groups : \A s \in DOMAIN all_engines[k] :
    \A p \in all_engines[k][s].ports : p <= m

\* An engine is missing as a whole.
WholeEngines ==
  \A k \in DOMAIN groups : \A s, t \in DOMAIN all_engines[k] :
    SameEngine(groups[k], s, t) => (all_engines[k][s] = NoEngine <=> all_engines[k][t] = NoEngine)

\* What a waiting engine was promised holds; and no two of them were promised the same.
PromisesHold ==
  \A k \in DOMAIN groups : \A s \in DOMAIN all_engines[k] :
    Waits(k, s) => Promised(groups[k], s - 1, all_engines[k][s].addr, 0, NextPort)

PromisesApart ==
  \A k1, k2 \in DOMAIN groups : \A s1 \in DOMAIN all_engines[k1], s2 \in DOMAIN all_engines[k2] :
    Waits(k1, s1) /\ Waits(k2, s2) =>
      Distinct(groups[k1], k1, s1, all_engines[k1][s1].addr, k2, s2, all_engines[k2][s2].addr)

\* Only the groups that are being recovered wait for engines.
WhoWaits ==
  /\ phase = "run" => \A k \in DOMAIN groups : Settled(k)
  /\ phase = "recover" => todo \subseteq Updatable /\ \A k \in DOMAIN groups \ Updatable : Settled(k)

\* All that holds of the promises.
Promises ==
  /\ NextPort \in Nat /\ SlotsKnown /\ PortsBounded /\ WholeEngines
  /\ PromisesHold /\ PromisesApart /\ AddressesHold

\* What is bound on a node.
LEMMA BoundIs ==
  ASSUME NEW node, NEW p
  PROVE  p \in Bound(node) <=>
           \/ p \in layout.busy
           \/ \E k \in DOMAIN groups : \E s \in DOMAIN all_engines[k] :
                NodeOf(groups[k], s - 1) = node /\ p \in all_engines[k][s].ports
BY DEF Bound

\* It is a finite set of ports.
LEMMA BoundPortSet ==
  ASSUME Placed, SlotsKnown, PortsBounded, NEW node
  PROVE  PortSet(Bound(node))
<1>1. layout.busy \subseteq Nat /\ IsFiniteSet(layout.busy)
  BY LayoutFacts DEF Placed
<1>2. PICK m \in Nat : \A k \in DOMAIN groups : \A s \in DOMAIN all_engines[k] :
                         \A p \in all_engines[k][s].ports : p <= m
  BY DEF PortsBounded
<1> DEFINE S == {p \in Bound(node) : p \notin layout.busy}
<1>3. ASSUME NEW p \in S PROVE p \in Nat /\ p <= m
  <2>1. PICK k \in DOMAIN groups : \E s \in DOMAIN all_engines[k] : p \in all_engines[k][s].ports
    BY BoundIs
  <2>2. PICK s \in DOMAIN all_engines[k] : p \in all_engines[k][s].ports
    BY <2>1
  <2>3. all_engines[k][s].ports \subseteq Nat
    BY DEF SlotsKnown, Slot
  <2> QED BY <2>2, <2>3, <1>2
<1>4. S \in SUBSET Nat
  BY <1>3
<1> HIDE DEF S
<1>5. IsFiniteSet(S)
  BY <1>3, <1>4, FS_BoundedSetOfNaturals
<1>6. IsFiniteSet(S \cup layout.busy)
  BY <1>1, <1>5, FS_Union
<1>7. Bound(node) = S \cup layout.busy
  <2>1. \A p \in layout.busy : p \in Bound(node)
    BY BoundIs
  <2> QED BY <2>1 DEF S
<1> QED BY <1>1, <1>4, <1>6, <1>7 DEF PortSet

\* What is said of the layout stays true.
LEMMA SameLayout ==
  ASSUME layout' = layout
  PROVE  /\ \A g : Aligned(g)' <=> Aligned(g)
         /\ \A g, i : NodeOf(g, i)' = NodeOf(g, i)
         /\ \A g, i : NodeIndex(g, i)' = NodeIndex(g, i)
         /\ \A g : NodesPerEngine(g)' = NodesPerEngine(g)
         /\ \A g, new : Vacant(g, new)' <=> Vacant(g, new)
<1>1. Bundles' = Bundles /\ RolloutOffset' = RolloutOffset
  BY DEF Bundles, RolloutOffset
<1>2. \A gpu : NodeOfGpu(gpu)' = NodeOfGpu(gpu)
  BY <1>1 DEF NodeOfGpu
<1>3. \A g : LocalGpus(g)' = LocalGpus(g) /\ NodesPerEngine(g)' = NodesPerEngine(g)
             /\ EnginesPerNode(g)' = EnginesPerNode(g)
  BY DEF LocalGpus, NodesPerEngine, EnginesPerNode
<1>4. \A g : NumEngines(g)' = NumEngines(g)
  BY <1>3 DEF NumEngines
<1>5. \A gpu : FirstOfNode(gpu)' <=> FirstOfNode(gpu)
  BY <1>1, <1>2 DEF FirstOfNode
<1>6. \A g : Aligned(g)' <=> Aligned(g)
  BY <1>2, <1>3, <1>4, <1>5 DEF Aligned
<1>7. \A g, i : NodeOf(g, i)' = NodeOf(g, i)
  BY <1>2, <1>3 DEF NodeOf, GpuOf
<1>8. \A g, i : NodeIndex(g, i)' = NodeIndex(g, i)
  BY <1>3 DEF NodeIndex
<1>9. \A g : Sized(g)' <=> Sized(g)
  BY DEF Sized
<1>10. \A g, new : Vacant(g, new)' <=> Vacant(g, new)
  BY <1>1, <1>3, <1>4, <1>9 DEF Vacant
<1> QED BY <1>3, <1>6, <1>7, <1>8, <1>10

\* A promise outlives what takes no port of it.
LEMMA PromiseKept ==
  ASSUME layout' = layout, NEW g, NEW i, NEW a, NEW low \in Nat, NEW limit \in Nat, NEW later \in Nat,
         limit <= later, Promised(g, i, a, low, limit),
         Aligned(g) => \A p \in Takes(g, i, a) : p \in Bound(NodeOf(g, i))' => p \in Bound(NodeOf(g, i))
  PROVE  Promised(g, i, a, 0, later)'
<1>1. \A x : Wide(x)' = Wide(x) /\ DistPortsOf(x)' = DistPortsOf(x)
  BY DEF Wide, DistPortsOf
<1>2. Takes(g, i, a)' = Takes(g, i, a)
  BY <1>1, SameLayout DEF Takes
<1>3. PortSet(a.ports) /\ a.dist.port \in Nat
  BY DEF Promised
<1>4. \A p \in Wide(a) : p \in Nat /\ 0 <= p /\ p < later
  <2> SUFFICES ASSUME NEW p \in Wide(a) PROVE p \in Nat /\ 0 <= p /\ p < later
    OBVIOUS
  <2>1. p \in Nat /\ p < limit
    BY DEF Promised
  <2> QED BY <2>1
<1> DEFINE node == NodeOf(g, i)
<1>5. (NodeOf(g, i))' = node /\ (Aligned(g)' <=> Aligned(g)) /\ NodesPerEngine(g)' = NodesPerEngine(g)
  BY SameLayout
<1>6. ASSUME Aligned(g)
      PROVE  /\ a.host = node
             /\ \A p \in Takes(g, i, a) : p \notin Bound(NodeOf(g, i))'
             /\ i % NodesPerEngine(g) = 0 =>
                  a.dist.host = node /\ \A p \in DistPortsOf(a) : p \notin a.ports
  BY <1>6 DEF Promised
<1> HIDE DEF node
<1> QED BY <1>1, <1>2, <1>3, <1>4, <1>5, <1>6 DEF Promised, PortSet

\* Nothing is bound that was not, if no engine gets a port.
LEMMA BoundShrinks ==
  ASSUME layout' = layout,
         \A k \in DOMAIN groups' : \A s \in DOMAIN all_engines'[k] : \A p \in all_engines'[k][s].ports :
           /\ k \in DOMAIN groups /\ groups'[k] = groups[k] /\ s \in DOMAIN all_engines[k]
           /\ p \in all_engines[k][s].ports
  PROVE  \A node, p : p \in Bound(node)' => p \in Bound(node)
<1> SUFFICES ASSUME NEW node, NEW p, p \in Bound(node)' PROVE p \in Bound(node)
  OBVIOUS
<1>1. \/ p \in layout'.busy
      \/ \E k \in DOMAIN groups' : \E s \in DOMAIN all_engines'[k] :
           NodeOf(groups[k], s - 1)' = node /\ p \in all_engines'[k][s].ports
  BY DEF Bound
<1>2. CASE p \in layout'.busy
  BY <1>2, BoundIs
<1>3. CASE \E k \in DOMAIN groups' : \E s \in DOMAIN all_engines'[k] :
             NodeOf(groups[k], s - 1)' = node /\ p \in all_engines'[k][s].ports
  <2>1. PICK k \in DOMAIN groups' : \E s \in DOMAIN all_engines'[k] :
             NodeOf(groups[k], s - 1)' = node /\ p \in all_engines'[k][s].ports
    BY <1>3
  <2>2. PICK s \in DOMAIN all_engines'[k] : NodeOf(groups[k], s - 1)' = node /\ p \in all_engines'[k][s].ports
    BY <2>1
  <2>3. /\ k \in DOMAIN groups /\ groups'[k] = groups[k] /\ s \in DOMAIN all_engines[k]
        /\ p \in all_engines[k][s].ports
    BY <2>2
  <2>4. NodeOf(groups[k], s - 1)' = NodeOf(groups[k], s - 1)
    <3> DEFINE g == groups[k]
               i == s - 1
    <3>1. Bundles' = Bundles /\ RolloutOffset' = RolloutOffset
      BY DEF Bundles, RolloutOffset
    <3> QED BY <2>3, <3>1 DEF NodeOf, GpuOf, NodeOfGpu, LocalGpus
  <2> QED BY <2>2, <2>3, <2>4, BoundIs
<1> QED BY <1>1, <1>2, <1>3

\* Local rank i of group K is given an engine e, with an address behind everything promised.
Offered(K, new, e, i) ==
  /\ i \in new
  /\ e = [status |-> "init", ports |-> {}, addr |-> Allocate(groups'[K], new, NextPort).addr[i]]

\* A slot that stays as it is.
Remains(k, s) ==
  /\ k \in DOMAIN groups /\ s \in DOMAIN all_engines[k] /\ all_engines'[k][s] = all_engines[k][s]

\* Group K is offered engines, and the others keep theirs; K has all of its engines then.
Offers(K, new) ==
  /\ layout' = layout
  /\ \A k \in DOMAIN groups : k \in DOMAIN groups' /\ groups'[k] = groups[k]
  /\ \/ new = {} /\ NextPort' = NextPort
     \/ /\ Vacant(groups'[K], new)
        /\ NextPort' = BasePort(Allocate(groups'[K], new, NextPort).cursors)
  /\ \A k \in DOMAIN groups' : \A s \in DOMAIN all_engines'[k] :
       /\ s \in Nat
       /\ \/ k = K /\ Offered(K, new, all_engines'[k][s], s - 1)
          \/ Remains(k, s) /\ (k = K => all_engines[k][s] # NoEngine)

\* Then the next search starts behind it all.
LEMMA OffersMove ==
  ASSUME Placed, Promises, NEW K, NEW new, Offers(K, new)
  PROVE  /\ NextPort' \in Nat /\ NextPort \in Nat /\ NextPort <= NextPort'
         /\ \A node, p : p \in Bound(node)' => p \in Bound(node)
         /\ \A i \in new : Promised(groups'[K], i, Allocate(groups'[K], new, NextPort).addr[i], NextPort, NextPort')
<1> DEFINE g == groups'[K]
           given == Allocate(g, new, NextPort)
<1>1. \A node : PortSet(Bound(node))
  BY BoundPortSet DEF Promises
<1>2. NextPort \in Nat
  BY DEF Promises
<1>3. \A node, p : p \in Bound(node)' => p \in Bound(node)
  <2>1. ASSUME NEW k \in DOMAIN groups', NEW s \in DOMAIN all_engines'[k], NEW p \in all_engines'[k][s].ports
        PROVE  /\ k \in DOMAIN groups /\ groups'[k] = groups[k] /\ s \in DOMAIN all_engines[k]
               /\ p \in all_engines[k][s].ports
    <3>1. \/ Offered(K, new, all_engines'[k][s], s - 1)
          \/ Remains(k, s)
      BY DEF Offers
    <3>2. ~Offered(K, new, all_engines'[k][s], s - 1)
      BY DEF Offered
    <3> QED BY <3>1, <3>2 DEF Remains, Offers
  <2>2. layout' = layout
    BY DEF Offers
  <2> QED BY <2>1, <2>2, BoundShrinks
<1>4. CASE new = {}
  <2>1. NextPort' = NextPort
    <3>1. ~Vacant(g, new)
      BY <1>4 DEF Vacant
    <3> QED BY <3>1 DEF Offers
  <2> QED BY <1>2, <1>3, <1>4, <2>1
<1>5. CASE new # {}
  <2>1. Vacant(g, new) /\ NextPort' = BasePort(given.cursors)
    BY <1>5 DEF Offers
  <2>2. NextPort' \in Nat
    BY <1>1, <1>2, <2>1, AllAreDrawn
  <2>3. ASSUME NEW i \in new PROVE Promised(g, i, given.addr[i], NextPort, NextPort')
    BY <1>1, <1>2, <2>1, AddressesPromised
  <2>4. PICK i : i \in new
    BY <1>5
  <2> DEFINE a == given.addr[i]
  <2>5. Promised(g, i, a, NextPort, NextPort')
    BY <2>3, <2>4
  <2> HIDE DEF a
  <2>6. a.dist.port \in Nat /\ \A p \in Wide(a) : p \in Nat /\ NextPort <= p /\ p < NextPort'
    BY <2>5 DEF Promised
  <2>7. DistPorts \in Nat \ {0}
    BY <2>1, LayoutFacts DEF Vacant
  <2>8. a.dist.port \in Wide(a)
    <3> DEFINE from == a.dist.port
    <3>1. from \in Nat
      BY <2>6
    <3> HIDE DEF from
    <3>2. from \in from .. from + DistPorts - 1
      BY <3>1, <2>7
    <3> QED BY <3>2 DEF Wide, DistPortsOf, from
  <2>9. NextPort <= NextPort'
    <3> DEFINE from == a.dist.port
               x == NextPort
               y == NextPort'
    <3>1. from \in Nat /\ x <= from /\ from < y /\ x \in Nat /\ y \in Nat
      BY <2>6, <2>8, <2>2, <1>2
    <3> HIDE DEF from, x, y
    <3>2. x <= y
      BY <3>1
    <3> QED BY <3>2 DEF x, y
  <2> QED BY <1>2, <1>3, <2>2, <2>3, <2>9
<1> QED BY <1>4, <1>5

\* What a slot is after an offer: one that is promised something, or what it was.
LEMMA OfferedSlot ==
  ASSUME NEW K, NEW new, Offers(K, new), NEW k \in DOMAIN groups', NEW s \in DOMAIN all_engines'[k]
  PROVE  \/ /\ k = K /\ Offered(K, new, all_engines'[k][s], s - 1)
            /\ all_engines'[k][s].status = "init" /\ all_engines'[k][s].ports = {}
            /\ all_engines'[k][s].addr = Allocate(groups'[K], new, NextPort).addr[s - 1]
         \/ /\ Remains(k, s) /\ groups'[k] = groups[k]
            /\ k = K => all_engines[k][s] # NoEngine
BY DEF Offers, Offered, Remains

\* The offer of engines keeps the promises.
LEMMA OffersKeep ==
  ASSUME Placed, Promises, NEW K, NEW new, Offers(K, new)
  PROVE  Promises'
<1> DEFINE g == groups'[K]
           base == NextPort
           above == NextPort'
           e(k, s) == all_engines'[k][s]
           Gets(k, s) == k = K /\ Offered(K, new, e(k, s), s - 1)
           Stays(k, s) == Remains(k, s) /\ groups'[k] = groups[k] /\ (k = K => all_engines[k][s] # NoEngine)
<1>1. /\ above \in Nat /\ base \in Nat /\ base <= above
      /\ \A node, p : p \in Bound(node)' => p \in Bound(node)
      /\ \A i \in new : Promised(g, i, Allocate(g, new, base).addr[i], base, above)
  BY OffersMove
<1>2. layout' = layout
  BY DEF Offers
<1>3. ASSUME NEW k \in DOMAIN groups', NEW s \in DOMAIN all_engines'[k]
      PROVE  \/ /\ Gets(k, s)
                /\ e(k, s).status = "init" /\ e(k, s).ports = {}
                /\ e(k, s).addr = Allocate(g, new, base).addr[s - 1]
             \/ Stays(k, s)
  BY OfferedSlot
<1>4. SlotsKnown'
  <2> SUFFICES ASSUME NEW k \in DOMAIN groups', NEW s \in DOMAIN all_engines'[k]
               PROVE  Slot(all_engines[k][s])'
    BY DEF SlotsKnown
  <2>0. \A r : Slot(r) => Slot(r)'
    BY DEF Slot, NoEngine
  <2>1. CASE Gets(k, s)
    <3> DEFINE a == Allocate(g, new, base).addr[s - 1]
               r == all_engines'[k][s]
    <3>1. r = [status |-> "init", ports |-> {}, addr |-> a]
      BY <2>1 DEF Offered
    <3> HIDE DEF a, r
    <3>2. r.status = "init" /\ r.ports = {} /\ r.addr = a
      BY <3>1
    <3>3. Slot(r)
      BY <3>1, <3>2 DEF Slot
    <3> QED BY <3>3, <2>0 DEF r
  <2>2. CASE Stays(k, s)
    BY <2>0, <2>2 DEF Remains, Promises, SlotsKnown
  <2> QED BY <1>3, <2>1, <2>2
<1>5. PortsBounded'
  <2>1. PICK m \in Nat : \A k \in DOMAIN groups : \A s \in DOMAIN all_engines[k] :
                           \A p \in all_engines[k][s].ports : p <= m
    BY DEF Promises, PortsBounded
  <2>2. ASSUME NEW k \in DOMAIN groups', NEW s \in DOMAIN all_engines'[k], NEW p \in all_engines'[k][s].ports
        PROVE  p <= m
    <3>1. CASE Stays(k, s)
      BY <3>1, <2>1 DEF Remains
    <3>2. CASE ~Stays(k, s)
      BY <3>2, <1>3
    <3> QED BY <3>1, <3>2
  <2> QED BY <2>2 DEF PortsBounded
<1>6. WholeEngines'
  <2> SUFFICES ASSUME NEW k \in DOMAIN groups', NEW s \in DOMAIN all_engines'[k], NEW t \in DOMAIN all_engines'[k],
                      SameEngine(groups[k], s, t)'
               PROVE  all_engines'[k][s] = NoEngine <=> all_engines'[k][t] = NoEngine
    BY DEF WholeEngines, NoEngine
  <2>1. CASE k = K
    <3>1. ASSUME NEW r \in DOMAIN all_engines'[k] PROVE all_engines'[k][r] # NoEngine
      <4>1. Gets(k, r) => all_engines'[k][r] # NoEngine
        <5>1. NoEngine.status # "init"
          BY DEF NoEngine
        <5> QED BY <5>1 DEF Offered
      <4>2. Stays(k, r) => all_engines'[k][r] # NoEngine
        BY <2>1 DEF Remains
      <4> QED BY <1>3, <4>1, <4>2
    <3> QED BY <3>1
  <2>2. CASE k # K
    <3>1. Stays(k, s) /\ Stays(k, t)
      BY <1>3, <2>2
    <3>2. SameEngine(groups[k], s, t)
      BY <3>1, <1>2, SameLayout DEF SameEngine
    <3>3. all_engines[k][s] = NoEngine <=> all_engines[k][t] = NoEngine
      BY <3>1, <3>2 DEF Remains, Promises, WholeEngines
    <3> QED BY <3>1, <3>3 DEF Remains
  <2> QED BY <2>1, <2>2
<1>7. AddressesHold'
  <2> SUFFICES ASSUME NEW k \in DOMAIN groups', NEW s \in DOMAIN all_engines'[k], all_engines'[k][s].status = "failed"
               PROVE  ~Aligned(groups[k])'
    BY DEF AddressesHold
  <2>1. Stays(k, s)
    BY <1>3
  <2>2. ~Aligned(groups[k])
    BY <2>1 DEF Remains, Promises, AddressesHold
  <2> QED BY <2>1, <2>2, <1>2, SameLayout
<1>8. ASSUME NEW k \in DOMAIN groups', NEW s \in DOMAIN all_engines'[k], Waits(k, s)'
      PROVE  /\ Gets(k, s) => Promised(groups'[k], s - 1, e(k, s).addr, base, above)
             /\ Stays(k, s) => Promised(groups'[k], s - 1, e(k, s).addr, 0, base)
             /\ Promised(groups[k], s - 1, all_engines[k][s].addr, 0, NextPort)'
  <2>1. Gets(k, s) => Promised(groups'[k], s - 1, e(k, s).addr, base, above)
    <3> SUFFICES ASSUME Gets(k, s) PROVE Promised(groups'[k], s - 1, e(k, s).addr, base, above)
      OBVIOUS
    <3>1. k = K /\ s - 1 \in new /\ e(k, s).addr = Allocate(g, new, base).addr[s - 1]
      BY DEF Offered
    <3> HIDE DEF e, base, above
    <3> QED BY <3>1, <1>1
  <2>2. Stays(k, s) => Promised(groups'[k], s - 1, e(k, s).addr, 0, base)
    BY <1>8 DEF Remains, Promises, PromisesHold, Waits
  <2>3. PICK n \in Nat : n = above
    BY <1>1
  <2> DEFINE i == s - 1
             h == groups'[k]
             a == e(k, s).addr
  <2>4. \E low \in Nat, limit \in Nat : limit <= n /\ Promised(h, i, a, low, limit)
    <3>1. CASE Gets(k, s)
      BY <3>1, <2>1, <2>3, <1>1
    <3>2. CASE Stays(k, s)
      BY <3>2, <2>2, <2>3, <1>1
    <3> QED BY <3>1, <3>2, <1>3
  <2>5. PICK low \in Nat : \E limit \in Nat : limit <= n /\ Promised(h, i, a, low, limit)
    BY <2>4
  <2>6. PICK limit \in Nat : limit <= n /\ Promised(h, i, a, low, limit)
    BY <2>5
  <2> DEFINE Later(x, j, b) == Promised(x, j, b, 0, n)'
  <2>7. ASSUME NEW x, NEW j, NEW b, Promised(x, j, b, low, limit) PROVE Later(x, j, b)
    <3>1. Aligned(x) => \A p \in Takes(x, j, b) : p \in Bound(NodeOf(x, j))' => p \in Bound(NodeOf(x, j))
      BY <1>1, <1>2, SameLayout
    <3>2. limit <= n
      BY <2>6
    <3> QED BY <3>1, <3>2, <2>7, <1>2, PromiseKept
  <2>8. \A x, j, b : Promised(x, j, b, low, limit) => Promised(x, j, b, 0, n)'
    BY <2>7
  <2>9. Promised(groups[k], s - 1, all_engines[k][s].addr, 0, NextPort)'
    BY <2>3, <2>6, <2>8
  <2> QED BY <2>1, <2>2, <2>9
<1>9. PromisesHold'
  <2> SUFFICES ASSUME NEW k \in DOMAIN groups', NEW s \in DOMAIN all_engines'[k], Waits(k, s)'
               PROVE  Promised(groups[k], s - 1, all_engines[k][s].addr, 0, NextPort)'
    BY DEF PromisesHold
  <2> QED BY <1>8
<1> DEFINE D(h, k1, s1, k2, s2) == Distinct(h, k1, s1, e(k1, s1).addr, k2, s2, e(k2, s2).addr)
<1>10. ASSUME NEW k1 \in DOMAIN groups', NEW s1 \in DOMAIN all_engines'[k1],
              NEW k2 \in DOMAIN groups', NEW s2 \in DOMAIN all_engines'[k2], Waits(k1, s1)', Waits(k2, s2)'
       PROVE  D(groups'[k1], k1, s1, k2, s2)
  <2>1. \A h, i, a, p : p \in Takes(h, i, a) => p \in Wide(a)
    BY DEF Takes, Wide
  <2> DEFINE a1 == e(k1, s1).addr
             a2 == e(k2, s2).addr
  <2>2. /\ Gets(k1, s1) => \A p \in Wide(a1) : p \in Nat /\ base <= p
        /\ Stays(k1, s1) => \A p \in Wide(a1) : p \in Nat /\ p < base
    BY <1>8, <1>10 DEF Promised
  <2>3. /\ Gets(k2, s2) => \A p \in Wide(a2) : p \in Nat /\ base <= p
        /\ Stays(k2, s2) => \A p \in Wide(a2) : p \in Nat /\ p < base
    BY <1>8, <1>10 DEF Promised
  <2>4. CASE (Gets(k1, s1) /\ Stays(k2, s2)) \/ (Stays(k1, s1) /\ Gets(k2, s2))
    <3>1. \A p \in Wide(a1) : p \notin Wide(a2)
      <4> HIDE DEF a1, a2, base, Gets, Stays
      <4> QED BY <2>2, <2>3, <2>4, <1>1
    <3> HIDE DEF e, Gets, Stays
    <3> QED BY <2>1, <3>1 DEF Distinct
  <2>5. CASE Gets(k1, s1) /\ Gets(k2, s2)
    <3>1. k1 = K /\ k2 = K /\ s1 - 1 \in new /\ s2 - 1 \in new
          /\ a1 = Allocate(g, new, base).addr[s1 - 1] /\ a2 = Allocate(g, new, base).addr[s2 - 1]
      BY <2>5 DEF Offered
    <3>2. ASSUME s1 # s2, NodeIndex(g, s1 - 1) = NodeIndex(g, s2 - 1), NEW p \in Takes(g, s1 - 1, a1)
          PROVE  p \notin Takes(g, s2 - 1, a2)
      <4> DEFINE i == s1 - 1
                 j == s2 - 1
      <4>1. i \in new /\ j \in new
        BY <3>1
      <4>2. Vacant(g, new)
        BY <4>1 DEF Offers, Vacant
      <4>3. s1 \in Nat /\ s2 \in Nat
        BY DEF Offers
      <4>4. i # j
        BY <4>3, <3>2
      <4>5. \A node : PortSet(Bound(node))
        BY BoundPortSet DEF Promises
      <4>6. p \in Takes(g, i, Allocate(g, new, base).addr[i])
        BY <3>1, <3>2
      <4>7. NodeIndex(g, i) = NodeIndex(g, j)
        BY <3>2
      <4> HIDE DEF i, j
      <4>8. p \notin Takes(g, j, Allocate(g, new, base).addr[j])
        BY <4>1, <4>2, <4>4, <4>5, <4>6, <4>7, <1>1, AddressesApart
      <4> QED BY <4>8, <3>1 DEF j
    <3> QED BY <3>1, <3>2 DEF Distinct
  <2>6. CASE Stays(k1, s1) /\ Stays(k2, s2)
    <3> QED BY <2>6, <1>10 DEF Remains, Promises, PromisesApart, Waits
  <2> QED BY <1>3, <2>4, <2>5, <2>6
<1>11. PromisesApart'
  <2>1. \A h, k1, s1, b1, k2, s2, b2 : Distinct(h, k1, s1, b1, k2, s2, b2) => Distinct(h, k1, s1, b1, k2, s2, b2)'
    <3>1. \A x : Wide(x)' = Wide(x) /\ DistPortsOf(x)' = DistPortsOf(x)
      BY DEF Wide, DistPortsOf
    <3>2. \A h, i, a : Takes(h, i, a)' = Takes(h, i, a)
      BY <3>1, <1>2, SameLayout DEF Takes
    <3>3. \A h, i : NodeIndex(h, i)' = NodeIndex(h, i)
      BY <1>2, SameLayout
    <3> QED BY <3>1, <3>2, <3>3 DEF Distinct
  <2> SUFFICES ASSUME NEW k1 \in DOMAIN groups', NEW k2 \in DOMAIN groups', NEW s1 \in DOMAIN all_engines'[k1],
                      NEW s2 \in DOMAIN all_engines'[k2], Waits(k1, s1)', Waits(k2, s2)'
               PROVE  Distinct(groups[k1], k1, s1, all_engines[k1][s1].addr, k2, s2, all_engines[k2][s2].addr)'
    BY DEF PromisesApart
  <2>2. D(groups'[k1], k1, s1, k2, s2)
    BY <1>10
  <2> QED BY <2>1, <2>2
<1> QED BY <1>1, <1>4, <1>5, <1>6, <1>7, <1>9, <1>11 DEF Promises

\* The local ranks without an engine.
Empty(slots) == {i \in 0 .. Len(slots) - 1 : slots[i + 1] = NoEngine}

\* start_engines gives engines to those, and leaves the others alone.
LEMMA StartedSlots ==
  ASSUME NEW g, NEW slots, IsSequence(slots), NEW new, new = Empty(slots)
  PROVE  /\ DOMAIN Started(g, slots).slots = DOMAIN slots /\ DOMAIN slots = 1 .. Len(slots) /\ Len(slots) \in Nat
         /\ new = {} => Started(g, slots).cursors = port_cursors
         /\ new # {} => Started(g, slots).cursors = Allocate(g, new, NextPort).cursors
         /\ \A s \in DOMAIN slots :
              /\ s - 1 \in new <=> slots[s] = NoEngine
              /\ s - 1 \in new => Started(g, slots).slots[s] =
                   [status |-> "init", ports |-> {}, addr |-> Allocate(g, new, NextPort).addr[s - 1]]
              /\ s - 1 \notin new => Started(g, slots).slots[s] = slots[s]
<1> DEFINE given == Allocate(g, new, NextPort)
           t == [s \in DOMAIN slots |->
                   IF s - 1 \in new THEN [status |-> "init", ports |-> {}, addr |-> given.addr[s - 1]]
                   ELSE slots[s]]
<1>1. Started(g, slots) = IF new = {} THEN [slots |-> slots, cursors |-> port_cursors]
                          ELSE [slots |-> t, cursors |-> given.cursors]
  BY DEF Started, Empty, NextPort
<1> HIDE DEF given
<1>2. DOMAIN slots = 1 .. Len(slots) /\ Len(slots) \in Nat
  BY DEF IsSequence
<1>3. ASSUME NEW s \in DOMAIN slots PROVE s - 1 \in new <=> slots[s] = NoEngine
  <2>1. s \in Nat /\ s - 1 \in 0 .. Len(slots) - 1 /\ (s - 1) + 1 = s
    BY <1>2
  <2> DEFINE i == s - 1
  <2>2. i \in 0 .. Len(slots) - 1 /\ i + 1 = s
    BY <2>1
  <2> HIDE DEF i
  <2>3. i \in new <=> slots[s] = NoEngine
    BY <2>2 DEF Empty
  <2> QED BY <2>3 DEF i
<1>4. DOMAIN t = DOMAIN slots
      /\ \A s \in DOMAIN slots :
           /\ s - 1 \in new => t[s] = [status |-> "init", ports |-> {}, addr |-> given.addr[s - 1]]
           /\ s - 1 \notin new => t[s] = slots[s]
  OBVIOUS
<1> HIDE DEF t
<1>5. CASE new = {}
  <2>1. Started(g, slots).slots = slots /\ Started(g, slots).cursors = port_cursors
    BY <1>1, <1>5
  <2> QED BY <2>1, <1>2, <1>3, <1>5
<1>6. CASE new # {}
  <2>1. Started(g, slots).slots = t /\ Started(g, slots).cursors = given.cursors
    BY <1>1, <1>6
  <2> QED BY <2>1, <1>2, <1>3, <1>4, <1>6 DEF given
<1> QED BY <1>5, <1>6

\* The first rank of an engine.
LEMMA HeadRank ==
  ASSUME NEW P \in Nat \ {0}, NEW i \in Nat
  PROVE  /\ i - (i % P) \in 0 .. i
         /\ (i - (i % P)) \div P = i \div P
<1> DEFINE r == i % P
           q == i \div P
           h == i - r
<1>1. i = P * q + r /\ r \in 0 .. P - 1 /\ q \in Nat
  OBVIOUS
<1> HIDE DEF r, q
<1>2. h = P * q /\ P * q \in Nat
  BY <1>1
<1>3. h \in 0 .. i
  BY <1>1, <1>2
<1>4. (P * q) \div P = q
  <2>1. q \in Nat
    BY <1>1
  <2> QED BY <2>1
<1> HIDE DEF h
<1>5. h \div P = q
  BY <1>2, <1>4
<1> QED BY <1>3, <1>5 DEF h, r, q

\* The engines that a group starts with.
LEMMA StartGroupOffers ==
  ASSUME Placed, Promises, StartGroup
  PROVE  \E K, new : Offers(K, new)
<1> DEFINE c == Head(Head(plan).groups)
           g == MakeGroup(c, Head(plan).model)
           old == NewSlots(c)
           started == Started(g, old)
           new == Empty(old)
           K == Len(groups) + 1
<1>1. /\ phase = "start" /\ Head(plan).groups # << >> /\ Fits(g, old)
      /\ groups' = Append(groups, g)
      /\ all_engines' = Append(all_engines, started.slots)
      /\ port_cursors' = started.cursors
      /\ layout' = layout
  BY DEF StartGroup
<1>2. plan \in Seq(Batch) \ {<< >>} /\ layout \in Layouts /\ gpu_offset \in Nat
      /\ engine_offset \in Nat /\ RolloutOffset \in Nat
  BY <1>1, LayoutFacts DEF Placed
<1>3. Head(plan).groups \in Seq(Configs) /\ Head(plan).groups # << >>
  <2>1. Head(plan) \in Batch
    BY <1>2
  <2> QED BY <2>1, <1>1 DEF Batch
<1>4. c \in Configs
  BY <1>3
<1>5. Sized(c)
  BY <1>4 DEF Configs, GroupConfigs, Sized
<1>6. g.gpu_offset = gpu_offset /\ LocalGpus(g) = LocalGpus(c) /\ NumEngines(g) = NumEngines(c) /\ Sized(g)
  BY <1>5 DEF MakeGroup, LocalGpus, NumEngines, Sized
<1>7. NumEngines(c) \in Nat /\ NodesPerEngine(g) \in Nat \ {0}
  BY <1>2, <1>5, <1>6, GroupArith
<1>8. IsSequence(old) /\ (old = << >> \/ (Len(old) = NumEngines(c) /\ \A s \in DOMAIN old : old[s] = NoEngine))
  <2>1. CASE c.worker_type = "placeholder"
    <3>1. old = << >> /\ << >> \in Seq({})
      BY <2>1 DEF NewSlots
    <3> QED BY <3>1 DEF IsSequence
  <2>2. CASE c.worker_type # "placeholder"
    <3> DEFINE n == NumEngines(c)
               t == [s \in 1 .. n |-> NoEngine]
    <3>1. old = t
      BY <2>2 DEF NewSlots
    <3> HIDE DEF n
    <3>2. t \in Seq({NoEngine}) /\ Len(t) = n /\ \A s \in DOMAIN t : t[s] = NoEngine
      BY <1>7 DEF n
    <3> HIDE DEF t
    <3>3. IsSequence(t)
      BY <3>2 DEF IsSequence
    <3> QED BY <3>1, <3>2, <3>3 DEF n
  <2> QED BY <2>1, <2>2
<1>9. /\ DOMAIN started.slots = DOMAIN old /\ DOMAIN old = 1 .. Len(old) /\ Len(old) \in Nat
      /\ new = {} => started.cursors = port_cursors
      /\ new # {} => started.cursors = Allocate(g, new, NextPort).cursors
      /\ \A s \in DOMAIN old :
           /\ s - 1 \in new <=> old[s] = NoEngine
           /\ s - 1 \in new => started.slots[s] =
                [status |-> "init", ports |-> {}, addr |-> Allocate(g, new, NextPort).addr[s - 1]]
  <2> HIDE DEF g, old, new
  <2> QED BY <1>8, StartedSlots DEF new
<1>10. groups \in Seq(Group) /\ IsSequence(all_engines) /\ Len(all_engines) = Len(groups)
  BY DEF Placed
<1> HIDE DEF started, new, old, g, c
<1>11. /\ \A k \in DOMAIN groups : k \in DOMAIN groups' /\ groups'[k] = groups[k] /\ k # K
       /\ groups'[K] = g /\ K \in DOMAIN groups'
       /\ DOMAIN groups' = DOMAIN groups \cup {K}
  <2>1. PICK S : groups \in Seq(S) /\ g \in S
    <3> DEFINE S == Group \cup {g}
    <3>1. DOMAIN groups = 1 .. Len(groups) /\ Len(groups) \in Nat /\ \A i \in 1 .. Len(groups) : groups[i] \in Group
      BY <1>10
    <3>2. groups = [i \in 1 .. Len(groups) |-> groups[i]]
      BY <1>10, <3>1
    <3>3. groups \in [1 .. Len(groups) -> S]
      BY <3>1, <3>2
    <3> HIDE DEF S
    <3>4. groups \in Seq(S)
      BY <3>1, <3>3
    <3> QED BY <3>4 DEF S
  <2>2. Len(groups) \in Nat /\ DOMAIN groups = 1 .. Len(groups)
    BY <2>1
  <2>3. DOMAIN groups' = 1 .. K /\ groups'[K] = g /\ \A i \in 1 .. Len(groups) : groups'[i] = groups[i]
    BY <1>1, <2>1, <2>2
  <2> QED BY <2>2, <2>3
<1>12. /\ \A k \in DOMAIN groups : all_engines'[k] = all_engines[k]
       /\ all_engines'[K] = started.slots
  <2>1. Len(groups) \in Nat /\ DOMAIN groups = 1 .. Len(groups)
    BY <1>10
  <2> QED BY <1>1, <1>10, <2>1, AppendSequence
<1>13. new # {} => Vacant(g, new)
  <2> SUFFICES ASSUME new # {} PROVE Vacant(g, new)
    OBVIOUS
  <2>1. old # << >>
    <3>1. PICK i \in 0 .. Len(old) - 1 : TRUE
      BY DEF new, Empty
    <3>2. Len(old) # 0
      BY <3>1, <1>9
    <3> QED BY <3>2
  <2> DEFINE n == NumEngines(g)
  <2>2. Len(old) = n
    BY <2>1, <1>8, <1>6
  <2>3. RolloutOffset + g.gpu_offset + n * LocalGpus(g) <= Len(Bundles)
    BY <2>1, <2>2, <1>1 DEF Fits
  <2>4. new = 0 .. n - 1
    <3>1. \A i \in 0 .. n - 1 : i + 1 \in DOMAIN old
      <4>1. n \in Nat
        BY <1>7, <1>6
      <4> HIDE DEF n
      <4> QED BY <4>1, <2>2, <1>9
    <3>2. \A i \in 0 .. n - 1 : old[i + 1] = NoEngine
      BY <3>1, <2>1, <1>8
    <3> QED BY <3>2, <2>2 DEF new, Empty
  <2>5. ASSUME NEW i \in new PROVE i - (i % NodesPerEngine(g)) \in new
    <3> DEFINE h == i - (i % NodesPerEngine(g))
    <3>1. i \in Nat /\ i \in 0 .. n - 1 /\ n \in Nat
      BY <2>4, <1>6, <1>7
    <3>2. h \in 0 .. i
      BY <3>1, <1>7, HeadRank
    <3> HIDE DEF h, n
    <3>3. h \in 0 .. n - 1
      BY <3>1, <3>2
    <3> QED BY <3>3, <2>4 DEF h
  <2> QED BY <2>3, <2>4, <2>5, <1>2, <1>6 DEF Vacant
<1>14. NextPort' = BasePort(port_cursors')
  BY <1>1 DEF NextPort, BasePort
<1>15. \/ new = {} /\ NextPort' = NextPort
       \/ Vacant(g, new) /\ NextPort' = BasePort(Allocate(g, new, NextPort).cursors)
  <2>1. CASE new = {}
    <3>1. port_cursors' = port_cursors
      BY <1>1, <1>9, <2>1
    <3>2. BasePort(port_cursors) = NextPort
      BY DEF NextPort
    <3> QED BY <2>1, <3>1, <3>2, <1>14
  <2>2. CASE new # {}
    BY <1>1, <1>9, <1>13, <1>14, <2>2
  <2> QED BY <2>1, <2>2
<1>16. ASSUME NEW k \in DOMAIN groups', NEW s \in DOMAIN all_engines'[k]
       PROVE  /\ s \in Nat
              /\ \/ k = K /\ Offered(K, new, all_engines'[k][s], s - 1)
                 \/ Remains(k, s) /\ (k = K => all_engines[k][s] # NoEngine)
  <2>1. CASE k = K
    <3>1. s \in DOMAIN old /\ s \in Nat
      BY <2>1, <1>12, <1>9
    <3>2. old # << >>
      BY <3>1
    <3>3. s - 1 \in new
      BY <3>1, <3>2, <1>8, <1>9
    <3>4. all_engines'[k][s] = [status |-> "init", ports |-> {}, addr |-> Allocate(g, new, NextPort).addr[s - 1]]
      BY <2>1, <3>1, <3>3, <1>9, <1>12
    <3> HIDE DEF K
    <3> QED BY <2>1, <3>1, <3>3, <3>4, <1>11 DEF Offered
  <2>2. CASE k # K
    <3>1. k \in DOMAIN groups /\ all_engines'[k] = all_engines[k]
      BY <2>2, <1>11, <1>12
    <3>2. IsSequence(all_engines[k])
      BY <3>1 DEF Placed, SlotsFit
    <3>3. s \in Nat
      BY <3>1, <3>2 DEF IsSequence
    <3> HIDE DEF K
    <3> QED BY <2>2, <3>1, <3>3 DEF Remains
  <2> QED BY <2>1, <2>2
<1> HIDE DEF K
<1>17. Offers(K, new)
  BY <1>1, <1>11, <1>15, <1>16 DEF Offers
<1> QED BY <1>17

\* The engines that a group is given back.
LEMMA RestartGroupOffers ==
  ASSUME Placed, Promises, WhoWaits, RestartGroup
  PROVE  /\ \E K, new : Offers(K, new)
         /\ Min(todo) \in Updatable /\ groups' = groups /\ todo' \subseteq todo
         /\ \A k \in DOMAIN groups : k # Min(todo) => all_engines'[k] = all_engines[k]
<1> DEFINE K == Min(todo)
           g == groups[K]
           old == all_engines[K]
           started == Started(g, old)
           new == Empty(old)
<1>1. /\ phase = "recover" /\ todo # {}
      /\ groups' = groups /\ layout' = layout
      /\ all_engines' = [all_engines EXCEPT ![K] = started.slots]
      /\ port_cursors' = started.cursors
      /\ todo' = todo \ {K}
  BY DEF RestartGroup
<1>2. groups \in Seq(Group) /\ DOMAIN groups \subseteq Nat /\ Updatable \subseteq DOMAIN groups /\ todo \subseteq Updatable
  <2>1. groups \in Seq(Group)
    BY DEF Placed
  <2>2. DOMAIN groups \subseteq Nat
    BY <2>1
  <2>3. Updatable \subseteq DOMAIN groups
    <3> DEFINE updated == {m \in DOMAIN layout.models : layout.models[m].update_weights}
    <3>1. Updatable = {k \in DOMAIN groups : updated # {} /\ groups[k].model = Min(updated)}
      BY DEF Updatable
    <3> HIDE DEF updated
    <3> QED BY <3>1
  <2>4. todo \subseteq Updatable
    BY <1>1 DEF WhoWaits
  <2> QED BY <2>1, <2>2, <2>3, <2>4
<1>3. K \in Updatable /\ K \in DOMAIN groups
  <2>1. todo \subseteq Nat /\ todo # {}
    BY <1>1, <1>2
  <2>2. Min(todo) \in todo
    BY <2>1, MinIs
  <2> QED BY <2>2, <1>2
<1>4. /\ Sized(g) /\ g.gpu_offset \in Nat /\ SlotsFit(g, old) /\ layout \in Layouts
  <2> HIDE DEF K
  <2>1. Sized(g) /\ SlotsFit(g, old) /\ layout \in Layouts
    BY <1>3 DEF Placed
  <2>2. groups[K] \in Group
    BY <1>2, <1>3
  <2>3. groups[K].gpu_offset \in Nat
    BY <2>2 DEF Group
  <2> QED BY <2>1, <2>3
<1>5. NumEngines(g) \in Nat /\ NodesPerEngine(g) \in Nat \ {0}
  BY <1>4, GroupArith
<1>6. IsSequence(all_engines) /\ DOMAIN all_engines = DOMAIN groups
  <2>1. IsSequence(all_engines) /\ Len(all_engines) = Len(groups)
    BY DEF Placed
  <2>2. DOMAIN all_engines = 1 .. Len(all_engines)
    BY <2>1 DEF IsSequence
  <2> QED BY <2>1, <2>2, <1>2
<1> HIDE DEF K
<1>7. IsSequence(old)
  BY <1>4 DEF SlotsFit
<1> HIDE DEF g, old, new
<1>8. /\ DOMAIN started.slots = DOMAIN old /\ DOMAIN old = 1 .. Len(old) /\ Len(old) \in Nat
      /\ new = {} => started.cursors = port_cursors
      /\ new # {} => started.cursors = Allocate(g, new, NextPort).cursors
      /\ \A s \in DOMAIN old :
           /\ s - 1 \in new <=> old[s] = NoEngine
           /\ s - 1 \in new => started.slots[s] =
                [status |-> "init", ports |-> {}, addr |-> Allocate(g, new, NextPort).addr[s - 1]]
           /\ s - 1 \notin new => started.slots[s] = old[s]
  BY <1>7, StartedSlots DEF new
<1> HIDE DEF started
<1>9. /\ all_engines'[K] = started.slots
      /\ \A k \in DOMAIN groups : k # K => all_engines'[k] = all_engines[k]
  BY <1>1, <1>3, <1>6
<1>10. new # {} => Vacant(g, new)
  <2> SUFFICES ASSUME new # {} PROVE Vacant(g, new)
    OBVIOUS
  <2>1. old # << >>
    <3>1. PICK i \in 0 .. Len(old) - 1 : TRUE
      BY DEF new, Empty
    <3>2. Len(old) # 0
      BY <3>1, <1>8
    <3> QED BY <3>2
  <2>2. /\ Len(old) = NumEngines(g)
        /\ RolloutOffset + g.gpu_offset + NumEngines(g) * LocalGpus(g) <= Len(Bundles)
    BY <2>1, <1>4 DEF SlotsFit
  <2>3. new \subseteq 0 .. NumEngines(g) - 1
    BY <2>2 DEF new, Empty
  <2>4. ASSUME NEW i \in new PROVE i - (i % NodesPerEngine(g)) \in new
    <3> DEFINE h == i - (i % NodesPerEngine(g))
               n == Len(old)
               s == i + 1
               t == h + 1
    <3>1. i \in Nat /\ i \in 0 .. n - 1 /\ n \in Nat
      BY <2>2, <2>3, <1>8
    <3>2. h \in 0 .. i /\ h \div NodesPerEngine(g) = i \div NodesPerEngine(g)
      BY <3>1, <1>5, HeadRank
    <3> HIDE DEF h, n
    <3>3. s \in 1 .. n /\ t \in 1 .. n /\ s - 1 = i /\ t - 1 = h
      BY <3>1, <3>2
    <3>4. old[s] = NoEngine
      BY DEF new, Empty
    <3> HIDE DEF s, t
    <3>5. s \in DOMAIN old /\ t \in DOMAIN old
      BY <3>3, <1>8 DEF n
    <3>6. SameEngine(g, s, t)
      BY <3>2, <3>3 DEF SameEngine
    <3>7. old[t] = NoEngine
      BY <3>4, <3>5, <3>6, <1>3 DEF Promises, WholeEngines, g, old
    <3> QED BY <3>3, <3>5, <3>7, <1>8 DEF h
  <2> QED BY <2>2, <2>3, <2>4, <1>4 DEF Vacant
<1>11. NextPort' = BasePort(port_cursors')
  BY <1>1 DEF NextPort, BasePort
<1>12. \/ new = {} /\ NextPort' = NextPort
       \/ Vacant(g, new) /\ NextPort' = BasePort(Allocate(g, new, NextPort).cursors)
  <2>1. CASE new = {}
    <3>1. port_cursors' = port_cursors
      BY <1>1, <1>8, <2>1
    <3>2. BasePort(port_cursors) = NextPort
      BY DEF NextPort
    <3> QED BY <2>1, <3>1, <3>2, <1>11
  <2>2. CASE new # {}
    BY <1>1, <1>8, <1>10, <1>11, <2>2
  <2> QED BY <2>1, <2>2
<1>13. ASSUME NEW k \in DOMAIN groups', NEW s \in DOMAIN all_engines'[k]
       PROVE  /\ s \in Nat
              /\ \/ k = K /\ Offered(K, new, all_engines'[k][s], s - 1)
                 \/ Remains(k, s) /\ (k = K => all_engines[k][s] # NoEngine)
  <2>1. CASE k = K
    <3>1. s \in DOMAIN old /\ s \in Nat
      BY <2>1, <1>8, <1>9
    <3>2. CASE s - 1 \in new
      <4>1. all_engines'[k][s] = [status |-> "init", ports |-> {}, addr |-> Allocate(g, new, NextPort).addr[s - 1]]
        BY <2>1, <3>1, <3>2, <1>8, <1>9
      <4> QED BY <2>1, <3>1, <3>2, <4>1, <1>1 DEF Offered, g
    <3>3. CASE s - 1 \notin new
      <4>1. all_engines'[k][s] = old[s] /\ old[s] # NoEngine
        BY <2>1, <3>1, <3>3, <1>8, <1>9
      <4> QED BY <2>1, <3>1, <4>1, <1>3 DEF Remains, old
    <3> QED BY <3>2, <3>3
  <2>2. CASE k # K
    <3>1. k \in DOMAIN groups /\ all_engines'[k] = all_engines[k]
      BY <2>2, <1>1, <1>9
    <3>2. IsSequence(all_engines[k])
      BY <3>1 DEF Placed, SlotsFit
    <3>3. s \in Nat
      BY <3>1, <3>2 DEF IsSequence
    <3> QED BY <2>2, <3>1, <3>3 DEF Remains
  <2> QED BY <2>1, <2>2
<1>14. Offers(K, new)
  BY <1>1, <1>12, <1>13 DEF Offers, g
<1> QED BY <1>1, <1>3, <1>9, <1>14 DEF K

\* A step after which no engine waits: engines are lost, as a whole, or nothing happens to
\* them, and the search goes on or starts again.
Idle ==
  /\ layout' = layout /\ groups' = groups
  /\ port_cursors' \in {port_cursors, << >>}
  /\ \A k \in DOMAIN groups : \A s \in DOMAIN all_engines'[k] :
       /\ s \in DOMAIN all_engines[k] /\ all_engines'[k][s] \in {all_engines[k][s], NoEngine}
       /\ all_engines'[k][s].status # "init"
  /\ \A k \in DOMAIN groups : \A s, t \in DOMAIN all_engines'[k] :
       SameEngine(groups[k], s, t) => (all_engines'[k][s] = NoEngine <=> all_engines'[k][t] = NoEngine)

\* Then nothing is promised.
LEMMA IdleKeeps ==
  ASSUME Placed, Promises, Idle
  PROVE  Promises'
<1>1. layout' = layout /\ groups' = groups
  BY DEF Idle
<1>2. ASSUME NEW k \in DOMAIN groups', NEW s \in DOMAIN all_engines'[k]
      PROVE  /\ k \in DOMAIN groups /\ s \in DOMAIN all_engines[k] /\ ~Waits(k, s)'
             /\ all_engines'[k][s] = all_engines[k][s] \/ all_engines'[k][s] = NoEngine
  BY <1>1 DEF Idle, Waits
<1>3. NextPort' \in Nat
  <2>1. FirstPort \in Nat
    BY LayoutAssumption
  <2>2. NextPort' = BasePort(port_cursors')
    BY DEF NextPort, BasePort
  <2>3. port_cursors' = << >> => NextPort' = FirstPort
    <3>1. DOMAIN << >> = {}
      OBVIOUS
    <3> QED BY <2>2, <3>1 DEF BasePort
  <2>4. port_cursors' = port_cursors => NextPort' = NextPort
    BY <2>2 DEF NextPort
  <2> QED BY <2>1, <2>3, <2>4 DEF Idle, Promises
<1>4. SlotsKnown'
  <2>1. \A e : Slot(e) => Slot(e)'
    BY DEF Slot, NoEngine
  <2>2. Slot(NoEngine)
    BY DEF Slot, NoEngine
  <2> SUFFICES ASSUME NEW k \in DOMAIN groups', NEW s \in DOMAIN all_engines'[k]
               PROVE  Slot(all_engines[k][s])'
    BY DEF SlotsKnown
  <2>3. Slot(all_engines[k][s])
    BY <1>2 DEF Promises, SlotsKnown
  <2>4. all_engines'[k][s] = all_engines[k][s] \/ all_engines'[k][s] = NoEngine
    BY <1>2
  <2> QED BY <2>1, <2>2, <2>3, <2>4
<1>5. PortsBounded'
  <2>1. PICK m \in Nat : \A k \in DOMAIN groups : \A s \in DOMAIN all_engines[k] :
                           \A p \in all_engines[k][s].ports : p <= m
    BY DEF Promises, PortsBounded
  <2>2. ASSUME NEW k \in DOMAIN groups', NEW s \in DOMAIN all_engines'[k], NEW p \in all_engines'[k][s].ports
        PROVE  p <= m
    <3>1. NoEngine.ports = {}
      BY DEF NoEngine
    <3>2. all_engines'[k][s] = all_engines[k][s]
      BY <1>2, <3>1
    <3> QED BY <2>1, <1>2, <3>2
  <2> QED BY <2>2 DEF PortsBounded
<1>6. WholeEngines'
  <2>1. \A g, s, t : SameEngine(g, s, t)' <=> SameEngine(g, s, t)
    BY <1>1, SameLayout DEF SameEngine
  <2> SUFFICES ASSUME NEW k \in DOMAIN groups', NEW s \in DOMAIN all_engines'[k], NEW t \in DOMAIN all_engines'[k],
                      SameEngine(groups[k], s, t)'
               PROVE  all_engines'[k][s] = NoEngine <=> all_engines'[k][t] = NoEngine
    BY DEF WholeEngines, NoEngine
  <2>2. SameEngine(groups[k], s, t)
    BY <2>1, <1>1
  <2> QED BY <1>1, <2>2 DEF Idle
<1>7. PromisesHold' /\ PromisesApart'
  BY <1>2 DEF PromisesHold, PromisesApart
<1>8. AddressesHold'
  <2> SUFFICES ASSUME NEW k \in DOMAIN groups', NEW s \in DOMAIN all_engines'[k], all_engines'[k][s].status = "failed"
               PROVE  ~Aligned(groups[k])'
    BY DEF AddressesHold
  <2>1. NoEngine.status # "failed"
    BY DEF NoEngine
  <2>2. all_engines'[k][s] = all_engines[k][s] /\ k \in DOMAIN groups /\ s \in DOMAIN all_engines[k]
    BY <1>2, <2>1
  <2>3. ~Aligned(groups[k])
    BY <2>2 DEF Promises, AddressesHold
  <2> QED BY <2>3, <1>1, SameLayout
<1> QED BY <1>3, <1>4, <1>5, <1>6, <1>7, <1>8 DEF Promises

\* What does not touch the groups and their engines keeps the promises.
LEMMA UntouchedKeeps ==
  ASSUME Placed, Promises, UNCHANGED <<layout, groups, all_engines, port_cursors>>
  PROVE  Promises'
<1>1. layout' = layout /\ groups' = groups /\ all_engines' = all_engines /\ NextPort' = NextPort
  BY DEF NextPort, BasePort
<1>2. groups \in Seq(Group)
  BY DEF Placed
<1>3. 0 \notin DOMAIN groups
  BY <1>2
<1>4. ASSUME NEW k \in DOMAIN groups, NEW s \in DOMAIN all_engines[k] PROVE s \in Nat
  <2>1. IsSequence(all_engines[k])
    BY DEF Placed, SlotsFit
  <2> QED BY <2>1 DEF IsSequence
<1>5. Offers(0, {})
  BY <1>1, <1>3, <1>4 DEF Offers, Remains
<1> QED BY <1>5, OffersKeep

\* Engines are killed when none waits, and on all of their nodes.
LEMMA KillKeeps ==
  ASSUME Placed, Promises, WhoWaits, KillOne
  PROVE  Promises'
<1>1. PICK K \in DOMAIN groups :
        \E s \in DOMAIN all_engines[K] : Kill(K, (s - 1) \div NodesPerEngine(groups[K]))
  BY DEF KillOne
<1>2. PICK S \in DOMAIN all_engines[K] : Kill(K, (S - 1) \div NodesPerEngine(groups[K]))
  BY <1>1
<1> DEFINE e == (S - 1) \div NodesPerEngine(groups[K])
           dead == {s \in DOMAIN all_engines[K] : (s - 1) \div NodesPerEngine(groups[K]) = e}
           slots == [s \in DOMAIN all_engines[K] |-> IF s \in dead THEN NoEngine ELSE all_engines[K][s]]
<1>3. /\ phase = "run" /\ layout' = layout /\ groups' = groups /\ port_cursors' = port_cursors
      /\ all_engines' = [all_engines EXCEPT ![K] = slots]
  BY <1>2 DEF Kill
<1>4. DOMAIN all_engines = DOMAIN groups
  <2>1. IsSequence(all_engines) /\ Len(all_engines) = Len(groups) /\ groups \in Seq(Group)
    BY DEF Placed
  <2>2. DOMAIN all_engines = 1 .. Len(all_engines)
    BY <2>1 DEF IsSequence
  <2> QED BY <2>1, <2>2
<1>5. \A k \in DOMAIN groups : all_engines'[k] = IF k = K THEN slots ELSE all_engines[k]
  BY <1>3, <1>4
<1>6. DOMAIN slots = DOMAIN all_engines[K]
      /\ \A s \in DOMAIN slots : slots[s] = IF s \in dead THEN NoEngine ELSE all_engines[K][s]
  OBVIOUS
<1>7. ASSUME NEW s \in DOMAIN slots, NEW t \in DOMAIN slots, SameEngine(groups[K], s, t)
      PROVE  s \in dead <=> t \in dead
  BY <1>7 DEF SameEngine
<1> HIDE DEF slots, dead, e
<1>8. ASSUME NEW k \in DOMAIN groups, NEW s \in DOMAIN all_engines'[k]
      PROVE  /\ s \in DOMAIN all_engines[k] /\ all_engines'[k][s] \in {all_engines[k][s], NoEngine}
             /\ all_engines'[k][s].status # "init"
  <2>1. s \in DOMAIN all_engines[k] /\ (all_engines'[k][s] = all_engines[k][s] \/ all_engines'[k][s] = NoEngine)
    BY <1>5, <1>6
  <2>2. all_engines[k][s].status # "init" /\ NoEngine.status # "init"
    BY <1>3, <2>1 DEF WhoWaits, Settled, NoEngine
  <2> QED BY <2>1, <2>2
<1>9. ASSUME NEW k \in DOMAIN groups, NEW s \in DOMAIN all_engines'[k], NEW t \in DOMAIN all_engines'[k],
             SameEngine(groups[k], s, t)
      PROVE  all_engines'[k][s] = NoEngine <=> all_engines'[k][t] = NoEngine
  <2>0. s \in DOMAIN all_engines[k] /\ t \in DOMAIN all_engines[k]
    BY <1>8
  <2>1. all_engines[k][s] = NoEngine <=> all_engines[k][t] = NoEngine
    BY <2>0, <1>9 DEF Promises, WholeEngines
  <2>2. CASE k = K
    BY <2>0, <2>1, <2>2, <1>5, <1>6, <1>7, <1>9
  <2>3. CASE k # K
    BY <2>1, <2>3, <1>5
  <2> QED BY <2>2, <2>3
<1> QED BY <1>3, <1>8, <1>9, IdleKeeps DEF Idle

\* Nothing waits when a batch serves or a recovery begins.
LEMMA CursorsReset ==
  ASSUME Placed, Promises, WhoWaits, BatchServes \/ Recover
  PROVE  Promises'
<1>1. layout' = layout /\ groups' = groups /\ all_engines' = all_engines /\ port_cursors' \in {port_cursors, << >>}
  BY DEF BatchServes, Recover
<1>2. \A k \in DOMAIN groups : \A s \in DOMAIN all_engines[k] : all_engines[k][s].status # "init"
  BY DEF BatchServes, Recover, AllWith, WhoWaits, Settled
<1>3. \A k \in DOMAIN groups : \A s, t \in DOMAIN all_engines[k] :
        SameEngine(groups[k], s, t) => (all_engines[k][s] = NoEngine <=> all_engines[k][t] = NoEngine)
  BY DEF Promises, WholeEngines
<1>4. Idle
  BY <1>1, <1>2, <1>3 DEF Idle
<1> QED BY <1>4, IdleKeeps

\* Where the engines of a group are: two local ranks of an aligned group that are on one
\* node have one node index.
LEMMA SameNode ==
  ASSUME Placed, NEW k \in DOMAIN groups, NEW s \in DOMAIN all_engines[k], NEW t \in DOMAIN all_engines[k],
         Aligned(groups[k]), NodeOf(groups[k], s - 1) = NodeOf(groups[k], t - 1)
  PROVE  NodeIndex(groups[k], s - 1) = NodeIndex(groups[k], t - 1)
<1> DEFINE g == groups[k]
           slots == all_engines[k]
           i == s - 1
           j == t - 1
           L == LocalGpus(g)
           n == NumEngines(g)
           E == EnginesPerNode(g)
           count == n * L
<1>1. Sized(g) /\ SlotsFit(g, slots) /\ layout \in Layouts
  BY DEF Placed
<1>2. g.gpu_offset \in Nat
  <2>1. groups[k] \in Group
    BY DEF Placed
  <2> QED BY <2>1 DEF Group
<1> HIDE DEF g, slots
<1>3. L \in Nat \ {0} /\ n \in Nat /\ E \in Nat \ {0}
  BY <1>1, GroupArith
<1>4. DOMAIN slots = 1 .. Len(slots) /\ slots # << >>
  <2>1. IsSequence(slots)
    BY <1>1 DEF SlotsFit
  <2>2. DOMAIN slots = 1 .. Len(slots)
    BY <2>1 DEF IsSequence
  <2>3. s \in DOMAIN slots
    BY DEF slots
  <2> QED BY <2>2, <2>3
<1>5. Len(slots) = n /\ RolloutOffset + g.gpu_offset + count <= Len(Bundles)
  BY <1>1, <1>4 DEF SlotsFit
<1>6. s \in 1 .. n /\ t \in 1 .. n
  <2>1. s \in DOMAIN slots /\ t \in DOMAIN slots
    BY DEF slots
  <2> QED BY <2>1, <1>4, <1>5
<1>7. i \in 0 .. n - 1 /\ j \in 0 .. n - 1 /\ i \in Nat /\ j \in Nat
  <2> HIDE DEF n
  <2> QED BY <1>3, <1>6
<1>8. NodeOfGpu(g.gpu_offset) \in Nat
  <2>1. count \in Nat \ {0}
    <3>1. n \in Nat \ {0}
      <4> HIDE DEF n
      <4> QED BY <1>3, <1>6
    <3> HIDE DEF n, L
    <3>2. n * L \in Nat /\ n * L # 0
      BY <1>3, <3>1
    <3> QED BY <3>2
  <2>2. 0 \in 0 .. count - 1 /\ count = n * L /\ Aligned(g)
    <3> HIDE DEF count
    <3>1. 0 \in 0 .. count - 1
      BY <2>1
    <3> QED BY <3>1 DEF count, g
  <2> HIDE DEF count
  <2> QED BY <2>1, <2>2, <1>1, <1>2, <1>5, AlignedNodes
<1> HIDE DEF i, j
<1>9. NodeOf(g, i) = NodeOfGpu(g.gpu_offset) + NodeIndex(g, i)
  BY <1>1, <1>2, <1>5, <1>7, NodeOfRank DEF g
<1>10. NodeOf(g, j) = NodeOfGpu(g.gpu_offset) + NodeIndex(g, j)
  BY <1>1, <1>2, <1>5, <1>7, NodeOfRank DEF g
<1>11. NodeIndex(g, i) \in Nat /\ NodeIndex(g, j) \in Nat
  <2> HIDE DEF E
  <2>1. i \div E \in Nat /\ j \div E \in Nat
    BY <1>3, <1>7
  <2> QED BY <2>1 DEF NodeIndex, E
<1>12. NodeOf(g, i) = NodeOf(g, j)
  BY DEF g, i, j
<1> DEFINE x == NodeIndex(g, i)
           y == NodeIndex(g, j)
           b == NodeOfGpu(g.gpu_offset)
<1>13. b + x = b + y /\ b \in Nat /\ x \in Nat /\ y \in Nat
  BY <1>8, <1>9, <1>10, <1>11, <1>12
<1> HIDE DEF x, y, b
<1>14. x = y
  BY <1>13
<1> QED BY <1>14 DEF x, y, g, i, j

\* The server of a waiting engine takes what it was promised; it fails in no aligned group.
Launched(K, S) ==
  /\ layout' = layout /\ groups' = groups /\ port_cursors' = port_cursors
  /\ K \in DOMAIN groups /\ S \in DOMAIN all_engines[K] /\ Waits(K, S)
  /\ \A k \in DOMAIN groups :
       /\ DOMAIN all_engines'[k] = DOMAIN all_engines[k]
       /\ \A s \in DOMAIN all_engines[k] :
            k # K \/ s # S => all_engines'[k][s] = all_engines[k][s]
  /\ all_engines'[K][S].status \in {"up", "failed"}
  /\ all_engines'[K][S].ports \subseteq Wide(all_engines[K][S].addr)
  /\ Aligned(groups[K]) =>
       /\ all_engines'[K][S].status = "up"
       /\ all_engines'[K][S].ports \subseteq Takes(groups[K], S - 1, all_engines[K][S].addr)

\* Then the other promises hold.
LEMMA LaunchedKeeps ==
  ASSUME Placed, Promises, NEW K, NEW S, Launched(K, S)
  PROVE  Promises'
<1> DEFINE mine == all_engines'[K][S]
           given == all_engines[K][S].addr
           Other(k, s) == k # K \/ s # S
<1>1. /\ layout' = layout /\ groups' = groups /\ K \in DOMAIN groups /\ S \in DOMAIN all_engines[K] /\ Waits(K, S)
      /\ NextPort' = NextPort /\ NextPort \in Nat
  BY DEF Launched, NextPort, BasePort, Promises
<1>2. ASSUME NEW k \in DOMAIN groups', NEW s \in DOMAIN all_engines'[k]
      PROVE  /\ k \in DOMAIN groups /\ s \in DOMAIN all_engines[k]
             /\ Other(k, s) => all_engines'[k][s] = all_engines[k][s]
             /\ ~Other(k, s) => k = K /\ s = S
  BY DEF Launched
<1>3. mine.status \in {"up", "failed"} /\ mine.ports \subseteq Wide(given)
  BY DEF Launched
<1>4. Promised(groups[K], S - 1, given, 0, NextPort)
  BY <1>1 DEF Promises, PromisesHold
<1>5. \A p \in Wide(given) : p \in Nat /\ p < NextPort
  BY <1>4 DEF Promised
<1>6. NoEngine.status = "none"
  BY DEF NoEngine
<1>7. mine # NoEngine /\ all_engines[K][S] # NoEngine
  BY <1>1, <1>3, <1>6 DEF Waits
<1> HIDE DEF mine, given
<1>8. SlotsKnown'
  <2>1. \A e : Slot(e) => Slot(e)'
    BY DEF Slot, NoEngine
  <2>2. Slot(mine)
    <3>1. mine.ports \subseteq Nat
      BY <1>3, <1>5
    <3> QED BY <3>1, <1>3 DEF Slot
  <2> SUFFICES ASSUME NEW k \in DOMAIN groups', NEW s \in DOMAIN all_engines'[k]
               PROVE  Slot(all_engines[k][s])'
    BY DEF SlotsKnown
  <2>3. CASE Other(k, s)
    <3>1. Slot(all_engines[k][s])
      BY <1>2 DEF Promises, SlotsKnown
    <3> QED BY <2>1, <2>3, <3>1, <1>2
  <2>4. CASE ~Other(k, s)
    <3>1. all_engines'[k][s] = mine
      BY <2>4, <1>2 DEF mine
    <3> QED BY <2>1, <2>2, <3>1
  <2> QED BY <2>3, <2>4
<1>9. PortsBounded'
  <2>1. PICK m \in Nat : \A k \in DOMAIN groups : \A s \in DOMAIN all_engines[k] :
                           \A p \in all_engines[k][s].ports : p <= m
    BY DEF Promises, PortsBounded
  <2>2. PICK n \in Nat : n = NextPort
    BY <1>1
  <2> DEFINE most == m + n
  <2>3. ASSUME NEW k \in DOMAIN groups', NEW s \in DOMAIN all_engines'[k], NEW p \in all_engines'[k][s].ports
        PROVE  p <= most
    <3>1. CASE Other(k, s)
      <4>1. p \in all_engines[k][s].ports /\ k \in DOMAIN groups /\ s \in DOMAIN all_engines[k]
        BY <1>2, <3>1
      <4>2. p \in Nat /\ p <= m
        BY <4>1, <2>1 DEF Promises, SlotsKnown, Slot
      <4> QED BY <4>2
    <3>2. CASE ~Other(k, s)
      <4>1. p \in mine.ports
        BY <3>2, <1>2 DEF mine
      <4>2. p \in Nat /\ p < n
        BY <4>1, <2>2, <1>3, <1>5
      <4> QED BY <4>2
    <3> QED BY <3>1, <3>2
  <2>4. most \in Nat
    OBVIOUS
  <2> HIDE DEF most
  <2> QED BY <2>3, <2>4 DEF PortsBounded
<1>10. WholeEngines'
  <2>1. \A g, s, t : SameEngine(g, s, t)' <=> SameEngine(g, s, t)
    BY <1>1, SameLayout DEF SameEngine
  <2>2. ASSUME NEW k \in DOMAIN groups', NEW s \in DOMAIN all_engines'[k]
        PROVE  all_engines'[k][s] = NoEngine <=> all_engines[k][s] = NoEngine
    <3>1. CASE Other(k, s)
      BY <3>1, <1>2
    <3>2. CASE ~Other(k, s)
      BY <3>2, <1>2, <1>7 DEF mine
    <3> QED BY <3>1, <3>2
  <2> SUFFICES ASSUME NEW k \in DOMAIN groups', NEW s \in DOMAIN all_engines'[k], NEW t \in DOMAIN all_engines'[k],
                      SameEngine(groups[k], s, t)'
               PROVE  all_engines'[k][s] = NoEngine <=> all_engines'[k][t] = NoEngine
    BY DEF WholeEngines, NoEngine
  <2>3. SameEngine(groups[k], s, t)
    BY <2>1, <1>1
  <2>4. k \in DOMAIN groups /\ s \in DOMAIN all_engines[k] /\ t \in DOMAIN all_engines[k]
    BY <1>2
  <2>5. all_engines[k][s] = NoEngine <=> all_engines[k][t] = NoEngine
    BY <2>3, <2>4 DEF Promises, WholeEngines
  <2> QED BY <2>2, <2>5
<1>11. AddressesHold'
  <2> SUFFICES ASSUME NEW k \in DOMAIN groups', NEW s \in DOMAIN all_engines'[k], all_engines'[k][s].status = "failed"
               PROVE  ~Aligned(groups[k])'
    BY DEF AddressesHold
  <2>1. ~Aligned(groups[k])
    <3>1. CASE Other(k, s)
      BY <3>1, <1>2 DEF Promises, AddressesHold
    <3>2. CASE ~Other(k, s)
      <4>1. k = K /\ mine.status = "failed"
        BY <3>2, <1>2 DEF mine
      <4> QED BY <4>1 DEF Launched, mine
    <3> QED BY <3>1, <3>2
  <2> QED BY <2>1, <1>1, SameLayout
<1>12. ASSUME NEW k \in DOMAIN groups', NEW s \in DOMAIN all_engines'[k], Waits(k, s)'
       PROVE  /\ Other(k, s) /\ Waits(k, s) /\ k \in DOMAIN groups /\ s \in DOMAIN all_engines[k]
              /\ all_engines'[k][s] = all_engines[k][s]
  <2>1. Other(k, s)
    <3> SUFFICES ASSUME ~Other(k, s) PROVE FALSE
      OBVIOUS
    <3>1. mine.status = "init"
      BY <1>2, <1>12 DEF mine, Waits
    <3> QED BY <3>1, <1>3
  <2> HIDE DEF Other
  <2> QED BY <2>1, <1>2, <1>12 DEF Waits
<1>13. ASSUME NEW node, NEW p, p \in Bound(node)', p \notin Bound(node)
       PROVE  NodeOf(groups[K], S - 1) = node /\ p \in mine.ports
  <2>1. \/ p \in layout'.busy
        \/ \E k \in DOMAIN groups' : \E s \in DOMAIN all_engines'[k] :
             NodeOf(groups[k], s - 1)' = node /\ p \in all_engines'[k][s].ports
    BY <1>13 DEF Bound
  <2>2. p \notin layout'.busy
    BY <1>1, <1>13, BoundIs
  <2>3. PICK k \in DOMAIN groups' : \E s \in DOMAIN all_engines'[k] :
             NodeOf(groups[k], s - 1)' = node /\ p \in all_engines'[k][s].ports
    BY <2>1, <2>2
  <2>4. PICK s \in DOMAIN all_engines'[k] : NodeOf(groups[k], s - 1)' = node /\ p \in all_engines'[k][s].ports
    BY <2>3
  <2>5. NodeOf(groups[k], s - 1) = node
    BY <2>4, <1>1, SameLayout
  <2>6. CASE Other(k, s)
    <3>1. p \in all_engines[k][s].ports /\ k \in DOMAIN groups /\ s \in DOMAIN all_engines[k]
      BY <2>4, <2>6, <1>2
    <3> QED BY <3>1, <2>5, <1>13, BoundIs
  <2>7. CASE ~Other(k, s)
    BY <2>4, <2>5, <2>7, <1>2 DEF mine
  <2> QED BY <2>6, <2>7
<1>14. ASSUME NEW k \in DOMAIN groups', NEW s \in DOMAIN all_engines'[k], Waits(k, s)',
              Aligned(groups[k]), NEW p \in Takes(groups[k], s - 1, all_engines[k][s].addr),
              p \in Bound(NodeOf(groups[k], s - 1))', p \notin Bound(NodeOf(groups[k], s - 1))
       PROVE  FALSE
  <2> DEFINE node == NodeOf(groups[k], s - 1)
             a == all_engines[k][s].addr
  <2>1. Other(k, s) /\ Waits(k, s) /\ k \in DOMAIN groups /\ s \in DOMAIN all_engines[k]
    BY <1>12, <1>14
  <2>2. p \in Bound(node)'
    <3>1. NodeOf(groups[k], s - 1)' = NodeOf(groups[k], s - 1)
      BY <1>1, SameLayout
    <3> QED BY <3>1, <1>14
  <2>3. NodeOf(groups[K], S - 1) = node /\ p \in mine.ports
    <3>1. \E x : x = node
      OBVIOUS
    <3>2. PICK x : x = node
      BY <3>1
    <3> QED BY <3>2, <1>1, <1>13, <1>14, SameLayout
  <2>4. Distinct(groups[K], K, S, given, k, s, a)
    BY <2>1, <1>1 DEF Promises, PromisesApart, given
  <2>5. CASE k # K
    <3>1. p \in Wide(given) /\ p \in Wide(a)
      BY <2>3, <1>3, <1>14 DEF Takes, Wide
    <3> QED BY <3>1, <2>4, <2>5 DEF Distinct
  <2>6. CASE k = K
    <3>1. s # S
      BY <2>1, <2>6
    <3>2. NodeIndex(groups[K], S - 1) = NodeIndex(groups[K], s - 1)
      BY <2>1, <2>3, <2>6, <1>1, <1>14, SameNode
    <3>3. p \in Takes(groups[K], S - 1, given)
      BY <2>3, <2>6, <1>14 DEF Launched, given, mine
    <3> QED BY <2>4, <2>6, <3>1, <3>2, <3>3, <1>14 DEF Distinct
  <2> QED BY <2>5, <2>6
<1>15. PromisesHold'
  <2> SUFFICES ASSUME NEW k \in DOMAIN groups', NEW s \in DOMAIN all_engines'[k], Waits(k, s)'
               PROVE  Promised(groups[k], s - 1, all_engines[k][s].addr, 0, NextPort)'
    BY DEF PromisesHold
  <2>1. PICK n \in Nat : n = NextPort /\ n = NextPort'
    BY <1>1
  <2>2. PICK g : g = groups[k] /\ g = groups'[k]
    BY <1>1
  <2>3. PICK a : a = all_engines[k][s].addr /\ a = all_engines'[k][s].addr
    BY <1>12
  <2> DEFINE i == s - 1
  <2>4. Promised(g, i, a, 0, n)
    BY <2>1, <2>2, <2>3, <1>12 DEF Promises, PromisesHold
  <2>5. Aligned(g) => \A p \in Takes(g, i, a) : p \in Bound(NodeOf(g, i))' => p \in Bound(NodeOf(g, i))
    <3> SUFFICES ASSUME Aligned(g), NEW p \in Takes(g, i, a), p \in Bound(NodeOf(g, i))', p \notin Bound(NodeOf(g, i))
                 PROVE  FALSE
      OBVIOUS
    <3>1. p \in Bound(NodeOf(groups[k], s - 1))'
      BY <2>2
    <3> QED BY <3>1, <2>2, <2>3, <1>14
  <2> HIDE DEF i
  <2>6. Promised(g, i, a, 0, n)'
    <3>1. 0 \in Nat /\ n \in Nat /\ n <= n /\ layout' = layout
      BY <2>1, <1>1
    <3> QED BY <3>1, <2>4, <2>5, PromiseKept
  <2> QED BY <2>1, <2>2, <2>3, <2>6 DEF i
<1>16. PromisesApart'
  <2>1. \A h, k1, s1, b1, k2, s2, b2 : Distinct(h, k1, s1, b1, k2, s2, b2) => Distinct(h, k1, s1, b1, k2, s2, b2)'
    <3>1. \A x : Wide(x)' = Wide(x) /\ DistPortsOf(x)' = DistPortsOf(x)
      BY DEF Wide, DistPortsOf
    <3>2. \A h, i, a : Takes(h, i, a)' = Takes(h, i, a)
      BY <3>1, <1>1, SameLayout DEF Takes
    <3>3. \A h, i : NodeIndex(h, i)' = NodeIndex(h, i)
      BY <1>1, SameLayout
    <3> QED BY <3>1, <3>2, <3>3 DEF Distinct
  <2> SUFFICES ASSUME NEW k1 \in DOMAIN groups', NEW k2 \in DOMAIN groups', NEW s1 \in DOMAIN all_engines'[k1],
                      NEW s2 \in DOMAIN all_engines'[k2], Waits(k1, s1)', Waits(k2, s2)'
               PROVE  Distinct(groups[k1], k1, s1, all_engines[k1][s1].addr, k2, s2, all_engines[k2][s2].addr)'
    BY DEF PromisesApart
  <2>2. /\ Waits(k1, s1) /\ k1 \in DOMAIN groups /\ s1 \in DOMAIN all_engines[k1]
        /\ all_engines'[k1][s1] = all_engines[k1][s1]
        /\ Waits(k2, s2) /\ k2 \in DOMAIN groups /\ s2 \in DOMAIN all_engines[k2]
        /\ all_engines'[k2][s2] = all_engines[k2][s2]
    BY <1>12
  <2>3. Distinct(groups[k1], k1, s1, all_engines[k1][s1].addr, k2, s2, all_engines[k2][s2].addr)
    BY <2>2 DEF Promises, PromisesApart
  <2>4. Distinct(groups'[k1], k1, s1, all_engines'[k1][s1].addr, k2, s2, all_engines'[k2][s2].addr)
    BY <2>2, <2>3, <1>1
  <2> QED BY <2>1, <2>4
<1> QED BY <1>1, <1>8, <1>9, <1>10, <1>11, <1>15, <1>16 DEF Promises

\* The ports of an engine, and how many there are.
LEMMA PortsCounted ==
  ASSUME NEW ports, IsFiniteSet(ports), NEW from \in Nat, NEW n \in Nat,
         n > 0 => \A p \in from .. from + n - 1 : p \notin ports
  PROVE  Cardinality(ports \cup (from .. from + n - 1)) = Cardinality(ports) + n
<1> DEFINE S == from .. from + n - 1
<1>1. IsFiniteSet(S) /\ Cardinality(S) = n
  <2> DEFINE b == from + n - 1
  <2>1. b \in Int /\ (IF from > b THEN 0 ELSE b - from + 1) = n
    OBVIOUS
  <2> HIDE DEF b
  <2>2. IsFiniteSet(from .. b) /\ Cardinality(from .. b) = n
    BY <2>1, FS_Interval
  <2> QED BY <2>2 DEF b
<1>2. ports \cap S = {}
  <2>1. CASE n = 0
    <3>1. S = {}
      BY <2>1
    <3> QED BY <3>1
  <2>2. CASE n # 0
    <3>1. n > 0
      BY <2>2
    <3> QED BY <3>1
  <2> QED BY <2>1, <2>2
<1> HIDE DEF S
<1>3. Cardinality(ports \cup S) = Cardinality(ports) + Cardinality(S) - Cardinality({})
  BY <1>1, <1>2, FS_Union
<1>4. Cardinality({}) = 0 /\ Cardinality(ports) \in Nat
  BY FS_EmptySet, FS_CardinalityType
<1>5. Cardinality(ports \cup S) = Cardinality(ports) + n
  BY <1>1, <1>3, <1>4
<1> QED BY <1>5 DEF S

\* The first node of an engine, if the ranks of its group start one.
LEMMA HeadOfAligned ==
  ASSUME Placed, NEW k \in DOMAIN groups, Aligned(groups[k]), NEW i \in Nat
  PROVE  NodeRank(groups[k], i) = 0 <=> i % NodesPerEngine(groups[k]) = 0
<1> DEFINE g == groups[k]
           P == NodesPerEngine(g)
           o == g.rank_offset
<1>1. P \in Nat \ {0}
  <2>1. Sized(g) /\ layout \in Layouts
    BY DEF Placed
  <2> HIDE DEF g
  <2> QED BY <2>1, GroupArith
<1>2. o \in Nat
  <2>1. groups[k] \in Group
    BY DEF Placed
  <2> QED BY <2>1 DEF Group
<1>3. o % P = 0 /\ NodeRank(g, i) = (o + i) % P
  BY DEF Aligned, NodeRank
<1> HIDE DEF P, o, g
<1> DEFINE q == o \div P
           r == i % P
           d == i \div P
<1>4. o = P * q /\ q \in Nat
  BY <1>1, <1>2, <1>3
<1>5. i = P * d + r /\ r \in 0 .. P - 1 /\ d \in Nat
  BY <1>1
<1> HIDE DEF q, r, d
<1>6. P * q + P * d = P * (q + d) /\ P * q \in Nat /\ P * d \in Nat
  BY <1>1, <1>4, <1>5
<1> DEFINE m == q + d
<1>7. o + i = P * m + r /\ m \in Nat
  BY <1>4, <1>5, <1>6
<1> HIDE DEF m
<1>8. (P * m + r) % P = r
  BY <1>1, <1>5, <1>7
<1>9. NodeRank(g, i) = r
  BY <1>3, <1>7, <1>8
<1> QED BY <1>9 DEF r, g, P

\* A server that comes up binds what its address says, or fails.
LEMMA LaunchIs ==
  ASSUME Placed, Promises, NEW K \in DOMAIN groups, NEW S \in DOMAIN all_engines[K], Launch(K, S - 1)
  PROVE  Launched(K, S) /\ phase' = phase /\ todo' = todo
<1> DEFINE g == groups[K]
           i == S - 1
           e == all_engines[K][i + 1]
           a == e.addr
           node == NodeOf(g, i)
           head == NodeRank(g, i) = 0
           Bind(n) == a.ports \cup (a.dist.port .. a.dist.port + n - 1)
           Fails(n) == \/ a.host # node
                       \/ head /\ a.dist.host # node
                       \/ Cardinality(Bind(n)) < Cardinality(a.ports) + n
                       \/ Bind(n) \cap Bound(node) # {}
           Up(n) == IF Fails(n) THEN [e EXCEPT !.status = "failed"]
                    ELSE [e EXCEPT !.status = "up", !.ports = Bind(n)]
<1>1. /\ IsSequence(all_engines) /\ DOMAIN all_engines = DOMAIN groups
      /\ IsSequence(all_engines[K]) /\ S \in Nat \ {0}
  <2>1. IsSequence(all_engines) /\ Len(all_engines) = Len(groups) /\ groups \in Seq(Group)
    BY DEF Placed
  <2>2. DOMAIN all_engines = 1 .. Len(all_engines)
    BY <2>1 DEF IsSequence
  <2>3. IsSequence(all_engines[K])
    BY DEF Placed, SlotsFit
  <2>4. DOMAIN all_engines[K] = 1 .. Len(all_engines[K])
    BY <2>3 DEF IsSequence
  <2> QED BY <2>1, <2>2, <2>3, <2>4
<1>2. i + 1 = S /\ i \in Nat /\ e = all_engines[K][S]
  BY <1>1
<1>3. /\ e.status = "init"
      /\ UNCHANGED <<layout, phase, plan, todo, groups, engine_offset, gpu_offset, port_cursors, kills>>
  BY DEF Launch
<1>4. PICK n \in {IF ~head THEN 0 ELSE IF layout.dp_attention THEN DistPorts ELSE 1} :
        all_engines' = [all_engines EXCEPT ![K][i + 1] = Up(n)]
  BY Zenon DEF Launch
<1>5. DistPorts \in Nat \ {0}
  BY LayoutFacts DEF Placed
<1>6. n \in Nat /\ n <= DistPorts /\ (~head => n = 0)
  <2>1. n = 0 \/ (head /\ (n = DistPorts \/ n = 1))
    BY <1>4
  <2> HIDE DEF head
  <2> QED BY <2>1, <1>5
<1>7. Promised(g, i, a, 0, NextPort)
  BY <1>2, <1>3 DEF Promises, PromisesHold, Waits
<1>8. PortSet(a.ports) /\ a.dist.port \in Nat
  BY <1>7 DEF Promised
<1>9. \A p \in a.dist.port .. a.dist.port + n - 1 : p \in DistPortsOf(a)
  <2> DEFINE from == a.dist.port
  <2>1. from \in Nat
    BY <1>8
  <2> HIDE DEF from
  <2>2. \A p \in from .. from + n - 1 : p \in from .. from + DistPorts - 1
    BY <2>1, <1>5, <1>6
  <2> QED BY <2>2 DEF from, DistPortsOf
<1>10. n = 0 => a.dist.port .. a.dist.port + n - 1 = {}
  <2> DEFINE from == a.dist.port
  <2>1. from \in Nat
    BY <1>8
  <2> HIDE DEF from
  <2>2. from .. from + 0 - 1 = {}
    BY <2>1
  <2> QED BY <2>2 DEF from
<1>11. Bind(n) \subseteq Wide(a)
  BY <1>9 DEF Wide
<1>12. ASSUME Aligned(g)
       PROVE  ~Fails(n) /\ Bind(n) \subseteq Takes(g, i, a)
  <2>1. head <=> i % NodesPerEngine(g) = 0
    BY <1>2, <1>12, HeadOfAligned
  <2>2. /\ a.host = node
        /\ \A p \in Takes(g, i, a) : p \notin Bound(node)
        /\ head => a.dist.host = node /\ \A p \in DistPortsOf(a) : p \notin a.ports
    BY <1>7, <1>12, <2>1 DEF Promised
  <2>3. Bind(n) \subseteq Takes(g, i, a)
    <3>1. CASE head
      BY <3>1, <2>1, <1>9 DEF Takes
    <3>2. CASE ~head
      BY <3>2, <1>6, <1>10 DEF Takes
    <3> QED BY <3>1, <3>2
  <2>4. Bind(n) \cap Bound(node) = {}
    BY <2>2, <2>3
  <2>5. Cardinality(Bind(n)) = Cardinality(a.ports) + n /\ Cardinality(a.ports) \in Nat
    <3> DEFINE ports == a.ports
               from == a.dist.port
    <3>1. n > 0 => head
      BY <1>6
    <3>2. n > 0 => \A p \in from .. from + n - 1 : p \notin ports
      BY <3>1, <2>2, <1>9
    <3>3. IsFiniteSet(ports) /\ from \in Nat
      BY <1>8 DEF PortSet
    <3> HIDE DEF ports, from
    <3>4. Cardinality(ports \cup (from .. from + n - 1)) = Cardinality(ports) + n
      BY <3>2, <3>3, <1>6, PortsCounted
    <3>5. Cardinality(ports) \in Nat
      BY <3>3, FS_CardinalityType
    <3> QED BY <3>4, <3>5 DEF ports, from
  <2>6. ~(Cardinality(Bind(n)) < Cardinality(a.ports) + n)
    <3> DEFINE x == Cardinality(Bind(n))
               y == Cardinality(a.ports)
    <3>1. x = y + n /\ y \in Nat
      BY <2>5
    <3> HIDE DEF x, y
    <3>2. ~(x < y + n)
      BY <3>1, <1>6
    <3> QED BY <3>2 DEF x, y
  <2> HIDE DEF head, node
  <2> QED BY <2>2, <2>3, <2>4, <2>6
<1>13. e = [status |-> "init", ports |-> {}, addr |-> a]
  BY <1>2, <1>3 DEF Promises, SlotsKnown, Slot
<1> DEFINE new == all_engines'[K][S]
<1>14. /\ new = Up(n)
       /\ \A k \in DOMAIN groups :
            /\ DOMAIN all_engines'[k] = DOMAIN all_engines[k]
            /\ \A s \in DOMAIN all_engines[k] : k # K \/ s # S => all_engines'[k][s] = all_engines[k][s]
  <2> DEFINE up == Up(n)
  <2>0. all_engines' = [all_engines EXCEPT ![K][i + 1] = up]
    BY <1>4
  <2> HIDE DEF up
  <2>1. all_engines' = [all_engines EXCEPT ![K][S] = up]
    BY <2>0, <1>2
  <2>2. all_engines'[K][S] = up
    BY <2>1, <1>1
  <2>3. \A k \in DOMAIN groups :
            /\ DOMAIN all_engines'[k] = DOMAIN all_engines[k]
            /\ \A s \in DOMAIN all_engines[k] : k # K \/ s # S => all_engines'[k][s] = all_engines[k][s]
    BY <2>1, <1>1
  <2> QED BY <2>2, <2>3 DEF up
<1>15. /\ Fails(n) => new.status = "failed" /\ new.ports = {}
       /\ ~Fails(n) => new.status = "up" /\ new.ports = Bind(n)
  <2> DEFINE ports == Bind(n)
             fails == Fails(n)
  <2>1. new = IF fails THEN [e EXCEPT !.status = "failed"] ELSE [e EXCEPT !.status = "up", !.ports = ports]
    BY <1>14
  <2> HIDE DEF ports, fails, a, e, new
  <2>2. fails => new.status = "failed" /\ new.ports = {}
    BY <2>1, <1>13
  <2>3. ~fails => new.status = "up" /\ new.ports = ports
    BY <2>1, <1>13
  <2> QED BY <2>2, <2>3 DEF ports, fails
<1>16. new.status \in {"up", "failed"} /\ new.ports \subseteq Wide(a)
  <2> HIDE DEF new, Fails, Bind, a
  <2> QED BY <1>11, <1>15
<1>17. Aligned(g) => new.status = "up" /\ new.ports \subseteq Takes(g, i, a)
  <2> HIDE DEF new, Fails, Bind, a, g, i
  <2> QED BY <1>12, <1>15
<1>18. a = all_engines[K][S].addr /\ Waits(K, S)
  BY <1>2, <1>3 DEF Waits
<1> HIDE DEF a, e
<1>19. Launched(K, S)
  <2>1. /\ new.status \in {"up", "failed"}
        /\ new.ports \subseteq Wide(all_engines[K][S].addr)
        /\ Aligned(groups[K]) =>
             new.status = "up" /\ new.ports \subseteq Takes(groups[K], S - 1, all_engines[K][S].addr)
    BY <1>16, <1>17, <1>18
  <2> HIDE DEF Fails, Bind, Up, head, node
  <2> QED BY <2>1, <1>3, <1>14, <1>18 DEF Launched
<1> QED BY <1>3, <1>19

\* Who waits for engines is decided by the groups and the layout.
LEMMA UpdatableKept ==
  ASSUME layout' = layout, groups' = groups
  PROVE  Updatable' = Updatable
BY DEF Updatable

\* Where nothing is settled that was not, and no other group is recovered.
LEMMA StillWaiting ==
  ASSUME WhoWaits, layout' = layout, groups' = groups, phase' = phase, todo' \subseteq todo,
         \A k \in DOMAIN groups : Settled(k) /\ (phase = "run" \/ k \notin Updatable) => Settled(k)'
  PROVE  WhoWaits'
<1>1. Updatable' = Updatable
  BY UpdatableKept
<1>2. phase' = "run" => \A k \in DOMAIN groups' : Settled(k)'
  BY DEF WhoWaits
<1>3. phase' = "recover" => todo' \subseteq Updatable /\ \A k \in DOMAIN groups' \ Updatable : Settled(k)'
  BY DEF WhoWaits
<1> QED BY <1>1, <1>2, <1>3 DEF WhoWaits

\* Only the groups that are being recovered wait for engines.
LEMMA WaitingKept ==
  ASSUME Placed, Promises, WhoWaits, ServersNext
  PROVE  WhoWaits'
<1>1. CASE StartGroup
  <2>1. phase' = "start"
    BY <1>1 DEF StartGroup
  <2> QED BY <2>1 DEF WhoWaits
<1>2. CASE StartRefused \/ InitRaises
  <2>1. phase' = "raised"
    BY <1>2 DEF StartRefused, InitRaises
  <2> QED BY <2>1 DEF WhoWaits
<1>3. CASE BatchServes
  <2>1. layout' = layout /\ groups' = groups /\ all_engines' = all_engines /\ phase' \in {"run", "start"}
        /\ \A k \in DOMAIN groups : \A s \in DOMAIN all_engines[k] : all_engines[k][s].status = "up"
    BY <1>3 DEF BatchServes, AllWith
  <2>2. \A k \in DOMAIN groups' : Settled(k)'
    BY <2>1 DEF Settled
  <2> QED BY <2>1, <2>2 DEF WhoWaits
<1>4. CASE \E k \in DOMAIN groups : \E s \in DOMAIN all_engines[k] : Launch(k, s - 1)
  <2>1. PICK K \in DOMAIN groups : \E s \in DOMAIN all_engines[K] : Launch(K, s - 1)
    BY <1>4
  <2>2. PICK S \in DOMAIN all_engines[K] : Launch(K, S - 1)
    BY <2>1
  <2>3. Launched(K, S) /\ phase' = phase /\ todo' = todo
    BY <2>2, LaunchIs
  <2>4. ~Settled(K)
    BY <2>3 DEF Launched, Waits, Settled
  <2>5. ASSUME NEW k \in DOMAIN groups, Settled(k) PROVE Settled(k)'
    <3>1. k # K
      BY <2>4, <2>5
    <3>2. DOMAIN all_engines'[k] = DOMAIN all_engines[k]
          /\ \A s \in DOMAIN all_engines[k] : all_engines'[k][s] = all_engines[k][s]
      BY <3>1, <2>3 DEF Launched
    <3> QED BY <3>2, <2>5 DEF Settled
  <2>6. layout' = layout /\ groups' = groups
    BY <2>3 DEF Launched
  <2> QED BY <2>3, <2>5, <2>6, StillWaiting
<1>5. CASE Recover
  <2>1. layout' = layout /\ groups' = groups /\ all_engines' = all_engines /\ phase = "run" /\ phase' = "recover"
        /\ todo' = Updatable
    BY <1>5 DEF Recover
  <2>2. \A k \in DOMAIN groups' : Settled(k)'
    BY <2>1 DEF WhoWaits, Settled
  <2>3. Updatable' = Updatable
    BY <2>1, UpdatableKept
  <2> QED BY <2>1, <2>2, <2>3 DEF WhoWaits
<1>6. CASE RestartGroup
  <2>1. /\ Min(todo) \in Updatable /\ groups' = groups /\ todo' \subseteq todo
        /\ \A k \in DOMAIN groups : k # Min(todo) => all_engines'[k] = all_engines[k]
    BY <1>6, RestartGroupOffers
  <2>2. layout' = layout /\ phase' = phase /\ phase = "recover"
    BY <1>6 DEF RestartGroup
  <2>3. ASSUME NEW k \in DOMAIN groups, Settled(k), k \notin Updatable PROVE Settled(k)'
    <3>1. all_engines'[k] = all_engines[k]
      BY <2>1, <2>3
    <3> QED BY <3>1, <2>3 DEF Settled
  <2>4. \A k \in DOMAIN groups : Settled(k) /\ (phase = "run" \/ k \notin Updatable) => Settled(k)'
    BY <2>2, <2>3
  <2> QED BY <2>1, <2>2, <2>4, StillWaiting
<1>7. CASE Recovered
  <2>1. layout' = layout /\ groups' = groups /\ all_engines' = all_engines /\ phase = "recover" /\ phase' = "run"
        /\ \A k \in Updatable : \A s \in DOMAIN all_engines[k] : all_engines[k][s].status = "up"
    BY <1>7 DEF Recovered
  <2>2. ASSUME NEW k \in DOMAIN groups PROVE Settled(k)
    <3>1. CASE k \in Updatable
      BY <2>1, <3>1 DEF Settled
    <3>2. CASE k \notin Updatable
      BY <2>1, <3>2 DEF WhoWaits
    <3> QED BY <3>1, <3>2
  <2>3. \A k \in DOMAIN groups' : Settled(k)'
    BY <2>1, <2>2 DEF Settled
  <2> QED BY <2>1, <2>3 DEF WhoWaits
<1>8. CASE KillOne
  <2>1. PICK K \in DOMAIN groups :
          \E s \in DOMAIN all_engines[K] : Kill(K, (s - 1) \div NodesPerEngine(groups[K]))
    BY <1>8 DEF KillOne
  <2>2. PICK S \in DOMAIN all_engines[K] : Kill(K, (S - 1) \div NodesPerEngine(groups[K]))
    BY <2>1
  <2> DEFINE e == (S - 1) \div NodesPerEngine(groups[K])
             dead == {s \in DOMAIN all_engines[K] : (s - 1) \div NodesPerEngine(groups[K]) = e}
             slots == [s \in DOMAIN all_engines[K] |-> IF s \in dead THEN NoEngine ELSE all_engines[K][s]]
  <2>3. /\ phase = "run" /\ phase' = "run" /\ layout' = layout /\ groups' = groups
        /\ all_engines' = [all_engines EXCEPT ![K] = slots]
    BY <2>2 DEF Kill
  <2>4. \A s \in DOMAIN slots : s \in DOMAIN all_engines[K] /\ (slots[s] = NoEngine \/ slots[s] = all_engines[K][s])
    OBVIOUS
  <2> HIDE DEF slots
  <2>5. DOMAIN all_engines = DOMAIN groups
    <3>1. IsSequence(all_engines) /\ Len(all_engines) = Len(groups) /\ groups \in Seq(Group)
      BY DEF Placed
    <3>2. DOMAIN all_engines = 1 .. Len(all_engines)
      BY <3>1 DEF IsSequence
    <3> QED BY <3>1, <3>2
  <2>6. \A k \in DOMAIN groups : all_engines'[k] = IF k = K THEN slots ELSE all_engines[k]
    BY <2>3, <2>5
  <2>7. ASSUME NEW k \in DOMAIN groups PROVE Settled(k)'
    <3>1. Settled(k)
      BY <2>3 DEF WhoWaits
    <3>2. NoEngine.status = "none"
      BY DEF NoEngine
    <3> QED BY <2>4, <2>6, <3>1, <3>2 DEF Settled
  <2> QED BY <2>3, <2>7 DEF WhoWaits
<1>9. CASE Restart /\ layout' = layout
  <2>1. phase' = "start"
    BY <1>9 DEF Restart
  <2> QED BY <2>1 DEF WhoWaits
<1>10. CASE UNCHANGED serversVars
  <2>1. layout' = layout /\ groups' = groups /\ all_engines' = all_engines /\ phase' = phase /\ todo' = todo
    BY <1>10 DEF serversVars
  <2>2. \A k \in DOMAIN groups : Settled(k) => Settled(k)'
    BY <2>1 DEF Settled
  <2> QED BY <2>1, <2>2, StillWaiting
<1> QED BY <1>1, <1>2, <1>3, <1>4, <1>5, <1>6, <1>7, <1>8, <1>9, <1>10 DEF ServersNext, Serving, Recovery

\* Where no group is started, nothing is promised.
LEMMA NothingPromised ==
  ASSUME layout \in Layouts, groups = << >>, port_cursors = << >>
  PROVE  Promises
<1>1. DOMAIN groups = {}
  OBVIOUS
<1>2. NextPort \in Nat
  <2>1. DOMAIN << >> = {}
    OBVIOUS
  <2>2. NextPort = FirstPort
    BY <2>1 DEF NextPort, BasePort
  <2> QED BY <2>2, LayoutFacts
<1>3. PortsBounded
  <2>1. 0 \in Nat
    OBVIOUS
  <2> QED BY <1>1, <2>1 DEF PortsBounded
<1> QED BY <1>1, <1>2, <1>3 DEF Promises, SlotsKnown, WholeEngines, PromisesHold, PromisesApart, AddressesHold

\* The promises hold in every state of a job.
LEMMA PromisesKept == JobSpec => [](Placed /\ Promises /\ WhoWaits)
<1>1. JobInit => Promises /\ WhoWaits
  <2> SUFFICES ASSUME JobInit PROVE Promises /\ WhoWaits
    OBVIOUS
  <2>1. layout \in Layouts /\ groups = << >> /\ port_cursors = << >> /\ phase = "start"
    BY DEF JobInit, ServersInit
  <2>2. WhoWaits
    BY <2>1 DEF WhoWaits
  <2> QED BY <2>1, <2>2, NothingPromised
<1>2. Placed /\ Promises /\ WhoWaits /\ [JobNext]_jobVars => (Promises /\ WhoWaits)'
  <2> SUFFICES ASSUME Placed, Promises, WhoWaits, [JobNext]_jobVars PROVE (Promises /\ WhoWaits)'
    OBVIOUS
  <2>0. ServersNext
    BY JobMovesServers
  <2>1. WhoWaits'
    BY <2>0, WaitingKept
  <2>2. Promises'
    <3>1. CASE StartGroup
      BY <3>1, StartGroupOffers, OffersKeep
    <3>2. CASE StartRefused \/ InitRaises \/ Recovered \/ UNCHANGED serversVars
      <4>1. UNCHANGED <<layout, groups, all_engines, port_cursors>>
        BY <3>2 DEF StartRefused, InitRaises, Recovered, serversVars
      <4> QED BY <4>1, UntouchedKeeps
    <3>3. CASE BatchServes \/ Recover
      BY <3>3, CursorsReset
    <3>4. CASE \E k \in DOMAIN groups : \E s \in DOMAIN all_engines[k] : Launch(k, s - 1)
      BY <3>4, LaunchIs, LaunchedKeeps
    <3>5. CASE RestartGroup
      BY <3>5, RestartGroupOffers, OffersKeep
    <3>6. CASE KillOne
      BY <3>6, KillKeeps
    <3>7. CASE Restart /\ layout' = layout
      <4>1. layout' = layout /\ layout \in Layouts /\ groups' = << >> /\ port_cursors' = << >>
        BY <3>7 DEF Restart, Placed
      <4>2. DOMAIN groups' = {}
        BY <4>1
      <4>3. NextPort' \in Nat
        <5>1. DOMAIN << >> = {}
          OBVIOUS
        <5>2. NextPort' = FirstPort
          BY <4>1, <5>1 DEF NextPort, BasePort
        <5> QED BY <5>2, <4>1, LayoutFacts
      <4>4. PortsBounded'
        <5>1. 0 \in Nat
          OBVIOUS
        <5> QED BY <4>2, <5>1 DEF PortsBounded
      <4> QED BY <4>2, <4>3, <4>4 DEF Promises, SlotsKnown, WholeEngines, PromisesHold, PromisesApart, AddressesHold
    <3> QED BY <2>0, <3>1, <3>2, <3>3, <3>4, <3>5, <3>6, <3>7 DEF ServersNext, Serving, Recovery
  <2> QED BY <2>1, <2>2
<1> QED BY <1>1, <1>2, PlacedKept, PTL DEF JobSpec

\* A server of an aligned group finds its ports free, on the node its address names, in
\* whatever order the servers come up and whichever are restarted, on every cluster.
THEOREM AddressesHoldCorrect == JobSpec => []AddressesHold
<1>1. Placed /\ Promises /\ WhoWaits => AddressesHold
  BY DEF Promises
<1> QED BY <1>1, PromisesKept, PTL
=============================================================================
