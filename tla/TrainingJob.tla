---------------------------- MODULE TrainingJob ----------------------------
(***************************************************************************)
(* A training job: the driver of TrainingDriver on the rollout servers of  *)
(* RolloutServers.  create_rollout_manager starts the servers before the   *)
(* models are created (train.py); the health monitor runs while a rollout  *)
(* is generated; and update_weights has the manager recover the engines    *)
(* that died before it sends them anything (actor.py).  A crash of the job *)
(* takes the servers with it.                                              *)
(***************************************************************************)
EXTENDS TrainingDriver, RolloutServers

CONSTANTS
  Jobs                    \* pairs of a setting and the layout it is run on

ASSUME JobsAssumption == Jobs \subseteq Settings \X Layouts

jobVars == <<vars, serversVars>>

JobInit ==
  /\ Init
  /\ ServersInit
  /\ <<args, layout>> \in Jobs

\* create_rollout_manager returns when every server answers.
CreateOnServers ==
  /\ phase = "run"
  /\ Create
  /\ UNCHANGED serversVars

\* recover_updatable_engines, at the head of update_weights.
Updating == pc = IF args.async THEN "push_loop" ELSE "update"

RecoverInUpdate ==
  /\ Updating
  /\ Recovery
  /\ UNCHANGED vars

UpdateRecovered ==
  /\ phase = "run" /\ ~Missing(Updatable)
  /\ UpdateWeights
  /\ UNCHANGED serversVars

ServersStep ==
  /\ Serving
  /\ UNCHANGED vars

MonitorKills ==
  /\ busy # Nothing
  /\ KillOne
  /\ UNCHANGED vars

OtherDriverStep ==
  /\ \/ FirstPush \/ Submit \/ Collect \/ TrainCritic \/ TrainActor
     \/ SaveActor \/ SaveCritic \/ SaveData \/ SavedData
     \/ AwaitRollout \/ SkipUpdate \/ Dispose
  /\ UNCHANGED serversVars

ManagerStep == Manager /\ UNCHANGED serversVars

\* The next job starts its servers anew.
JobCrash ==
  /\ Crash
  /\ Restart
  /\ UNCHANGED <<layout, kills>>

JobEnded ==
  /\ pc = "done" \/ phase = "raised"
  /\ UNCHANGED jobVars

JobDriver == CreateOnServers \/ UpdateRecovered \/ OtherDriverStep

JobNext ==
  \/ JobDriver
  \/ ManagerStep
  \/ ServersStep
  \/ RecoverInUpdate
  \/ MonitorKills
  \/ JobCrash
  \/ JobEnded

JobSpec == JobInit /\ [][JobNext]_jobVars

\* Nothing is assumed of the servers: an engine need not come up.
FairJobSpec == JobSpec /\ WF_jobVars(JobDriver) /\ WF_jobVars(ManagerStep)

-----------------------------------------------------------------------------
(* Properties. *)

\* A job ends, through restarts and recoveries, or its servers are never whole again.
JobEnds == <>(pc = "done") \/ <>[](phase # "run" \/ Missing(Updatable))
=============================================================================
