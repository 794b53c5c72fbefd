---------------------------- MODULE RolloutBuffer ----------------------------
(***************************************************************************)
(* slime_plugins/rollout_buffer: trajectories are generated outside of the *)
(* training.  A generator (base_generator.py) reads the prompts into a     *)
(* queue, its worker processes answer them, and its main loop posts the    *)
(* answers to a server (buffer.py), which collects them into groups.  The  *)
(* rollout function of the training (rollout_buffer_example.py) polls the  *)
(* server until it has a batch and hands it on through the data source.    *)
(*                                                                         *)
(* A fault is an answer without text, a worker that dies, a post that does *)
(* not reach the server or whose reply is lost, and the lost reply to a    *)
(* poll; there are MaxFaults of them.                                      *)
(***************************************************************************)
EXTENDS Naturals, Sequences, FiniteSets, FiniteSetsExt

CONSTANTS
  NumInstances,  \* prompts of the input file
  GroupSize,     \* n_samples_per_prompt, num_repeat_per_sample
  BatchSize,     \* rollout_batch_size
  NumProcess,    \* worker processes
  NumRepeats,    \* bound: passes over the input file
  MaxFetches,    \* bound: batches that are fetched
  MaxFaults,     \* bound: faults
  Faults         \* the kinds of faults that may happen

ASSUME SizesAssumption ==
  /\ {NumInstances, GroupSize, BatchSize, NumProcess, NumRepeats, MaxFetches} \subseteq Nat \ {0}
  /\ MaxFaults \in Nat
  /\ Faults \subseteq {"blank", "none", "crash", "post", "post_reply", "poll_reply"}

VARIABLES
  passes,      \* the passes the reader has put into the task queue
  task_queue,  \* the prompts to answer; Stop ends a worker
  workers,     \* what each worker process answers
  done_queue,  \* the answers; Complete is the last word of a worker
  completed,   \* num_finished: the workers that said it
  posting,     \* the answer the main loop posts, and how often it has tried
  data,        \* the groups of the server
  trainer,     \* the rollout function: "idle", "fetching" or "failed"
  results,     \* what it has been given so far, by prompt
  batches,     \* the batches it has returned
  clock,       \* the number of answers so far, their time stamps and names
  faults       \* the faults so far

generatorVars == <<passes, task_queue, workers, done_queue, completed>>
trainerVars == <<trainer, results, batches>>
vars == <<generatorVars, posting, data, trainerVars, clock, faults>>

Instances == 1 .. NumInstances
Processes == 1 .. NumProcess
Stop == 0
Complete == 0
Idle == 0
Gone == NumInstances + 1   \* the process has ended

MayFail(kind) == kind \in Faults /\ faults < MaxFaults
Fault == faults' = faults + 1

-----------------------------------------------------------------------------
(* The generator.                                                          *)

\* Every prompt GroupSize times.  A pass follows 300 seconds after the last one:
\* it finds the task queue empty.
ReadPass ==
  /\ passes < NumRepeats
  /\ task_queue = << >>
  /\ passes' = passes + 1
  /\ task_queue' = [n \in 1 .. NumInstances * GroupSize |-> (n - 1) \div GroupSize + 1]
                     \o (IF passes' = NumRepeats THEN [p \in Processes |-> Stop] ELSE << >>)
  /\ UNCHANGED <<workers, done_queue, completed, posting, data, trainerVars, clock, faults>>

Take(p) ==
  /\ workers[p] = Idle
  /\ task_queue # << >>
  /\ task_queue' = Tail(task_queue)
  /\ IF Head(task_queue) = Stop
       THEN /\ workers' = [workers EXCEPT ![p] = Gone]
            /\ done_queue' = Append(done_queue, [instance |-> Complete, uid |-> 0, text |-> "none"])
       ELSE /\ workers' = [workers EXCEPT ![p] = Head(task_queue)]
            /\ UNCHANGED done_queue
  /\ UNCHANGED <<passes, completed, posting, data, trainerVars, clock, faults>>

\* query_single_turn: an answer, an empty one, or none after six attempts.
Reply(p) ==
  /\ workers[p] \in Instances
  /\ \E text \in {"text", "blank", "none"} :
       /\ IF text = "text" THEN UNCHANGED faults ELSE MayFail(text) /\ Fault
       /\ clock' = clock + 1
       /\ done_queue' = Append(done_queue, [instance |-> workers[p], uid |-> clock', text |-> text])
  /\ workers' = [workers EXCEPT ![p] = Idle]
  /\ UNCHANGED <<passes, task_queue, completed, posting, data, trainerVars>>

\* Nothing is caught in a worker process.
Crash(p) ==
  /\ workers[p] \in Instances
  /\ MayFail("crash") /\ Fault
  /\ workers' = [workers EXCEPT ![p] = Gone]
  /\ UNCHANGED <<passes, task_queue, done_queue, completed, posting, data, trainerVars, clock>>

\* The main loop takes an answer, until all workers have said Complete.
Collect ==
  /\ posting = << >>
  /\ completed < NumProcess
  /\ done_queue # << >>
  /\ done_queue' = Tail(done_queue)
  /\ IF Head(done_queue).instance = Complete
       THEN completed' = completed + 1 /\ UNCHANGED posting
       ELSE posting' = <<[item |-> Head(done_queue), attempt |-> 1]>> /\ UNCHANGED completed
  /\ UNCHANGED <<passes, task_queue, workers, data, trainerVars, clock, faults>>

WrittenAlone(item) == [data EXCEPT ![item.instance] = <<item>>]

Written(item) == [data EXCEPT ![item.instance] = Append(@, item)]

\* send_data_to_buffer: an answer is given up after the second attempt.
TriedAgain == IF posting[1].attempt = 1 THEN <<[posting[1] EXCEPT !.attempt = 2]>> ELSE << >>

Post ==
  /\ posting # << >>
  /\ \/ data' = Written(posting[1].item) /\ posting' = << >> /\ UNCHANGED faults
     \/ MayFail("post") /\ Fault /\ posting' = TriedAgain /\ UNCHANGED data
     \/ MayFail("post_reply") /\ Fault /\ posting' = TriedAgain /\ data' = Written(posting[1].item)
  /\ UNCHANGED <<generatorVars, trainerVars, clock>>

-----------------------------------------------------------------------------
(* The server.                                                             *)

\* is_valid_group of base_generator.py.
Valid(group) ==
  /\ Len(group) >= GroupSize
  /\ Cardinality({k \in DOMAIN group : group[k].text # "blank"}) >= GroupSize

ValidGroups == {i \in Instances : data[i] # << >> /\ Valid(data[i])}

\* An answer without text has no strip(): the request ends with the status 500.
Raises == \E i \in Instances : \E k \in DOMAIN data[i] : data[i][k].text = "none"

KeptWhenRead == data

\* read() hands over every valid group and forgets it.
LeftWhenRead == [i \in Instances |-> IF i \in ValidGroups THEN << >> ELSE data[i]]

Handed == [i \in Instances |-> IF i \in ValidGroups THEN data[i] ELSE << >>]

-----------------------------------------------------------------------------
(* The rollout function of the training.                                   *)

\* What add_samples and get_samples of the data source were given was all taken
\* by the last batch, so a whole batch is to be fetched.
ToFetch == BatchSize * GroupSize

\* len(results).
Fetched == Cardinality(UNION {{i} \X DOMAIN results[i] : i \in Instances})

\* Names the bound on the passes: a fetch that is started has a pass to come, and
\* another for each fault.
PassesLeft == passes + (MaxFaults - faults) < NumRepeats

StartFetch ==
  /\ trainer = "idle"
  /\ Len(batches) < MaxFetches
  /\ PassesLeft
  /\ trainer' = "fetching"
  /\ results' = [i \in Instances |-> << >>]
  /\ UNCHANGED <<generatorVars, posting, data, batches, clock, faults>>

\* Names the bound on the passes: what is lost is generated again.
PassToCome == passes < NumRepeats

\* A poll that finds something.  Anything else is tried again, for ever if
\* fetch_trajectory_retry_times is -1, and changes nothing unless the reply is
\* lost after the server has let the groups go.
Poll ==
  /\ trainer = "fetching"
  /\ Fetched < ToFetch
  /\ ~Raises
  /\ ValidGroups # {}
  /\ data' = LeftWhenRead
  /\ \/ results' = [i \in Instances |-> results[i] \o Handed[i]] /\ UNCHANGED faults
     \/ MayFail("poll_reply") /\ PassToCome /\ Fault /\ UNCHANGED results
  /\ UNCHANGED <<generatorVars, posting, trainer, batches, clock>>

\* select_rollout_data: the groups of the results, the one with the latest answer
\* first, cut to a batch.
Answered == {i \in Instances : results[i] # << >>}

Latest(i) == Max({results[i][k].uid : k \in DOMAIN results[i]})

\* The place of a group when they are sorted: those with later answers are before it.
Place(i) == Cardinality({j \in Answered : Latest(j) > Latest(i)}) + 1

Selected ==
  [n \in 1 .. Min({BatchSize, Cardinality(Answered)}) |->
     results[CHOOSE i \in Answered : Place(i) = n]]

\* The assertions of select_rollout_data and of add_samples.
Accepted(groups) ==
  /\ BatchSize < Fetched
  /\ \A k \in DOMAIN groups : Len(groups[k]) = GroupSize

EndFetch ==
  /\ trainer = "fetching"
  /\ Fetched >= ToFetch
  /\ \E groups \in {Selected} :
       IF Accepted(groups)
         THEN trainer' = "idle" /\ batches' = Append(batches, groups)
         ELSE trainer' = "failed" /\ UNCHANGED batches
  /\ UNCHANGED <<generatorVars, posting, data, results, clock, faults>>

-----------------------------------------------------------------------------
Init ==
  /\ passes = 0
  /\ task_queue = << >>
  /\ workers = [p \in Processes |-> Idle]
  /\ done_queue = << >>
  /\ completed = 0
  /\ posting = << >>
  /\ data = [i \in Instances |-> << >>]
  /\ trainer = "idle"
  /\ results = [i \in Instances |-> << >>]
  /\ batches = << >>
  /\ clock = 0
  /\ faults = 0

Generator ==
  \/ ReadPass
  \/ \E p \in Processes : Take(p) \/ Reply(p) \/ Crash(p)
  \/ Collect
  \/ Post

Trainer == StartFetch \/ Poll \/ EndFetch

Next == Generator \/ Trainer

Spec == Init /\ [][Next]_vars

\* Every process runs, and the engine answers.
FairSpec == Spec /\ WF_vars(Generator) /\ WF_vars(Trainer)

-----------------------------------------------------------------------------
\* A batch is made of whole groups, each of GroupSize different answers to one
\* prompt, and no answer is trained on twice, whichever worker was faster, when
\* ever the training polled, and whatever was lost on the way.  Not so if a reply
\* to a post is lost: the answer is then posted again and counts twice.
BatchesWhole ==
  /\ \A b \in DOMAIN batches : Len(batches[b]) = BatchSize
  /\ \A b \in DOMAIN batches : \A g \in DOMAIN batches[b] :
       LET group == batches[b][g]
       IN  /\ Len(group) = GroupSize
           /\ \A k \in DOMAIN group : group[k].instance = group[1].instance /\ group[k].text = "text"
  /\ \A b1, b2 \in DOMAIN batches : \A g1 \in DOMAIN batches[b1], g2 \in DOMAIN batches[b2] :
       \A k1 \in DOMAIN batches[b1][g1], k2 \in DOMAIN batches[b2][g2] :
         batches[b1][g1][k1].uid = batches[b2][g2][k2].uid => <<b1, g1, k1>> = <<b2, g2, k2>>

\* A fetch ends, in a batch or in a refusal, although some groups never become
\* valid: others do.  Not so when an answer has no text at all, which ends every
\* later poll with an error.
FetchEnds == trainer = "fetching" ~> trainer # "fetching"

\* The data source is never given a group it refuses.  Not so over several passes
\* of the input: a group that was not valid after the first one gets the answers
\* of the second as well.
NeverRefused == trainer # "failed"
=============================================================================
