------------------------ MODULE RolloutBufferProofs ------------------------
(***************************************************************************)
(* Theorems about the rollout buffer: the batches the training is given    *)
(* are made of whole groups, and no answer is in two of them.              *)
(*                                                                         *)
(* Whole says what a group holds on its way from the server to a batch; a  *)
(* group that is exactly as large as it should be was valid when it was    *)
(* handed over, and nothing was added to it.  Unique follows an answer     *)
(* from the queue of the generator to a batch: it is in one place at most. *)
(* A step moves answers to other places, one for one, or forgets them.     *)
(***************************************************************************)
EXTENDS RolloutBuffer, FiniteSetTheorems, WellFoundedInduction, TLAPS

-----------------------------------------------------------------------------
(* The inductive invariant. *)

Answers == [instance : Instances, uid : Nat, text : {"text", "blank", "none"}]
Word == [instance |-> Complete, uid |-> 0, text |-> "none"]

\* Every variable has its type; the answers of a prompt are kept with it.
TypeOK ==
  /\ passes \in Nat /\ completed \in Nat /\ clock \in Nat /\ faults \in Nat
  /\ task_queue \in Seq(Instances \cup {Stop})
  /\ workers \in [Processes -> Instances \cup {Idle, Gone}]
  /\ done_queue \in Seq(Answers \cup {Word})
  /\ posting \in {<< >>} \cup {<<post>> : post \in [item : Answers, attempt : {1, 2}]}
  /\ data \in [Instances -> Seq(Answers)]
  /\ \A i \in Instances : \A k \in DOMAIN data[i] : data[i][k].instance = i
  /\ trainer \in {"idle", "fetching", "failed"}
  /\ results \in [Instances -> Seq(Answers)]
  /\ \A i \in Instances : \A k \in DOMAIN results[i] : results[i][k].instance = i
  /\ batches \in Seq(Seq(Seq(Answers)))

\* A group that is handed over has at least GroupSize answers; if it has no more than
\* these, all of them have a text.
WholeGroup(group) ==
  group # << >> =>
    Len(group) >= GroupSize /\ (Len(group) = GroupSize => \A k \in DOMAIN group : group[k].text = "text")

\* So are those of the results, and the ones that were returned.
Whole ==
  /\ \A i \in Instances : WholeGroup(results[i])
  /\ \A b \in DOMAIN batches : Len(batches[b]) = BatchSize
  /\ \A b \in DOMAIN batches : \A g \in DOMAIN batches[b] :
       /\ Len(batches[b][g]) = GroupSize
       /\ \A k \in DOMAIN batches[b][g] :
            batches[b][g][k].instance = batches[b][g][1].instance /\ batches[b][g][k].text = "text"

\* Where the answer of a name is: with the generator, at the server, with the training.
Queued(p, u) ==
  \E n \in DOMAIN done_queue :
    done_queue[n].instance # Complete /\ done_queue[n].uid = u /\ p = <<"queue", n, 0, 0>>
Posted(p, u) == posting # << >> /\ posting[1].item.uid = u /\ p = <<"post", 0, 0, 0>>
Stored(p, u) ==
  \E i \in Instances : \E k \in DOMAIN data[i] : data[i][k].uid = u /\ p = <<"data", i, k, 0>>
Given(p, u) ==
  /\ trainer = "fetching"
  /\ \E i \in Instances : \E k \in DOMAIN results[i] : results[i][k].uid = u /\ p = <<"results", i, k, 0>>
Returned(p, u) ==
  \E b \in DOMAIN batches : \E g \in DOMAIN batches[b] : \E k \in DOMAIN batches[b][g] :
    batches[b][g][k].uid = u /\ p = <<"batch", b, g, k>>
Holds(p, u) == Queued(p, u) \/ Posted(p, u) \/ Stored(p, u) \/ Given(p, u) \/ Returned(p, u)

\* An answer is in one place, and has a name that was given.
Unique == \A p, q, u : Holds(p, u) /\ Holds(q, u) => p = q
Named == \A p, u : Holds(p, u) => u <= clock

IInv == TypeOK /\ Whole /\ Unique /\ Named

\* It is enough.
LEMMA IInvGivesBatchesWhole ==
  ASSUME IInv
  PROVE  BatchesWhole
<1>1. /\ \A b \in DOMAIN batches : Len(batches[b]) = BatchSize
      /\ \A b \in DOMAIN batches : \A g \in DOMAIN batches[b] :
           /\ Len(batches[b][g]) = GroupSize
           /\ \A k \in DOMAIN batches[b][g] :
                batches[b][g][k].instance = batches[b][g][1].instance /\ batches[b][g][k].text = "text"
  BY DEF IInv, Whole
<1>2. ASSUME NEW b1 \in DOMAIN batches, NEW b2 \in DOMAIN batches,
             NEW g1 \in DOMAIN batches[b1], NEW g2 \in DOMAIN batches[b2],
             NEW k1 \in DOMAIN batches[b1][g1], NEW k2 \in DOMAIN batches[b2][g2],
             batches[b1][g1][k1].uid = batches[b2][g2][k2].uid
      PROVE  <<b1, g1, k1>> = <<b2, g2, k2>>
  <2> DEFINE u == batches[b1][g1][k1].uid
  <2>1. Returned(<<"batch", b1, g1, k1>>, u) /\ Returned(<<"batch", b2, g2, k2>>, u)
    BY <1>2 DEF Returned
  <2>2. <<"batch", b1, g1, k1>> = <<"batch", b2, g2, k2>>
    BY <2>1 DEF Holds, Unique, IInv
  <2> QED BY <2>2
<1> QED BY <1>1, <1>2 DEF BatchesWhole

\* The sizes.
LEMMA Sizes ==
  /\ NumInstances \in Nat \ {0} /\ GroupSize \in Nat \ {0} /\ BatchSize \in Nat \ {0}
  /\ NumProcess \in Nat \ {0} /\ NumRepeats \in Nat \ {0} /\ MaxFaults \in Nat
BY SizesAssumption

-----------------------------------------------------------------------------
(* The initial states, and the steps that move nothing. *)

\* It holds at first.
LEMMA InitIInv == Init => IInv
<1> SUFFICES ASSUME Init PROVE IInv
  OBVIOUS
<1>1. TypeOK
  BY Sizes DEF Init, TypeOK, Instances, Processes, Idle, Stop, Gone
<1>2. Whole
  BY DEF Init, Whole, WholeGroup
<1>3. \A p, u : ~Holds(p, u)
  BY DEF Init, Holds, Queued, Posted, Stored, Given, Returned
<1> QED BY <1>1, <1>2, <1>3 DEF IInv, Unique, Named

\* If every answer was somewhere before, each in a place of its own, all is well.
LEMMA StayUnique ==
  ASSUME IInv, clock' = clock, \A p, u : Holds(p, u)' => Holds(p, u)
  PROVE  Unique' /\ Named'
BY DEF IInv, Unique, Named

\* The places an answer may be in.
Places == {"queue", "post", "data", "results", "batch"} \X Nat \X Nat \X Nat

\* An answer is in one of them, and its name is a number.
LEMMA HeldPlace ==
  ASSUME TypeOK, NEW p, NEW u, Holds(p, u)
  PROVE  p \in Places /\ u \in Nat
<1>1. CASE Queued(p, u)
  <2>1. PICK n \in DOMAIN done_queue :
          done_queue[n].instance # Complete /\ done_queue[n].uid = u /\ p = <<"queue", n, 0, 0>>
    BY <1>1 DEF Queued
  <2>2. n \in Nat /\ done_queue[n] \in Answers \cup {Word}
    BY DEF TypeOK
  <2>3. done_queue[n].uid \in Nat
    BY <2>2 DEF Answers, Word
  <2> QED BY <2>1, <2>2, <2>3 DEF Places
<1>2. CASE Posted(p, u)
  BY <1>2 DEF Posted, TypeOK, Answers, Places
<1>3. CASE Stored(p, u)
  <2>1. PICK i \in Instances : \E k \in DOMAIN data[i] : data[i][k].uid = u /\ p = <<"data", i, k, 0>>
    BY <1>3 DEF Stored
  <2>2. PICK k \in DOMAIN data[i] : data[i][k].uid = u /\ p = <<"data", i, k, 0>>
    BY <2>1
  <2>3. data[i] \in Seq(Answers)
    BY DEF TypeOK
  <2>4. k \in Nat /\ data[i][k] \in Answers /\ i \in Nat
    BY <2>3 DEF Instances
  <2> QED BY <2>2, <2>4 DEF Answers, Places
<1>4. CASE Given(p, u)
  <2>1. PICK i \in Instances : \E k \in DOMAIN results[i] : results[i][k].uid = u /\ p = <<"results", i, k, 0>>
    BY <1>4 DEF Given
  <2>2. PICK k \in DOMAIN results[i] : results[i][k].uid = u /\ p = <<"results", i, k, 0>>
    BY <2>1
  <2>3. results[i] \in Seq(Answers)
    BY DEF TypeOK
  <2>4. k \in Nat /\ results[i][k] \in Answers /\ i \in Nat
    BY <2>3 DEF Instances
  <2> QED BY <2>2, <2>4 DEF Answers, Places
<1>5. CASE Returned(p, u)
  <2>1. PICK b \in DOMAIN batches : \E g \in DOMAIN batches[b] : \E k \in DOMAIN batches[b][g] :
          batches[b][g][k].uid = u /\ p = <<"batch", b, g, k>>
    BY <1>5 DEF Returned
  <2>2. PICK g \in DOMAIN batches[b] : \E k \in DOMAIN batches[b][g] :
          batches[b][g][k].uid = u /\ p = <<"batch", b, g, k>>
    BY <2>1
  <2>3. PICK k \in DOMAIN batches[b][g] : batches[b][g][k].uid = u /\ p = <<"batch", b, g, k>>
    BY <2>2
  <2>4. b \in Nat /\ batches[b] \in Seq(Seq(Answers))
    BY DEF TypeOK
  <2>5. g \in Nat /\ batches[b][g] \in Seq(Answers)
    BY <2>4
  <2>6. k \in Nat /\ batches[b][g][k] \in Answers
    BY <2>5
  <2> QED BY <2>3, <2>4, <2>5, <2>6 DEF Answers, Places
<1> QED BY <1>1, <1>2, <1>3, <1>4, <1>5 DEF Holds

\* A step that moves answers: from is where the answer of a place was, to where it goes.
LEMMA MovedUnique ==
  ASSUME IInv, clock' = clock, NEW from, NEW to,
         \A p, u : Holds(p, u)' => Holds(from[p], u) /\ to[from[p]] = p
  PROVE  Unique' /\ Named'
<1>1. ASSUME NEW p, NEW q, NEW u, Holds(p, u)', Holds(q, u)' PROVE p = q
  <2>1. from[p] = from[q]
    BY <1>1 DEF IInv, Unique
  <2> QED BY <1>1, <2>1
<1>2. ASSUME NEW p, NEW u, Holds(p, u)' PROVE u <= clock
  BY <1>2 DEF IInv, Named
<1> QED BY <1>1, <1>2 DEF Unique, Named

\* The batches and results stay whole.
LEMMA StayWhole ==
  ASSUME IInv, UNCHANGED <<results, batches>>
  PROVE  Whole'
BY DEF IInv, Whole, WholeGroup
\* Products keep the order.
LEMMA TimesMonotone ==
  ASSUME NEW a \in Nat, NEW b \in Nat, NEW c \in Nat, a <= b
  PROVE  a * c <= b * c
<1> DEFINE d == b - a
           e == d * c
<1>1. d \in Nat /\ b = a + d
  OBVIOUS
<1>2. e \in Nat
  BY <1>1
<1>3. b * c = a * c + e
  BY <1>1
<1>4. a * c \in Nat
  OBVIOUS
<1> HIDE DEF d, e
<1> QED BY <1>2, <1>3, <1>4

\* A pass has the prompts of the input, each GroupSize times.
LEMMA PassPrompts ==
  ASSUME NEW n \in 1 .. NumInstances * GroupSize
  PROVE  (n - 1) \div GroupSize + 1 \in Instances
<1> DEFINE G == GroupSize
           N == NumInstances
           d == (n - 1) \div G
<1>1. G \in Nat \ {0} /\ N \in Nat \ {0}
  BY Sizes
<1>2. N * G \in Nat /\ n \in Nat /\ 1 <= n /\ n <= N * G
  BY <1>1
<1> HIDE DEF G, N
<1>3. n - 1 \in Nat
  BY <1>2
<1>4. d \in Nat /\ d * G <= n - 1
  BY <1>1, <1>3
<1> HIDE DEF d
<1>5. ~(N <= d)
  <2> SUFFICES ASSUME N <= d PROVE FALSE
    OBVIOUS
  <2>1. N * G <= d * G
    BY <1>1, <1>4, TimesMonotone
  <2>2. d * G \in Nat
    BY <1>1, <1>4
  <2> QED BY <1>2, <1>4, <2>1, <2>2
<1>6. d + 1 \in 1 .. N
  BY <1>1, <1>4, <1>5
<1> QED BY <1>6 DEF d, G, N, Instances

\* A pass moves no answers.
LEMMA ReadPassKeeps ==
  ASSUME IInv, ReadPass
  PROVE  IInv'
<1>1. task_queue' \in Seq(Instances \cup {Stop})
  <2> DEFINE pass == [n \in 1 .. NumInstances * GroupSize |-> (n - 1) \div GroupSize + 1]
             stops == IF passes' = NumRepeats THEN [p \in Processes |-> Stop] ELSE << >>
             T == Instances \cup {Stop}
  <2>1. pass \in Seq(T)
    <3> DEFINE m == NumInstances * GroupSize
    <3>1. m \in Nat
      BY Sizes
    <3>2. \A n \in 1 .. m : (n - 1) \div GroupSize + 1 \in T
      BY PassPrompts
    <3>3. pass = [n \in 1 .. m |-> (n - 1) \div GroupSize + 1]
      OBVIOUS
    <3> HIDE DEF m, pass, T
    <3>4. pass \in [1 .. m -> T]
      BY <3>2, <3>3
    <3> QED BY <3>1, <3>4
  <2>2. stops \in Seq(T)
    BY Sizes DEF Processes
  <2>3. task_queue' = pass \o stops
    BY DEF ReadPass
  <2> HIDE DEF pass, stops, T
  <2>4. task_queue' \in Seq(T)
    BY <2>1, <2>2, <2>3
  <2> QED BY <2>4 DEF T
<1>2. TypeOK'
  BY <1>1 DEF IInv, TypeOK, ReadPass, generatorVars, trainerVars
<1>3. \A p, u : Holds(p, u)' => Holds(p, u)
  BY DEF ReadPass, trainerVars, Holds, Queued, Posted, Stored, Given, Returned
<1>4. Unique' /\ Named' /\ Whole'
  BY <1>3, StayUnique, StayWhole DEF ReadPass, trainerVars
<1> QED BY <1>2, <1>4 DEF IInv

\* The last word of a worker is no answer.
LEMMA TakeKeeps ==
  ASSUME IInv, NEW P \in Processes, Take(P)
  PROVE  IInv'
<1>1. /\ task_queue \in Seq(Instances \cup {Stop}) /\ task_queue # << >>
      /\ task_queue' = Tail(task_queue)
      /\ UNCHANGED <<passes, completed, posting, data, trainer, results, batches, clock, faults>>
  BY DEF IInv, TypeOK, Take, trainerVars
<1>2. Head(task_queue) \in Instances \cup {Stop} /\ task_queue' \in Seq(Instances \cup {Stop})
  BY <1>1
<1>3. CASE Head(task_queue) = Stop
  <2>1. workers' = [workers EXCEPT ![P] = Gone] /\ done_queue' = Append(done_queue, Word)
    BY <1>3 DEF Take, Word
  <2>2. workers' \in [Processes -> Instances \cup {Idle, Gone}]
    BY <2>1 DEF IInv, TypeOK
  <2>3. done_queue \in Seq(Answers \cup {Word})
    BY DEF IInv, TypeOK
  <2>4. /\ done_queue' \in Seq(Answers \cup {Word})
        /\ \A n \in DOMAIN done_queue' : (n \in DOMAIN done_queue /\ done_queue'[n] = done_queue[n]) \/ done_queue'[n] = Word
    BY <2>1, <2>3
  <2>5. TypeOK'
    BY <1>1, <1>2, <2>2, <2>4 DEF IInv, TypeOK
  <2>6. \A p, u : Queued(p, u)' => Queued(p, u)
    BY <2>4 DEF Queued, Word, Complete
  <2>7. \A p, u : Holds(p, u)' => Holds(p, u)
    BY <1>1, <2>6 DEF Holds, Posted, Stored, Given, Returned
  <2> QED BY <1>1, <2>5, <2>7, StayUnique, StayWhole DEF IInv
<1>4. CASE Head(task_queue) # Stop
  <2>1. workers' = [workers EXCEPT ![P] = Head(task_queue)] /\ done_queue' = done_queue
    BY <1>4 DEF Take
  <2>2. workers' \in [Processes -> Instances \cup {Idle, Gone}]
    BY <1>2, <1>4, <2>1 DEF IInv, TypeOK
  <2>3. TypeOK'
    BY <1>1, <1>2, <2>1, <2>2 DEF IInv, TypeOK
  <2>4. \A p, u : Holds(p, u)' => Holds(p, u)
    BY <1>1, <2>1 DEF Holds, Queued, Posted, Stored, Given, Returned
  <2> QED BY <1>1, <2>3, <2>4, StayUnique, StayWhole DEF IInv
<1> QED BY <1>3, <1>4

\* What a worker was about to answer is lost: there is no answer yet.
LEMMA CrashKeeps ==
  ASSUME IInv, NEW P \in Processes, Crash(P)
  PROVE  IInv'
<1>1. TypeOK'
  BY DEF IInv, TypeOK, Crash, Fault, trainerVars
<1>2. \A p, u : Holds(p, u)' => Holds(p, u)
  BY DEF Crash, trainerVars, Holds, Queued, Posted, Stored, Given, Returned
<1>3. Unique' /\ Named' /\ Whole'
  BY <1>2, StayUnique, StayWhole DEF Crash, trainerVars
<1> QED BY <1>1, <1>3 DEF IInv

-----------------------------------------------------------------------------
(* The steps of an answer to the server. *)

\* A new answer has a new name.
LEMMA ReplyKeeps ==
  ASSUME IInv, NEW P \in Processes, Reply(P)
  PROVE  IInv'
<1> DEFINE N == Len(done_queue)
           new == <<"queue", N + 1, 0, 0>>
<1>1. PICK text \in {"text", "blank", "none"} :
        /\ faults' = faults \/ faults' = faults + 1
        /\ clock' = clock + 1
        /\ done_queue' = Append(done_queue, [instance |-> workers[P], uid |-> clock', text |-> text])
  BY DEF Reply, Fault
<1>2. /\ workers[P] \in Instances /\ workers' = [workers EXCEPT ![P] = Idle]
      /\ UNCHANGED <<passes, task_queue, completed, posting, data, trainer, results, batches>>
  BY DEF Reply, trainerVars
<1> DEFINE item == [instance |-> workers[P], uid |-> clock', text |-> text]
<1>3. clock \in Nat /\ item \in Answers /\ item.uid = clock + 1
  BY <1>1, <1>2 DEF IInv, TypeOK, Answers
<1>4. done_queue \in Seq(Answers \cup {Word})
  BY DEF IInv, TypeOK
<1> HIDE DEF item
<1>5. /\ done_queue' \in Seq(Answers \cup {Word})
      /\ \A n \in DOMAIN done_queue' :
           (n \in DOMAIN done_queue /\ done_queue'[n] = done_queue[n]) \/ (n = N + 1 /\ done_queue'[n] = item)
  BY <1>1, <1>3, <1>4 DEF item
<1>6. TypeOK'
  <2>1. workers' \in [Processes -> Instances \cup {Idle, Gone}]
    BY <1>2 DEF IInv, TypeOK
  <2> QED BY <1>1, <1>2, <1>5, <2>1 DEF IInv, TypeOK
<1> HIDE DEF new
<1>7. \A p, u : Holds(p, u)' => Holds(p, u) \/ (u = clock + 1 /\ p = new)
  <2>1. \A p, u : Queued(p, u)' => Queued(p, u) \/ (u = clock + 1 /\ p = new)
    BY <1>3, <1>5 DEF Queued, new
  <2> QED BY <1>2, <2>1 DEF Holds, Posted, Stored, Given, Returned
<1>8. Named'
  <2> SUFFICES ASSUME NEW p, NEW u, Holds(p, u)' PROVE u <= clock'
    BY DEF Named
  <2>1. CASE Holds(p, u)
    <3>1. u <= clock /\ u \in Nat
      BY <2>1, HeldPlace DEF IInv, Named
    <3> QED BY <3>1, <1>1, <1>3
  <2> QED BY <1>1, <1>3, <1>7, <2>1
<1>9. Unique'
  <2> SUFFICES ASSUME NEW p, NEW q, NEW u, Holds(p, u)', Holds(q, u)' PROVE p = q
    BY DEF Unique
  <2>1. ASSUME NEW x, Holds(x, u) PROVE u # clock + 1
    <3>1. u <= clock /\ u \in Nat
      BY <2>1, HeldPlace DEF IInv, Named
    <3> QED BY <3>1, <1>3
  <2>2. CASE u = clock + 1
    BY <1>7, <2>1, <2>2
  <2>3. CASE u # clock + 1
    BY <1>7, <2>3 DEF IInv, Unique
  <2> QED BY <2>2, <2>3
<1> QED BY <1>2, <1>6, <1>8, <1>9, StayWhole DEF IInv

\* The main loop takes the first of the queue.
LEMMA CollectKeeps ==
  ASSUME IInv, Collect
  PROVE  IInv'
<1>1. /\ posting = << >> /\ done_queue # << >> /\ done_queue' = Tail(done_queue)
      /\ UNCHANGED <<passes, task_queue, workers, data, trainer, results, batches, clock, faults>>
  BY DEF Collect, trainerVars
<1>2. done_queue \in Seq(Answers \cup {Word})
  BY DEF IInv, TypeOK
<1> DEFINE head == Head(done_queue)
<1>3. /\ head \in Answers \cup {Word} /\ head = done_queue[1] /\ 1 \in DOMAIN done_queue
      /\ done_queue' \in Seq(Answers \cup {Word})
      /\ \A n \in DOMAIN done_queue' :
           n \in Nat \ {0} /\ n + 1 \in DOMAIN done_queue /\ done_queue'[n] = done_queue[n + 1]
  BY <1>1, <1>2
<1> HIDE DEF head
<1>4. \/ head.instance = Complete /\ completed' = completed + 1 /\ posting' = posting
      \/ /\ head.instance # Complete /\ completed' = completed
         /\ posting' = <<[item |-> head, attempt |-> 1]>>
  BY DEF Collect, head
<1>5. TypeOK'
  <2>1. head.instance # Complete => head \in Answers
    BY <1>3 DEF Word
  <2>2. posting' \in {<< >>} \cup {<<post>> : post \in [item : Answers, attempt : {1, 2}]}
    BY <1>1, <1>4, <2>1
  <2>3. completed' \in Nat
    BY <1>4 DEF IInv, TypeOK
  <2> QED BY <1>1, <1>3, <2>2, <2>3 DEF IInv, TypeOK
<1> DEFINE from == [p \in Places |->
                     IF p[1] = "queue" THEN <<"queue", p[2] + 1, 0, 0>>
                     ELSE IF p[1] = "post" THEN <<"queue", 1, 0, 0>> ELSE p]
           to == [p \in Places |->
                     IF p[1] = "queue"
                     THEN IF p[2] = 1 THEN <<"post", 0, 0, 0>> ELSE <<"queue", p[2] - 1, 0, 0>>
                     ELSE p]
<1>6. ASSUME NEW p, NEW u, Holds(p, u)' PROVE Holds(from[p], u) /\ to[from[p]] = p
  <2>1. CASE Queued(p, u)'
    <3>1. PICK n \in DOMAIN done_queue' :
            done_queue'[n].instance # Complete /\ done_queue'[n].uid = u /\ p = <<"queue", n, 0, 0>>
      BY <2>1 DEF Queued
    <3>2. n \in Nat \ {0} /\ n + 1 \in DOMAIN done_queue /\ done_queue'[n] = done_queue[n + 1]
      BY <1>3
    <3>3. from[p] = <<"queue", n + 1, 0, 0>>
      BY <3>1, <3>2 DEF Places
    <3>4. to[<<"queue", n + 1, 0, 0>>] = <<"queue", n, 0, 0>>
      <4> DEFINE q == <<"queue", n + 1, 0, 0>>
      <4>1. q \in Places /\ q[1] = "queue" /\ q[2] = n + 1
        BY <3>2 DEF Places
      <4>2. q[2] # 1 /\ q[2] - 1 = n
        BY <3>2, <4>1
      <4> HIDE DEF q
      <4>3. to[q] = <<"queue", q[2] - 1, 0, 0>>
        BY <4>1, <4>2
      <4>4. to[q] = <<"queue", n, 0, 0>>
        BY <4>2, <4>3
      <4> QED BY <4>4 DEF q
    <3>5. Queued(from[p], u)
      BY <3>1, <3>2, <3>3 DEF Queued
    <3> QED BY <3>1, <3>3, <3>4, <3>5 DEF Holds
  <2>2. CASE Posted(p, u)'
    <3>1. posting' # << >> /\ posting'[1].item.uid = u /\ p = <<"post", 0, 0, 0>>
      BY <2>2 DEF Posted
    <3>2. head.instance # Complete /\ head.uid = u
      BY <1>1, <1>4, <3>1
    <3>3. from[p] = <<"queue", 1, 0, 0>>
      BY <3>1 DEF Places
    <3>4. to[<<"queue", 1, 0, 0>>] = <<"post", 0, 0, 0>>
      BY DEF Places
    <3>5. Queued(from[p], u)
      BY <1>3, <3>2, <3>3 DEF Queued
    <3> QED BY <3>1, <3>3, <3>4, <3>5 DEF Holds
  <2>3. CASE Stored(p, u)' \/ Given(p, u)' \/ Returned(p, u)'
    <3>1. Stored(p, u) \/ Given(p, u) \/ Returned(p, u)
      BY <1>1, <2>3 DEF Stored, Given, Returned
    <3>2. p \in Places /\ Holds(p, u)
      BY <3>1, HeldPlace DEF Holds, IInv
    <3>3. p[1] # "queue" /\ p[1] # "post"
      BY <3>1 DEF Stored, Given, Returned
    <3>4. from[p] = p /\ to[p] = p
      BY <3>2, <3>3
    <3> QED BY <3>2, <3>4
  <2> QED BY <1>6, <2>1, <2>2, <2>3 DEF Holds
<1> HIDE DEF from, to
<1>7. Unique' /\ Named'
  BY <1>1, <1>6, MovedUnique
<1> QED BY <1>1, <1>5, <1>7, StayWhole DEF IInv

\* The server appends an answer that arrives to the group of its prompt.
LEMMA PostKeeps ==
  ASSUME IInv, Post, "post_reply" \notin Faults
  PROVE  IInv'
<1> DEFINE item == posting[1].item
           I == item.instance
           N == Len(data[I])
<1>1. /\ posting # << >>
      /\ UNCHANGED <<passes, task_queue, workers, done_queue, completed, trainer, results, batches, clock>>
      /\ \/ data' = Written(item) /\ posting' = << >> /\ faults' = faults
         \/ data' = data /\ posting' = TriedAgain /\ faults' = faults + 1
  BY DEF Post, generatorVars, trainerVars, MayFail, Fault
<1>2. PICK post \in [item : Answers, attempt : {1, 2}] : posting = <<post>>
  BY <1>1 DEF IInv, TypeOK
<1>3. posting[1] = post /\ item \in Answers /\ I \in Instances
  BY <1>2 DEF Answers
<1>4. CASE data' = data /\ posting' = TriedAgain /\ faults' = faults + 1
  <2>1. posting' = << >> \/ (posting' = <<[post EXCEPT !.attempt = 2]>> /\ posting'[1].item = item)
    BY <1>2, <1>3, <1>4 DEF TriedAgain
  <2>2. posting' \in {<< >>} \cup {<<p>> : p \in [item : Answers, attempt : {1, 2}]}
    BY <2>1
  <2>3. TypeOK'
    BY <1>1, <1>4, <2>2 DEF IInv, TypeOK
  <2>4. \A p, u : Posted(p, u)' => Posted(p, u)
    BY <1>1, <2>1 DEF Posted
  <2>5. \A p, u : Holds(p, u)' => Holds(p, u)
    BY <1>1, <1>4, <2>4 DEF Holds, Queued, Stored, Given, Returned
  <2> QED BY <1>1, <2>3, <2>5, StayUnique, StayWhole DEF IInv
<1>5. CASE data' = Written(item) /\ posting' = << >> /\ faults' = faults
  <2>1. data \in [Instances -> Seq(Answers)] /\ data[I] \in Seq(Answers) /\ N \in Nat
    BY <1>3 DEF IInv, TypeOK
  <2>2. data' = [data EXCEPT ![I] = Append(data[I], item)]
    BY <1>5 DEF Written
  <2> HIDE DEF item
  <2>3. /\ data' \in [Instances -> Seq(Answers)]
        /\ \A i \in Instances \ {I} : data'[i] = data[i]
        /\ data'[I] = Append(data[I], item)
    BY <1>3, <2>1, <2>2
  <2>4. /\ \A k \in DOMAIN data'[I] : (k \in DOMAIN data[I] /\ data'[I][k] = data[I][k]) \/ (k = N + 1 /\ data'[I][k] = item)
        /\ N + 1 \notin DOMAIN data[I]
    BY <1>3, <2>1, <2>3
  <2>5. \A i \in Instances : \A k \in DOMAIN data'[i] : data'[i][k].instance = i
    <3> SUFFICES ASSUME NEW i \in Instances, NEW k \in DOMAIN data'[i] PROVE data'[i][k].instance = i
      OBVIOUS
    <3>1. CASE i # I
      BY <2>3, <3>1 DEF IInv, TypeOK
    <3>2. CASE i = I
      <4>1. CASE k \in DOMAIN data[I] /\ data'[I][k] = data[I][k]
        BY <1>3, <3>2, <4>1 DEF IInv, TypeOK
      <4>2. CASE k = N + 1 /\ data'[I][k] = item
        BY <3>2, <4>2
      <4> QED BY <2>4, <3>2, <4>1, <4>2
    <3> QED BY <3>1, <3>2
  <2>6. TypeOK'
    BY <1>1, <1>5, <2>3, <2>5 DEF IInv, TypeOK
  <2> DEFINE P == <<"post", 0, 0, 0>>
             Q == <<"data", I, N + 1, 0>>
             from == [p \in Places |-> IF p = Q THEN P ELSE p]
             to == [p \in Places |-> IF p = P THEN Q ELSE p]
  <2>7. P \in Places /\ Q \in Places /\ P # Q
    BY <1>3, <2>1 DEF Places, Instances
  <2>8. Posted(P, item.uid)
    BY <1>1 DEF Posted, item
  <2> HIDE DEF P, Q
  <2>9. ASSUME NEW p, NEW u, Holds(p, u)' PROVE (Holds(p, u) /\ p # Q /\ p # P) \/ (p = Q /\ u = item.uid)
    <3>1. CASE Stored(p, u)'
      <4>1. PICK i \in Instances : \E k \in DOMAIN data'[i] : data'[i][k].uid = u /\ p = <<"data", i, k, 0>>
        BY <3>1 DEF Stored
      <4>2. PICK k \in DOMAIN data'[i] : data'[i][k].uid = u /\ p = <<"data", i, k, 0>>
        BY <4>1
      <4>3. CASE i = I /\ k = N + 1
        BY <2>4, <4>2, <4>3 DEF Q
      <4>4. CASE ~(i = I /\ k = N + 1)
        <5>1. k \in DOMAIN data[i] /\ data[i][k].uid = u
          BY <2>3, <2>4, <4>2, <4>4
        <5>2. Stored(p, u)
          BY <4>2, <5>1 DEF Stored
        <5> QED BY <4>2, <4>4, <5>2 DEF Holds, P, Q
      <4> QED BY <4>3, <4>4
    <3>2. CASE Queued(p, u)' \/ Given(p, u)' \/ Returned(p, u)'
      <4>1. Queued(p, u) \/ Given(p, u) \/ Returned(p, u)
        BY <1>1, <3>2 DEF Queued, Given, Returned
      <4>2. p # P /\ p # Q
        BY <4>1 DEF Queued, Given, Returned, P, Q
      <4> QED BY <4>1, <4>2 DEF Holds
    <3>3. ~Posted(p, u)'
      BY <1>5 DEF Posted
    <3> QED BY <2>9, <3>1, <3>2, <3>3 DEF Holds
  <2>10. ASSUME NEW p, NEW u, Holds(p, u)' PROVE Holds(from[p], u) /\ to[from[p]] = p
    <3>1. CASE Holds(p, u) /\ p # Q /\ p # P
      <4>1. p \in Places
        BY <3>1, HeldPlace DEF IInv
      <4> QED BY <3>1, <4>1
    <3>2. CASE p = Q /\ u = item.uid
      <4>1. from[p] = P /\ to[P] = Q
        BY <3>2, <2>7
      <4> QED BY <3>2, <4>1, <2>8 DEF Holds
    <3> QED BY <2>9, <2>10, <3>1, <3>2
  <2> HIDE DEF from, to
  <2>11. Unique' /\ Named'
    BY <1>1, <2>10, MovedUnique
  <2> QED BY <1>1, <2>6, <2>11, StayWhole DEF IInv
<1> QED BY <1>1, <1>4, <1>5

-----------------------------------------------------------------------------
(* The training polls. *)

\* What the last fetch had is forgotten.
LEMMA StartFetchKeeps ==
  ASSUME IInv, StartFetch
  PROVE  IInv'
<1>1. /\ trainer' = "fetching" /\ results' = [i \in Instances |-> << >>]
      /\ UNCHANGED <<passes, task_queue, workers, done_queue, completed, posting, data, batches, clock, faults>>
  BY DEF StartFetch, generatorVars
<1>2. \A i \in Instances : results'[i] = << >>
  BY <1>1
<1>3. TypeOK'
  <2>1. results' \in [Instances -> Seq(Answers)]
    BY <1>1
  <2> QED BY <1>1, <1>2, <2>1 DEF IInv, TypeOK
<1>4. Whole'
  BY <1>1, <1>2 DEF IInv, Whole, WholeGroup
<1>5. \A p, u : Holds(p, u)' => Holds(p, u)
  <2>1. \A p, u : ~Given(p, u)'
    BY <1>2 DEF Given
  <2> QED BY <1>1, <2>1 DEF Holds, Queued, Posted, Stored, Returned
<1> QED BY <1>1, <1>3, <1>4, <1>5, StayUnique DEF IInv

\* A group that is handed over is whole.
LEMMA ValidWhole ==
  ASSUME TypeOK, ~Raises, NEW i \in ValidGroups
  PROVE  /\ i \in Instances /\ data[i] \in Seq(Answers) /\ Len(data[i]) \in Nat
         /\ Len(data[i]) >= GroupSize /\ WholeGroup(data[i])
<1> DEFINE group == data[i]
           N == Len(group)
           kept == {k \in DOMAIN group : group[k].text # "blank"}
<1>1. i \in Instances /\ Len(group) >= GroupSize /\ Cardinality(kept) >= GroupSize
  BY DEF ValidGroups, Valid
<1>2. group \in Seq(Answers) /\ N \in Nat /\ DOMAIN group = 1 .. N
  BY <1>1 DEF TypeOK
<1>3. ASSUME N = GroupSize, NEW k \in DOMAIN group PROVE group[k].text = "text"
  <2>1. IsFiniteSet(1 .. N) /\ Cardinality(1 .. N) = N
    BY <1>2, FS_Interval
  <2>2. kept \subseteq 1 .. N
    BY <1>2
  <2> HIDE DEF kept, N, group
  <2>3. kept = 1 .. N
    <3>1. kept \in SUBSET (1 .. N)
      BY <2>2
    <3>2. Cardinality(kept) <= Cardinality(1 .. N) /\ (Cardinality(1 .. N) = Cardinality(kept) => 1 .. N = kept)
      BY <2>1, <3>1, FS_Subset
    <3>3. Cardinality(kept) \in Nat
      BY <2>1, <3>1, FS_Subset, FS_CardinalityType
    <3>4. GroupSize \in Nat
      BY Sizes
    <3>5. Cardinality(kept) = N
      BY <1>1, <1>2, <1>3, <2>1, <3>2, <3>3, <3>4
    <3> QED BY <2>1, <3>2, <3>5
  <2>4. group[k].text # "blank"
    BY <1>2, <1>3, <2>3 DEF kept
  <2>5. group[k].text # "none"
    BY <1>1, <1>3 DEF Raises, group
  <2>6. group[k] \in Answers
    BY <1>2, <1>3
  <2> QED BY <2>4, <2>5, <2>6 DEF Answers
<1> QED BY <1>1, <1>2, <1>3 DEF WholeGroup

\* What follows the first a of a sequence is in the b that were appended.
LEMMA Beyond ==
  ASSUME NEW a \in Nat, NEW b \in Nat, NEW k \in 1 .. a + b, k \notin 1 .. a
  PROVE  k - a \in 1 .. b /\ a + (k - a) = k /\ k \in Nat
OBVIOUS

\* Two groups that are large enough are too large together.
LEMMA TwoLarger ==
  ASSUME NEW g \in Nat \ {0}, NEW a \in Nat, NEW b \in Nat, a >= g, b >= g
  PROVE  a + b >= g /\ a + b # g
OBVIOUS

\* What is handed over joins what is there already; a lost reply loses it.
LEMMA PollKeeps ==
  ASSUME IInv, Poll
  PROVE  IInv'
<1>1. /\ trainer = "fetching" /\ ~Raises /\ data' = LeftWhenRead
      /\ UNCHANGED <<passes, task_queue, workers, done_queue, completed, posting, trainer, batches, clock>>
      /\ \/ results' = [i \in Instances |-> results[i] \o Handed[i]] /\ faults' = faults
         \/ results' = results /\ faults' = faults + 1
  BY DEF Poll, generatorVars, Fault
<1>2. data \in [Instances -> Seq(Answers)] /\ results \in [Instances -> Seq(Answers)] /\ faults' \in Nat
  BY <1>1 DEF IInv, TypeOK
<1>3. /\ data' \in [Instances -> Seq(Answers)]
      /\ \A i \in ValidGroups : data'[i] = << >>
      /\ \A i \in Instances \ ValidGroups : data'[i] = data[i]
  BY <1>1, <1>2 DEF LeftWhenRead, ValidGroups
<1>4. \A i \in Instances : \A k \in DOMAIN data'[i] : i \notin ValidGroups /\ data'[i] = data[i]
  BY <1>3
<1>5. CASE results' = results
  <2>1. TypeOK'
    BY <1>1, <1>2, <1>3, <1>4, <1>5 DEF IInv, TypeOK
  <2>2. \A p, u : Stored(p, u)' => Stored(p, u)
    BY <1>4 DEF Stored
  <2>3. \A p, u : Holds(p, u)' => Holds(p, u)
    BY <1>1, <1>5, <2>2 DEF Holds, Queued, Posted, Given, Returned
  <2> QED BY <1>1, <1>5, <2>1, <2>3, StayUnique, StayWhole DEF IInv
<1>6. CASE results' = [i \in Instances |-> results[i] \o Handed[i]]
  <2> DEFINE L(i) == Len(results[i])
  <2>1. ASSUME NEW i \in Instances \ ValidGroups PROVE results'[i] = results[i]
    <3>1. results'[i] = results[i] \o << >>
      BY <1>6 DEF Handed
    <3> QED BY <1>2, <3>1
  <2>2. ASSUME NEW i \in ValidGroups
        PROVE  /\ results'[i] \in Seq(Answers) /\ Len(results'[i]) = L(i) + Len(data[i])
               /\ DOMAIN results'[i] = 1 .. L(i) + Len(data[i])
               /\ L(i) \in Nat /\ DOMAIN results[i] = 1 .. L(i)
               /\ DOMAIN data[i] = 1 .. Len(data[i]) /\ Len(data[i]) \in Nat
               /\ \A k \in 1 .. L(i) : results'[i][k] = results[i][k]
               /\ \A k \in 1 .. Len(data[i]) : results'[i][L(i) + k] = data[i][k]
               /\ L(i) = 0 => results'[i] = data[i]
    <3>1. i \in Instances
      BY DEF ValidGroups
    <3>2. results'[i] = results[i] \o data[i]
      BY <1>6, <3>1 DEF Handed
    <3> DEFINE r == results[i]
               d == data[i]
    <3>3. r \in Seq(Answers) /\ d \in Seq(Answers)
      BY <1>2, <3>1
    <3> HIDE DEF r, d
    <3>4. /\ r \o d \in Seq(Answers) /\ Len(r \o d) = Len(r) + Len(d) /\ DOMAIN (r \o d) = 1 .. Len(r) + Len(d)
          /\ Len(r) \in Nat /\ DOMAIN r = 1 .. Len(r) /\ DOMAIN d = 1 .. Len(d) /\ Len(d) \in Nat
          /\ \A k \in 1 .. Len(r) : (r \o d)[k] = r[k]
          /\ \A k \in 1 .. Len(d) : (r \o d)[Len(r) + k] = d[k]
      BY <3>3
    <3>5. Len(r) = 0 => r \o d = d
      BY <3>3
    <3> QED BY <3>2, <3>4, <3>5 DEF r, d
  <2>3. ASSUME NEW i \in Instances, NEW k \in DOMAIN results'[i]
        PROVE  \/ k \in DOMAIN results[i] /\ results'[i][k] = results[i][k]
               \/ /\ i \in ValidGroups /\ k - L(i) \in DOMAIN data[i] /\ L(i) \in Nat /\ k \in Nat
                  /\ k \notin 1 .. L(i) /\ results'[i][k] = data[i][k - L(i)]
    <3>1. CASE i \notin ValidGroups
      BY <2>1, <2>3, <3>1
    <3>2. CASE i \in ValidGroups
      <4>1. k \in 1 .. L(i) + Len(data[i]) /\ L(i) \in Nat /\ Len(data[i]) \in Nat
        BY <2>2, <2>3, <3>2
      <4>2. CASE k \in 1 .. L(i)
        BY <2>2, <3>2, <4>2
      <4>3. CASE k \notin 1 .. L(i)
        <5> DEFINE l == k - L(i)
        <5>1. l \in 1 .. Len(data[i]) /\ L(i) + l = k /\ k \in Nat
          <6> HIDE DEF L
          <6> QED BY <4>1, <4>3, Beyond
        <5> HIDE DEF l
        <5>2. results'[i][k] = data[i][l] /\ l \in DOMAIN data[i]
          BY <2>2, <3>2, <5>1
        <5> QED BY <3>2, <4>1, <4>3, <5>1, <5>2 DEF l
      <4> QED BY <4>2, <4>3
    <3> QED BY <3>1, <3>2
  <2>4. TypeOK'
    <3>1. \A i \in Instances : results'[i] \in Seq(Answers)
      BY <1>2, <2>1, <2>2
    <3>2. results' \in [Instances -> Seq(Answers)]
      BY <1>6, <3>1
    <3>3. \A i \in Instances : \A k \in DOMAIN results'[i] : results'[i][k].instance = i
      <4> SUFFICES ASSUME NEW i \in Instances, NEW k \in DOMAIN results'[i] PROVE results'[i][k].instance = i
        OBVIOUS
      <4>1. CASE k \in DOMAIN results[i] /\ results'[i][k] = results[i][k]
        BY <4>1 DEF IInv, TypeOK
      <4>2. CASE i \in ValidGroups /\ k - L(i) \in DOMAIN data[i] /\ results'[i][k] = data[i][k - L(i)]
        <5> DEFINE l == k - L(i)
        <5> HIDE DEF l
        <5>1. l \in DOMAIN data[i] /\ results'[i][k] = data[i][l]
          BY <4>2 DEF l
        <5> QED BY <5>1 DEF IInv, TypeOK
      <4> QED BY <2>3, <4>1, <4>2
    <3>4. \A i \in Instances : \A k \in DOMAIN data'[i] : data'[i][k].instance = i
      BY <1>4 DEF IInv, TypeOK
    <3> QED BY <1>1, <1>2, <1>3, <3>2, <3>3, <3>4 DEF IInv, TypeOK
  <2>5. Whole'
    <3>1. ASSUME NEW i \in Instances PROVE WholeGroup(results'[i])
      <4>1. WholeGroup(results[i])
        BY DEF IInv, Whole
      <4>2. CASE i \notin ValidGroups
        BY <2>1, <4>1, <4>2
      <4>3. CASE i \in ValidGroups
        <5>1. WholeGroup(data[i]) /\ Len(data[i]) >= GroupSize /\ GroupSize \in Nat \ {0}
          BY <1>1, <4>3, ValidWhole, Sizes DEF IInv
        <5>2. CASE L(i) = 0
          BY <2>2, <4>3, <5>1, <5>2
        <5>3. CASE L(i) # 0
          <6>1. L(i) >= GroupSize
            <7>1. results[i] # << >>
              BY <5>3
            <7> QED BY <4>1, <7>1 DEF WholeGroup
          <6>2. Len(results'[i]) = L(i) + Len(data[i]) /\ L(i) \in Nat /\ Len(data[i]) \in Nat
            BY <2>2, <4>3
          <6>3. L(i) + Len(data[i]) >= GroupSize /\ L(i) + Len(data[i]) # GroupSize
            <7> HIDE DEF L
            <7> QED BY <5>1, <6>1, <6>2, TwoLarger
          <6>4. Len(results'[i]) >= GroupSize /\ Len(results'[i]) # GroupSize
            <7> HIDE DEF L
            <7> QED BY <6>2, <6>3
          <6> QED BY <6>4 DEF WholeGroup
        <5> QED BY <5>2, <5>3
      <4> QED BY <4>2, <4>3
    <3> QED BY <1>1, <3>1 DEF IInv, Whole, WholeGroup
  <2> DEFINE from == [p \in Places |->
                       IF p[1] = "results" /\ p[2] \in Instances /\ p[3] \notin 1 .. L(p[2])
                       THEN <<"data", p[2], p[3] - L(p[2]), 0>> ELSE p]
             to == [p \in Places |->
                       IF p[1] = "data" /\ p[2] \in ValidGroups
                       THEN <<"results", p[2], L(p[2]) + p[3], 0>> ELSE p]
  <2>6. ASSUME NEW p, NEW u, Holds(p, u)' PROVE Holds(from[p], u) /\ to[from[p]] = p
    <3>1. CASE Given(p, u)'
      <4>1. PICK i \in Instances : \E k \in DOMAIN results'[i] : results'[i][k].uid = u /\ p = <<"results", i, k, 0>>
        BY <3>1 DEF Given
      <4>2. PICK k \in DOMAIN results'[i] : results'[i][k].uid = u /\ p = <<"results", i, k, 0>>
        BY <4>1
      <4>3. CASE k \in DOMAIN results[i] /\ results'[i][k] = results[i][k]
        <5>1. Given(p, u)
          BY <1>1, <4>2, <4>3 DEF Given
        <5>2. Holds(p, u) /\ p \in Places
          BY <5>1, HeldPlace DEF Holds, IInv
        <5>3. DOMAIN results[i] = 1 .. L(i)
          BY <1>2
        <5>4. p[1] = "results" /\ p[2] = i /\ p[3] = k
          BY <4>2
        <5>5. from[p] = p
          BY <4>3, <5>2, <5>3, <5>4
        <5>6. to[p] = p
          BY <5>2, <5>4
        <5> QED BY <5>2, <5>5, <5>6
      <4>4. CASE /\ i \in ValidGroups /\ k - L(i) \in DOMAIN data[i] /\ L(i) \in Nat /\ k \in Nat
                 /\ k \notin 1 .. L(i) /\ results'[i][k] = data[i][k - L(i)]
        <5> DEFINE q == <<"data", i, k - L(i), 0>>
        <5>1. Stored(q, u)
          BY <4>2, <4>4 DEF Stored
        <5>2. Holds(q, u) /\ q \in Places
          BY <5>1, HeldPlace DEF Holds, IInv
        <5>3. p \in Places
          BY <4>2, <4>4 DEF Places, Instances
        <5>4. from[p] = q
          BY <4>2, <4>4, <5>3
        <5>5. to[q] = <<"results", i, L(i) + (k - L(i)), 0>>
          BY <4>4, <5>2
        <5>6. L(i) + (k - L(i)) = k
          BY <4>4
        <5> QED BY <4>2, <5>2, <5>4, <5>5, <5>6
      <4> QED BY <2>3, <4>2, <4>3, <4>4
    <3>2. CASE Stored(p, u)'
      <4>1. PICK i \in Instances : \E k \in DOMAIN data'[i] : data'[i][k].uid = u /\ p = <<"data", i, k, 0>>
        BY <3>2 DEF Stored
      <4>2. PICK k \in DOMAIN data'[i] : data'[i][k].uid = u /\ p = <<"data", i, k, 0>>
        BY <4>1
      <4>3. i \notin ValidGroups /\ Stored(p, u)
        BY <1>4, <4>2 DEF Stored
      <4>4. Holds(p, u) /\ p \in Places
        BY <4>3, HeldPlace DEF Holds, IInv
      <4>5. p[1] = "data" /\ p[2] = i
        BY <4>2
      <4>6. from[p] = p /\ to[p] = p
        BY <4>3, <4>4, <4>5
      <4> QED BY <4>4, <4>6
    <3>3. CASE Queued(p, u)' \/ Posted(p, u)' \/ Returned(p, u)'
      <4>1. Queued(p, u) \/ Posted(p, u) \/ Returned(p, u)
        BY <1>1, <3>3 DEF Queued, Posted, Returned
      <4>2. Holds(p, u) /\ p \in Places
        BY <4>1, HeldPlace DEF Holds, IInv
      <4>3. p[1] # "data" /\ p[1] # "results"
        BY <4>1 DEF Queued, Posted, Returned
      <4>4. from[p] = p /\ to[p] = p
        BY <4>2, <4>3
      <4> QED BY <4>2, <4>4
    <3> QED BY <2>6, <3>1, <3>2, <3>3 DEF Holds
  <2> HIDE DEF from, to
  <2>7. Unique' /\ Named'
    BY <1>1, <2>6, MovedUnique
  <2> QED BY <2>4, <2>5, <2>7 DEF IInv
<1> QED BY <1>1, <1>5, <1>6

-----------------------------------------------------------------------------
(* The selection of a batch. *)

\* A set of numbers that is not empty has a least one.
LEMMA LeastNumber ==
  ASSUME NEW S, S \subseteq Nat, S # {}
  PROVE  \E n \in S : \A m \in S : n <= m
<1>1. \E n \in S : \A m \in S : ~(<<m, n>> \in OpToRel(<, Nat))
  BY NatLessThanWellFounded, WFMin
<1>2. PICK n \in S : \A m \in S : ~(<<m, n>> \in OpToRel(<, Nat))
  BY <1>1
<1>3. ASSUME NEW m \in S PROVE n <= m
  <2>1. m \in Nat /\ n \in Nat
    OBVIOUS
  <2>2. ~(m < n)
    BY <1>2, <2>1 DEF OpToRel
  <2> QED BY <2>1, <2>2
<1> QED BY <1>3

\* And a greatest one, if it is bounded.
LEMMA MaxIs ==
  ASSUME NEW S, S \subseteq Nat, S # {}, NEW m \in Nat, \A n \in S : n <= m
  PROVE  Max(S) \in S /\ Max(S) \in Nat /\ \A n \in S : n <= Max(S)
<1> DEFINE Bounds == {b \in Nat : \A n \in S : n <= b}
<1>1. Bounds \subseteq Nat /\ m \in Bounds
  OBVIOUS
<1>2. PICK b \in Bounds : \A c \in Bounds : b <= c
  <2> HIDE DEF Bounds
  <2> QED BY <1>1, LeastNumber
<1>3. b \in Nat /\ \A n \in S : n \in Nat /\ n <= b
  BY <1>2
<1>4. b \in S
  <2> SUFFICES ASSUME b \notin S PROVE FALSE
    OBVIOUS
  <2>1. \A n \in S : n <= b - 1
    BY <1>3
  <2>2. PICK n : n \in S
    OBVIOUS
  <2>3. b - 1 \in Nat
    BY <1>3, <2>1, <2>2
  <2>4. b - 1 \in Bounds
    BY <2>1, <2>3
  <2> HIDE DEF Bounds
  <2>5. b <= b - 1
    BY <1>2, <2>4
  <2> QED BY <1>3, <2>5
<1>5. \E x \in S : \A y \in S : x >= y
  BY <1>3, <1>4
<1>6. Max(S) \in S /\ \A y \in S : Max(S) >= y
  BY <1>5 DEF Max
<1> QED BY <1>3, <1>6

\* Every group of the results has a latest answer, which is in no other.
LEMMA LatestIs ==
  ASSUME IInv, trainer = "fetching"
  PROVE  /\ \A i \in Answered : Latest(i) \in Nat
         /\ \A i, j \in Answered : Latest(i) = Latest(j) => i = j
<1>1. ASSUME NEW i \in Answered
      PROVE  Latest(i) \in Nat /\ \E k \in DOMAIN results[i] : Latest(i) = results[i][k].uid
  <2> DEFINE S == {results[i][k].uid : k \in DOMAIN results[i]}
  <2>1. i \in Instances /\ results[i] \in Seq(Answers) /\ results[i] # << >>
    BY DEF Answered, IInv, TypeOK
  <2>2. \A k \in DOMAIN results[i] : results[i][k].uid \in Nat
    <3> SUFFICES ASSUME NEW k \in DOMAIN results[i] PROVE results[i][k].uid \in Nat
      OBVIOUS
    <3>1. results[i][k] \in Answers
      BY <2>1
    <3> QED BY <3>1 DEF Answers
  <2>3. S \subseteq Nat
    BY <2>2
  <2>4. S # {}
    <3>1. 1 \in DOMAIN results[i]
      BY <2>1
    <3> QED BY <3>1
  <2>5. \A n \in S : n <= clock
    <3> SUFFICES ASSUME NEW k \in DOMAIN results[i] PROVE results[i][k].uid <= clock
      OBVIOUS
    <3>1. Given(<<"results", i, k, 0>>, results[i][k].uid)
      BY <2>1 DEF Given
    <3> QED BY <3>1 DEF Holds, Named, IInv
  <2>6. clock \in Nat
    BY DEF IInv, TypeOK
  <2>7. Latest(i) = Max(S)
    BY DEF Latest
  <2> HIDE DEF S
  <2>8. Max(S) \in S /\ Max(S) \in Nat
    BY <2>3, <2>4, <2>5, <2>6, MaxIs
  <2> QED BY <2>7, <2>8 DEF S
<1>2. ASSUME NEW i \in Answered, NEW j \in Answered, Latest(i) = Latest(j) PROVE i = j
  <2>1. PICK k \in DOMAIN results[i] : Latest(i) = results[i][k].uid
    BY <1>1
  <2>2. PICK l \in DOMAIN results[j] : Latest(j) = results[j][l].uid
    BY <1>1
  <2> DEFINE u == Latest(i)
  <2>3. Given(<<"results", i, k, 0>>, u) /\ Given(<<"results", j, l, 0>>, u)
    BY <1>2, <2>1, <2>2 DEF Given, Answered
  <2>4. <<"results", i, k, 0>> = <<"results", j, l, 0>>
    BY <2>3 DEF Holds, Unique, IInv
  <2> QED BY <2>4
<1> QED BY <1>1, <1>2

\* The places of the groups are the numbers up to how many they are.
LEMMA PlacesAre ==
  ASSUME IInv, trainer = "fetching"
  PROVE  /\ IsFiniteSet(Answered) /\ Cardinality(Answered) \in Nat
         /\ \A i \in Answered : Place(i) \in 1 .. Cardinality(Answered)
         /\ \A i, j \in Answered : Place(i) = Place(j) => i = j
         /\ \A n \in 1 .. Cardinality(Answered) : \E i \in Answered : Place(i) = n
<1> DEFINE A == Answered
           N == Cardinality(A)
           Later(i) == {j \in A : Latest(j) > Latest(i)}
<1>1. IsFiniteSet(A) /\ N \in Nat
  <2>1. IsFiniteSet(1 .. NumInstances)
    BY Sizes, FS_Interval
  <2>2. A \in SUBSET (1 .. NumInstances)
    BY DEF Answered, Instances
  <2>3. IsFiniteSet(A)
    BY <2>1, <2>2, FS_Subset
  <2> QED BY <2>3, FS_CardinalityType
<1>2. /\ \A i \in A : Latest(i) \in Nat
      /\ \A i, j \in A : Latest(i) = Latest(j) => i = j
  BY LatestIs
<1>3. \A i \in A : Place(i) = Cardinality(Later(i)) + 1
  BY DEF Place
<1> HIDE DEF A
<1>4. ASSUME NEW i \in A PROVE IsFiniteSet(Later(i)) /\ Cardinality(Later(i)) \in Nat /\ Place(i) \in 1 .. N
  <2>1. Later(i) \in SUBSET (A \ {i})
    BY <1>2
  <2>2. IsFiniteSet(A \ {i}) /\ Cardinality(A \ {i}) = N - 1
    BY <1>1, FS_RemoveElement
  <2> DEFINE c == Cardinality(Later(i))
  <2>3. IsFiniteSet(Later(i)) /\ c <= N - 1
    BY <2>1, <2>2, FS_Subset
  <2>4. c \in Nat
    BY <2>3, FS_CardinalityType
  <2>5. Place(i) = c + 1
    BY <1>3
  <2> HIDE DEF c, N
  <2>6. Place(i) \in 1 .. N
    BY <1>1, <2>3, <2>4, <2>5
  <2> QED BY <2>3, <2>4, <2>6 DEF c
<1>5. ASSUME NEW i \in A, NEW j \in A, Latest(i) > Latest(j) PROVE Place(i) < Place(j)
  <2> DEFINE U == Later(i) \cup {i}
             c == Cardinality(Later(i))
             d == Cardinality(Later(j))
  <2>1. i \notin Later(i)
    BY <1>2
  <2>2. IsFiniteSet(U) /\ Cardinality(U) = c + 1
    BY <1>4, <2>1, FS_AddElement
  <2>3. U \in SUBSET Later(j)
    BY <1>2, <1>5
  <2>4. c + 1 <= d
    <3> HIDE DEF U
    <3> QED BY <1>4, <2>2, <2>3, FS_Subset
  <2>5. c \in Nat /\ d \in Nat /\ Place(i) = c + 1 /\ Place(j) = d + 1
    BY <1>3, <1>4
  <2> HIDE DEF c, d
  <2> QED BY <2>4, <2>5
<1>6. ASSUME NEW i \in A, NEW j \in A, Place(i) = Place(j) PROVE i = j
  <2> SUFFICES ASSUME i # j PROVE FALSE
    OBVIOUS
  <2>1. Latest(i) > Latest(j) \/ Latest(j) > Latest(i)
    BY <1>2
  <2>2. Place(i) < Place(j) \/ Place(j) < Place(i)
    BY <1>5, <2>1
  <2>3. Place(i) \in Nat /\ Place(j) \in Nat
    <3> HIDE DEF N
    <3>1. Place(i) \in 1 .. N /\ Place(j) \in 1 .. N
      BY <1>4
    <3> QED BY <1>1, <3>1
  <2> QED BY <1>6, <2>2, <2>3
<1>7. ASSUME NEW n \in 1 .. N PROVE \E i \in A : Place(i) = n
  <2> DEFINE f == [i \in A |-> Place(i)]
             T == 1 .. N
  <2>1. IsFiniteSet(T) /\ Cardinality(T) = N
    BY <1>1, FS_Interval
  <2>2. f \in [A -> T]
    BY <1>4
  <2>3. f \in Injection(A, T)
    BY <1>6, <2>2 DEF Injection, IsInjective
  <2>4. f \in Surjection(A, T)
    <3> HIDE DEF f, T
    <3> QED BY <2>1, <2>3, FS_Injection
  <2>5. \E i \in A : f[i] = n
    BY <2>4 DEF Surjection
  <2> QED BY <2>5
<1> QED BY <1>1, <1>4, <1>6, <1>7 DEF A

\* Smaller of two.
LEMMA MinIs ==
  ASSUME NEW a \in Nat, NEW b \in Nat
  PROVE  Min({a, b}) = IF a <= b THEN a ELSE b
<1> DEFINE S == {a, b}
           m == IF a <= b THEN a ELSE b
<1>1. m \in S /\ \A y \in S : m <= y
  OBVIOUS
<1>2. \A x \in S : (\A y \in S : x <= y) => x = m
  OBVIOUS
<1> QED BY <1>1, <1>2 DEF Min

\* How many answers there are, if every group has as many as it should.
LEMMA FetchedIs ==
  ASSUME IInv, trainer = "fetching", \A i \in Answered : Len(results[i]) = GroupSize
  PROVE  Fetched = Cardinality(Answered) * GroupSize
<1> DEFINE F == UNION {{i} \X DOMAIN results[i] : i \in Instances}
           D == 1 .. GroupSize
<1>1. F = Answered \X D
  <2>1. ASSUME NEW i \in Instances PROVE DOMAIN results[i] = IF i \in Answered THEN D ELSE {}
    <3>1. results[i] \in Seq(Answers)
      BY DEF IInv, TypeOK
    <3>2. CASE i \in Answered
      BY <3>1, <3>2
    <3>3. CASE i \notin Answered
      BY <3>3 DEF Answered
    <3> QED BY <3>2, <3>3
  <2>2. ASSUME NEW x \in F PROVE x \in Answered \X D
    <3>1. PICK i \in Instances : x \in {i} \X DOMAIN results[i]
      OBVIOUS
    <3> QED BY <2>1, <3>1
  <2>3. ASSUME NEW i \in Answered, NEW k \in D PROVE <<i, k>> \in F
    <3>1. i \in Instances
      BY DEF Answered
    <3>2. <<i, k>> \in {i} \X DOMAIN results[i]
      BY <2>1, <2>3, <3>1
    <3> QED BY <3>1, <3>2
  <2> QED BY <2>2, <2>3
<1>2. IsFiniteSet(D) /\ Cardinality(D) = GroupSize
  BY Sizes, FS_Interval
<1>3. IsFiniteSet(Answered)
  BY PlacesAre
<1>4. Cardinality(Answered \X D) = Cardinality(Answered) * GroupSize
  <2> HIDE DEF D
  <2> QED BY <1>2, <1>3, FS_Product
<1> QED BY <1>1, <1>4 DEF Fetched

\* The groups that are selected: At(n) is the prompt of the n-th.
At(n) == CHOOSE i \in Answered : Place(i) = n

\* They are different groups, and a batch that is accepted has its size: a group that was
\* missing would leave too few answers to end the fetch.
LEMMA SelectedIs ==
  ASSUME IInv, trainer = "fetching"
  PROVE  /\ Selected \in Seq(Seq(Answers))
         /\ \A n \in DOMAIN Selected : At(n) \in Answered /\ At(n) \in Instances /\ Selected[n] = results[At(n)]
         /\ \A n, m \in DOMAIN Selected : At(n) = At(m) => n = m
         /\ Fetched >= ToFetch /\ Accepted(Selected) => Len(Selected) = BatchSize
<1> DEFINE N == Cardinality(Answered)
           M == Min({BatchSize, N})
<1>1. N \in Nat /\ BatchSize \in Nat \ {0} /\ GroupSize \in Nat \ {0}
  BY PlacesAre, Sizes
<1>2. M = IF BatchSize <= N THEN BatchSize ELSE N
  BY <1>1, MinIs
<1>3. M \in Nat /\ M <= N /\ M <= BatchSize
  <2> HIDE DEF M, N
  <2> QED BY <1>1, <1>2
<1>4. ASSUME NEW n \in 1 .. N PROVE At(n) \in Answered /\ Place(At(n)) = n
  <2>1. \E i \in Answered : Place(i) = n
    BY PlacesAre
  <2> QED BY <2>1 DEF At
<1>5. Selected = [n \in 1 .. M |-> results[At(n)]]
  BY DEF Selected, At
<1> HIDE DEF M, N
<1>6. \A n \in 1 .. M : n \in 1 .. N
  BY <1>1, <1>3
<1>7. \A n \in 1 .. M : At(n) \in Answered /\ At(n) \in Instances /\ results[At(n)] \in Seq(Answers)
  BY <1>4, <1>6 DEF Answered, IInv, TypeOK
<1>8. Selected \in Seq(Seq(Answers)) /\ DOMAIN Selected = 1 .. M /\ Len(Selected) = M
  <2> DEFINE T == Seq(Answers)
  <2>1. Selected \in [1 .. M -> T]
    BY <1>5, <1>7
  <2> HIDE DEF T
  <2>2. Selected \in Seq(T) /\ DOMAIN Selected = 1 .. M /\ Len(Selected) = M
    BY <1>3, <2>1
  <2> QED BY <2>2 DEF T
<1>9. \A n, m \in 1 .. M : At(n) = At(m) => n = m
  BY <1>4, <1>6
<1>10. ASSUME Fetched >= ToFetch, Accepted(Selected) PROVE M = BatchSize
  <2> SUFFICES ASSUME M # BatchSize PROVE FALSE
    OBVIOUS
  <2>1. M = N /\ N + 1 <= BatchSize
    BY <1>1, <1>2
  <2>2. ASSUME NEW i \in Answered PROVE Len(results[i]) = GroupSize
    <3>1. PICK n \in 1 .. N : Place(i) = n
      BY PlacesAre DEF N
    <3>2. At(n) = i
      BY <1>4, <3>1, PlacesAre
    <3>3. n \in DOMAIN Selected /\ Selected[n] = results[i]
      BY <1>5, <1>8, <2>1, <3>1, <3>2
    <3> QED BY <1>10, <3>3 DEF Accepted
  <2>3. Fetched = N * GroupSize
    BY <2>2, FetchedIs DEF N
  <2>4. (N + 1) * GroupSize <= BatchSize * GroupSize
    <3>1. N + 1 \in Nat /\ BatchSize \in Nat /\ GroupSize \in Nat
      BY <1>1
    <3> QED BY <2>1, <3>1, TimesMonotone
  <2>5. (N + 1) * GroupSize = N * GroupSize + GroupSize
    BY <1>1
  <2>6. N * GroupSize >= BatchSize * GroupSize
    BY <1>10, <2>3 DEF ToFetch
  <2>7. N * GroupSize \in Nat /\ BatchSize * GroupSize \in Nat
    BY <1>1
  <2> QED BY <1>1, <2>4, <2>5, <2>6, <2>7
<1> QED BY <1>5, <1>7, <1>8, <1>9, <1>10
\* The batch takes its groups from the results, which are done with.
LEMMA EndFetchKeeps ==
  ASSUME IInv, EndFetch
  PROVE  IInv'
<1>1. /\ trainer = "fetching" /\ Fetched >= ToFetch
      /\ UNCHANGED <<passes, task_queue, workers, done_queue, completed, posting, data, results, clock, faults>>
      /\ \/ Accepted(Selected) /\ trainer' = "idle" /\ batches' = Append(batches, Selected)
         \/ trainer' = "failed" /\ batches' = batches
  BY DEF EndFetch, generatorVars
<1>2. CASE trainer' = "failed" /\ batches' = batches
  <2>1. TypeOK'
    BY <1>1, <1>2 DEF IInv, TypeOK
  <2>2. \A p, u : Holds(p, u)' => Holds(p, u)
    BY <1>1, <1>2 DEF Holds, Queued, Posted, Stored, Given, Returned
  <2> QED BY <1>1, <1>2, <2>1, <2>2, StayUnique, StayWhole DEF IInv
<1>3. CASE Accepted(Selected) /\ trainer' = "idle" /\ batches' = Append(batches, Selected)
  <2> DEFINE N == Len(batches)
             B == Selected
  <2>1. /\ B \in Seq(Seq(Answers)) /\ Len(B) = BatchSize
        /\ \A n \in DOMAIN B : At(n) \in Answered /\ At(n) \in Instances /\ B[n] = results[At(n)]
        /\ \A n, m \in DOMAIN B : At(n) = At(m) => n = m
    BY <1>1, <1>3, SelectedIs
  <2>2. \A n \in DOMAIN B : Len(B[n]) = GroupSize
    BY <1>3 DEF Accepted
  <2> HIDE DEF B
  <2>3. batches \in Seq(Seq(Seq(Answers)))
    BY DEF IInv, TypeOK
  <2>4. /\ batches' \in Seq(Seq(Seq(Answers))) /\ N \in Nat /\ DOMAIN batches = 1 .. N
        /\ DOMAIN batches' = 1 .. N + 1
        /\ batches'[N + 1] = B /\ \A b \in 1 .. N : batches'[b] = batches[b]
    <3> DEFINE T == Seq(Seq(Answers))
    <3>1. batches \in Seq(T) /\ B \in T /\ batches' = Append(batches, B)
      BY <1>3, <2>1, <2>3 DEF B
    <3> HIDE DEF T
    <3>2. /\ batches' \in Seq(T) /\ N \in Nat /\ DOMAIN batches = 1 .. N
          /\ DOMAIN batches' = 1 .. N + 1
          /\ batches'[N + 1] = B /\ \A b \in 1 .. N : batches'[b] = batches[b]
      BY <3>1
    <3> QED BY <3>2 DEF T
  <2>5. ASSUME NEW b \in DOMAIN batches' 
        PROVE  \/ b = N + 1 /\ batches'[b] = B
               \/ b \in DOMAIN batches /\ batches'[b] = batches[b] /\ b # N + 1
    <3> HIDE DEF N
    <3>1. CASE b = N + 1
      BY <2>4, <3>1
    <3>2. CASE b # N + 1
      <4>1. b \in 1 .. N
        BY <2>4, <2>5, <3>2
      <4> QED BY <2>4, <3>2, <4>1
    <3> QED BY <3>1, <3>2
  <2>6. TypeOK'
    BY <1>1, <1>3, <2>4 DEF IInv, TypeOK
  <2>7. ASSUME NEW g \in DOMAIN B, NEW k \in DOMAIN B[g]
        PROVE  B[g][k].instance = B[g][1].instance /\ B[g][k].text = "text"
    <3> DEFINE i == At(g)
    <3>1. i \in Instances /\ B[g] = results[i] /\ Len(results[i]) = GroupSize /\ results[i] # << >>
      BY <2>1, <2>2 DEF Answered
    <3> HIDE DEF i
    <3>2. WholeGroup(results[i])
      BY <3>1 DEF IInv, Whole
    <3>3. \A l \in DOMAIN results[i] : results[i][l].text = "text" /\ results[i][l].instance = i
      BY <3>1, <3>2 DEF WholeGroup, IInv, TypeOK
    <3>4. 1 \in DOMAIN results[i]
      <4>1. results[i] \in Seq(Answers)
        BY <3>1 DEF IInv, TypeOK
      <4> QED BY <3>1, <4>1
    <3> QED BY <2>7, <3>1, <3>3, <3>4
  <2>8. Whole'
    <3>1. \A i \in Instances : WholeGroup(results'[i])
      BY <1>1 DEF IInv, Whole
    <3>2. \A b \in DOMAIN batches' : Len(batches'[b]) = BatchSize
      BY <2>1, <2>5 DEF IInv, Whole
    <3>3. ASSUME NEW b \in DOMAIN batches', NEW g \in DOMAIN batches'[b]
          PROVE  /\ Len(batches'[b][g]) = GroupSize
                 /\ \A k \in DOMAIN batches'[b][g] :
                      batches'[b][g][k].instance = batches'[b][g][1].instance /\ batches'[b][g][k].text = "text"
      <4>1. CASE batches'[b] = B
        BY <2>2, <2>7, <3>3, <4>1
      <4>2. CASE b \in DOMAIN batches /\ batches'[b] = batches[b]
        BY <3>3, <4>2 DEF IInv, Whole
      <4> QED BY <2>5, <4>1, <4>2
    <3> QED BY <3>1, <3>2, <3>3 DEF Whole, WholeGroup
  <2> DEFINE from == [p \in Places |->
                       IF p[1] = "batch" /\ p[2] = N + 1 THEN <<"results", At(p[3]), p[4], 0>> ELSE p]
             to == [p \in Places |->
                       IF p[1] = "results"
                       THEN <<"batch", N + 1, CHOOSE g \in DOMAIN B : At(g) = p[2], p[3]>> ELSE p]
  <2>9. ASSUME NEW p, NEW u, Holds(p, u)' PROVE Holds(from[p], u) /\ to[from[p]] = p
    <3>0. p \in Places
      <4>1. CASE Returned(p, u)'
        <5>1. PICK b \in DOMAIN batches' : \E g \in DOMAIN batches'[b] : \E k \in DOMAIN batches'[b][g] :
                batches'[b][g][k].uid = u /\ p = <<"batch", b, g, k>>
          BY <4>1 DEF Returned
        <5>2. PICK g \in DOMAIN batches'[b] : \E k \in DOMAIN batches'[b][g] :
                batches'[b][g][k].uid = u /\ p = <<"batch", b, g, k>>
          BY <5>1
        <5>3. b \in Nat /\ batches'[b] \in Seq(Seq(Answers))
          BY <2>4
        <5>4. g \in Nat /\ batches'[b][g] \in Seq(Answers)
          BY <5>3
        <5>5. DOMAIN batches'[b][g] \subseteq Nat
          BY <5>4
        <5> QED BY <5>2, <5>3, <5>4, <5>5 DEF Places
      <4>2. CASE Queued(p, u)' \/ Posted(p, u)' \/ Stored(p, u)'
        <5>1. Holds(p, u)
          BY <1>1, <4>2 DEF Holds, Queued, Posted, Stored
        <5> QED BY <5>1, HeldPlace DEF IInv
      <4>3. ~Given(p, u)'
        BY <1>3 DEF Given
      <4> QED BY <2>9, <4>1, <4>2, <4>3 DEF Holds
    <3>1. CASE Returned(p, u)'
      <4>1. PICK b \in DOMAIN batches' : \E g \in DOMAIN batches'[b] : \E k \in DOMAIN batches'[b][g] :
              batches'[b][g][k].uid = u /\ p = <<"batch", b, g, k>>
        BY <3>1 DEF Returned
      <4>2. PICK g \in DOMAIN batches'[b] : \E k \in DOMAIN batches'[b][g] :
              batches'[b][g][k].uid = u /\ p = <<"batch", b, g, k>>
        BY <4>1
      <4>3. PICK k \in DOMAIN batches'[b][g] : batches'[b][g][k].uid = u /\ p = <<"batch", b, g, k>>
        BY <4>2
      <4>4. CASE b = N + 1 /\ batches'[b] = B
        <5> DEFINE q == <<"results", At(g), k, 0>>
        <5>1. g \in DOMAIN B /\ B[g] = results[At(g)] /\ At(g) \in Instances
          BY <2>1, <4>4
        <5>2. Given(q, u)
          BY <1>1, <4>3, <4>4, <5>1 DEF Given
        <5>3. Holds(q, u) /\ q \in Places
          BY <5>2, HeldPlace DEF Holds, IInv
        <5>4. from[p] = q
          BY <3>0, <4>3, <4>4
        <5>5. (CHOOSE x \in DOMAIN B : At(x) = At(g)) = g
          BY <2>1, <5>1
        <5>6. to[q] = <<"batch", N + 1, g, k>>
          BY <5>3, <5>5
        <5> QED BY <4>3, <4>4, <5>3, <5>4, <5>6
      <4>5. CASE b \in DOMAIN batches /\ batches'[b] = batches[b] /\ b # N + 1
        <5>1. Returned(p, u)
          BY <4>2, <4>3, <4>5 DEF Returned
        <5>2. from[p] = p /\ to[p] = p
          BY <3>0, <4>3, <4>5
        <5> QED BY <5>1, <5>2 DEF Holds
      <4> QED BY <2>5, <4>4, <4>5
    <3>2. CASE Queued(p, u)' \/ Posted(p, u)' \/ Stored(p, u)'
      <4>1. Queued(p, u) \/ Posted(p, u) \/ Stored(p, u)
        BY <1>1, <3>2 DEF Queued, Posted, Stored
      <4>2. p[1] # "batch" /\ p[1] # "results"
        BY <4>1 DEF Queued, Posted, Stored
      <4>3. from[p] = p /\ to[p] = p
        BY <3>0, <4>2
      <4> QED BY <4>1, <4>3 DEF Holds
    <3>3. ~Given(p, u)'
      BY <1>3 DEF Given
    <3> QED BY <2>9, <3>1, <3>2, <3>3 DEF Holds
  <2> HIDE DEF from, to
  <2>10. Unique' /\ Named'
    BY <1>1, <2>9, MovedUnique
  <2> QED BY <2>6, <2>8, <2>10 DEF IInv
<1> QED BY <1>1, <1>2, <1>3

-----------------------------------------------------------------------------
(* The theorem. *)

\* Every step keeps the invariant.
LEMMA NextIInv ==
  ASSUME IInv, [Next]_vars, "post_reply" \notin Faults
  PROVE  IInv'
<1>1. CASE ReadPass
  BY <1>1, ReadPassKeeps
<1>2. ASSUME NEW p \in Processes, Take(p) \/ Reply(p) \/ Crash(p) PROVE IInv'
  BY <1>2, TakeKeeps, ReplyKeeps, CrashKeeps
<1>3. CASE Collect
  BY <1>3, CollectKeeps
<1>4. CASE Post
  BY <1>4, PostKeeps
<1>5. CASE StartFetch
  BY <1>5, StartFetchKeeps
<1>6. CASE Poll
  BY <1>6, PollKeeps
<1>7. CASE EndFetch
  BY <1>7, EndFetchKeeps
<1>8. CASE UNCHANGED vars
  <2>1. UNCHANGED <<passes, task_queue, workers, done_queue, completed, posting, data, trainer,
                    results, batches, clock, faults>>
    BY <1>8 DEF vars, generatorVars, trainerVars
  <2>2. TypeOK'
    BY <2>1 DEF IInv, TypeOK
  <2>3. \A p, u : Holds(p, u)' => Holds(p, u)
    BY <2>1 DEF Holds, Queued, Posted, Stored, Given, Returned
  <2> QED BY <2>1, <2>2, <2>3, StayUnique, StayWhole DEF IInv
<1> QED BY <1>1, <1>2, <1>3, <1>4, <1>5, <1>6, <1>7, <1>8 DEF Next, Generator, Trainer

\* The invariant holds of every state, unless the reply to a post may be lost: then an
\* answer that was written is posted again.
THEOREM Inductive == ASSUME "post_reply" \notin Faults PROVE Spec => []IInv
<1>1. IInv /\ [Next]_vars => IInv'
  BY NextIInv
<1> QED BY InitIInv, <1>1, PTL DEF Spec

\* Every batch is made of whole groups of different answers to one prompt, and no answer
\* is trained on twice, for any number of prompts, workers, passes, batches and faults
\* other than a lost reply to a post.
THEOREM BatchesWholeCorrect == ASSUME "post_reply" \notin Faults PROVE Spec => []BatchesWhole
BY Inductive, IInvGivesBatchesWhole, PTL
=============================================================================
