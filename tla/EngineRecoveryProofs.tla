------------------------ MODULE EngineRecoveryProofs ------------------------
(***************************************************************************)
(* Proofs about EngineRecovery, for every number of engines, of nodes per  *)
(* engine and of trainer ranks.  The inductive invariant IInv says how far *)
(* the ranks may be apart (RankFlow), that they are connected to the same  *)
(* engines unless some engine is new (ConnectionsHold), and what a         *)
(* recovery in progress has started (RecoveryHolds).  The monitor may      *)
(* forget an engine between any two of these steps.                        *)
(***************************************************************************)
EXTENDS EngineRecovery, FiniteSetTheorems, WellFoundedInduction, TLAPS

\* The slots are the nodes of all engines, and there is at least one.
LEMMA SlotFacts ==
  /\ NumEngines \in Nat /\ NodesPerEngine \in Nat
  /\ NumEngines * NodesPerEngine \in Nat /\ NumEngines * NodesPerEngine > 0
  /\ IsFiniteSet(Slots) /\ Cardinality(Slots) \in Nat /\ Cardinality(Slots) > 0
  /\ 0 \in Slots /\ 0 \in Engines /\ Engines \subseteq Slots
<1> DEFINE n == NumEngines * NodesPerEngine
<1>1. /\ NumEngines \in Nat /\ NumEngines > 0
      /\ NodesPerEngine \in Nat /\ NodesPerEngine > 0
  BY RecoveryAssumption
<1>2. n \in Nat /\ n > 0
  BY <1>1
<1>3. Slots = 0 .. n - 1
  BY DEF Slots
<1> HIDE DEF n
<1>4. IsFiniteSet(Slots) /\ Cardinality(Slots) = n
  <2>1. /\ IsFiniteSet(0 .. n - 1)
        /\ Cardinality(0 .. n - 1) = IF 0 > n - 1 THEN 0 ELSE n - 1 - 0 + 1
    BY <1>2, FS_Interval
  <2>2. (IF 0 > n - 1 THEN 0 ELSE n - 1 - 0 + 1) = n
    BY <1>2
  <2> QED BY <1>3, <2>1, <2>2
<1>5. 0 \in Slots
  BY <1>2, <1>3
<1>6. 0 % NodesPerEngine = 0
  BY <1>1
<1> QED BY <1>1, <1>2, <1>4, <1>5, <1>6 DEF n, Engines

\* The nodes of an engine after a given one are slots of the group.
LEMMA NextNode ==
  ASSUME NEW s \in Slots, s + 1 \in NodesOf(EngineOf(s))
  PROVE  s + 1 \in Slots
<1> DEFINE k == NodesPerEngine
           q == s \div k
           r == s % k
<1>1. /\ NumEngines \in Nat /\ NumEngines > 0 /\ k \in Nat /\ k > 0
      /\ s \in Nat /\ s <= NumEngines * k - 1
  BY RecoveryAssumption, SlotFacts DEF Slots
<1>2. q \in Nat /\ r \in Nat /\ r < k /\ s = k * q + r
  BY <1>1
<1>3. s + 1 <= s - r + k - 1
  BY <1>1, <1>2 DEF NodesOf, EngineOf
<1> HIDE DEF q, r, k
<1>4. q < NumEngines
  <2> SUFFICES ASSUME q >= NumEngines PROVE FALSE
    BY <1>1, <1>2
  <2>1. k * q >= k * NumEngines
    BY <1>1, <1>2
  <2> QED BY <1>1, <1>2, <2>1
<1>5. k * (q + 1) <= k * NumEngines
  BY <1>1, <1>2, <1>4
<1>6. k * (q + 1) = k * q + k
  BY <1>1, <1>2
<1> QED BY <1>1, <1>2, <1>3, <1>5, <1>6 DEF Slots, k

\* A set of numbers that is not empty has a least one.
LEMMA LeastNumber ==
  ASSUME NEW S \in SUBSET Nat, S # {}
  PROVE  \E n \in S : \A m \in S : n <= m
<1>1. PICK n \in S : \A m \in S : ~(<<m, n>> \in OpToRel(<, Nat))
  BY NatLessThanWellFounded, WFMin
<1>2. \A m \in S : ~(m < n)
  BY <1>1 DEF OpToRel
<1> QED BY <1>2

-----------------------------------------------------------------------------
(***************************************************************************)
(* The inductive invariant.                                                *)
(***************************************************************************)

\* A handle for every engine of the group.
Covers(handles) == {h[1] : h \in handles} = Engines

\* The engines that were started last.
Current == {<<e, incarnation[e]>> : e \in Engines}

\* The ranks are connected, and to the same engines.
Settled == \A r \in Ranks : connected[r] = connected[0] /\ Covers(connected[r])

Others == Ranks \ {0}

Recovering ==
  /\ rank_pc[0] \in {"recover", "start", "started", "barrier"}
  /\ \A r \in Others : rank_pc[r] = "barrier"

\* Each rank decides on its own whether to connect, by the same counter.
Asking ==
  \A r \in Ranks : rank_pc[r] \in IF num_new_engines > 0 THEN {"ask", "connect", "connected"}
                                                         ELSE {"ask", "push"}

Clearing ==
  /\ rank_pc[0] = "clear"
  /\ \A r \in Others : rank_pc[r] = "push"

RankFlow ==
  /\ pc # "update" => AllAt("idle")
  /\ pc = "update" => Recovering \/ Asking \/ Clearing

\* Without new engines the ranks are settled; with new ones those that have
\* connected hold the engines that were started last.
ConnectionsHold ==
  /\ num_new_engines = 0 => Settled
  /\ rank_pc[0] \in {"start", "started"} => Settled
  /\ (pc # "update" \/ rank_pc[0] = "recover") /\ num_new_engines > 0 =>
       rollout_id = -1 /\ pc \in {"onload_weights", "update"}
  /\ \A r \in Ranks : rank_pc[r] = "connect" => Covers(answer[r])
  /\ \A r \in Ranks : rank_pc[r] = "connected" => connected[r] = Current
  /\ rank_pc[0] = "clear" => \A r \in Ranks : connected[r] = Current

\* What recover() counted is among what it starts, the new engines hold
\* everything and the old ones their weights.
RecoveryHolds ==
  /\ rank_pc[0] = "start" => dead \subseteq Missing
  /\ rank_pc[0] = "started" =>
       \E new \in SUBSET Slots :
         /\ num_new_engines = Cardinality(new)
         /\ dead \subseteq new
         /\ Offload => \A e \in Engines \cap present :
                         e \notin new => resident[e] = "weights"

Flow == RankFlow /\ ConnectionsHold /\ RecoveryHolds

IInv ==
  /\ TypeOK
  /\ \A s \in Slots : incarnation[s] > 0
  /\ pc # "failed" => Flow
  /\ RanksAgree
  /\ ServesCurrentWeights
  /\ Residency

\* The trainer's side does not see that an engine crashed or was forgotten.
LEMMA EngineLost ==
  ASSUME IInv, TypeOK', present' \subseteq present,
         UNCHANGED <<pc, rollout_id, incarnation, resident, weights, dead, num_new_engines,
                     rank_pc, answer, connected, weight_version>>
  PROVE  IInv'
<1>1. \A s \in Slots : incarnation'[s] > 0
  BY DEF IInv
<1>2. pc' # "failed" => Flow'
  <2> SUFFICES ASSUME pc # "failed" PROVE Flow'
    OBVIOUS
  <2>1. Settled' = Settled /\ Current' = Current
    BY DEF Settled, Covers, Current
  <2>2. RankFlow'
    BY DEF IInv, Flow, RankFlow, AllAt, Recovering, Asking, Clearing
  <2>3. ConnectionsHold'
    BY <2>1 DEF IInv, Flow, ConnectionsHold, Covers
  <2>4. Missing \subseteq Missing' /\ Engines \cap present' \subseteq Engines \cap present
    BY DEF Missing
  <2>5. RecoveryHolds'
    BY <2>4 DEF IInv, Flow, RecoveryHolds
  <2> QED BY <2>2, <2>3, <2>5 DEF Flow
<1>3. RanksAgree' /\ ServesCurrentWeights' /\ Residency'
  BY DEF IInv, RanksAgree, AllAt, ServesCurrentWeights, Residency
<1> QED BY <1>1, <1>2, <1>3 DEF IInv

\* The monitor and the crashes of engines interleave with everything else
\* (health_monitor.py:105-177).
LEMMA MonitorStep ==
  ASSUME IInv, MonitorNext \/ \E s \in Slots : Crash(s)
  PROVE  IInv'
<1>1. TypeOK /\ Engines \subseteq Slots
  BY SlotFacts DEF IInv
<1>2. CASE \E s \in Slots : Crash(s)
  <2>1. UNCHANGED <<driverVars, present, incarnation, resident, weights, managerVars,
                    rankVars, paused, monitorVars>>
    BY <1>2 DEF Crash
  <2>2. up' \in [Slots -> BOOLEAN] /\ crashes' \in Nat
    BY <1>1, <1>2 DEF Crash, TypeOK
  <2>3. TypeOK'
    BY <1>1, <2>1, <2>2 DEF TypeOK, driverVars, managerVars, rankVars, monitorVars
  <2> QED BY <2>1, <2>3, EngineLost DEF driverVars, managerVars, rankVars
<1>3. CASE MonitorNext
  <2>1. UNCHANGED <<driverVars, incarnation, resident, weights, crashes, managerVars,
                    rankVars, paused>>
    BY <1>3 DEF MonitorNext, LeaveTop, EndFirstWait, FirstWaitOver, StartRound, CheckNext,
                Healthy, Unhealthy, Shutdown, Forget, EndInterval, engineVars
  <2>2. present' \subseteq present /\ up' \in [Slots -> BOOLEAN]
    BY <1>1, <1>3 DEF MonitorNext, LeaveTop, EndFirstWait, FirstWaitOver, StartRound, CheckNext,
                Healthy, Unhealthy, Shutdown, Forget, EndInterval, engineVars, TypeOK
  <2>3. /\ need_first_wait' \in BOOLEAN
        /\ monitor' \in {"top", "first_wait", "check", "answer", "kill", "shutdown", "interval"}
    BY <1>1, <1>3 DEF MonitorNext, LeaveTop, EndFirstWait, FirstWaitOver, StartRound, CheckNext,
                Healthy, Unhealthy, Shutdown, Forget, EndInterval, TypeOK
  <2>4. to_check' \in SUBSET Engines
    BY <1>1, <1>3 DEF MonitorNext, LeaveTop, EndFirstWait, FirstWaitOver, StartRound, CheckNext,
                Healthy, Unhealthy, Shutdown, Forget, EndInterval, TypeOK
  <2>5. target' \in Slots
    <3>1. CASE Forget
      BY <1>1, <3>1, NextNode DEF Forget, TypeOK
    <3>2. CASE CheckNext
      <4>1. CASE paused \/ to_check = {}
        BY <1>1, <3>2, <4>1 DEF CheckNext, TypeOK
      <4>2. CASE ~(paused \/ to_check = {})
        <5>1. target' = CHOOSE e \in to_check : \A f \in to_check : e <= f
          BY <3>2, <4>2 DEF CheckNext
        <5>2. to_check \in SUBSET Engines /\ to_check # {} /\ Slots \subseteq Nat
          BY <1>1, <4>2 DEF TypeOK, Slots
        <5>3. \E e \in to_check : \A f \in to_check : e <= f
          BY <1>1, <5>2, LeastNumber
        <5> QED BY <1>1, <5>1, <5>2, <5>3
      <4> QED BY <4>1, <4>2
    <3>3. CASE UNCHANGED target
      BY <1>1, <3>3 DEF TypeOK
    <3> QED BY <1>3, <3>1, <3>2, <3>3 DEF MonitorNext, LeaveTop, EndFirstWait, Healthy,
               Unhealthy, Shutdown, EndInterval
  <2>6. TypeOK'
    BY <1>1, <2>1, <2>2, <2>3, <2>4, <2>5 DEF TypeOK, driverVars, managerVars, rankVars
  <2> QED BY <2>1, <2>2, <2>6, EngineLost DEF driverVars, managerVars, rankVars
<1> QED BY <1>2, <1>3

-----------------------------------------------------------------------------
(* The driver *)

\* An exception ends the training with the ranks where they were.
LEMMA RaiseStep ==
  ASSUME IInv, Raise
  PROVE  IInv'
<1>1. TypeOK' /\ \A s \in Slots : incarnation'[s] > 0
  BY DEF Raise, IInv, TypeOK, engineVars, managerVars, rankVars, monitorVars
<1>2. RanksAgree' /\ ServesCurrentWeights' /\ Residency'
  BY DEF Raise, IInv, RanksAgree, AllAt, ServesCurrentWeights, Residency, rankVars
<1> QED BY <1>1, <1>2 DEF IInv, Raise

\* Calls of the driver between two updates move the engines' memory and leave the
\* ranks alone (train.py:44-99).
LEMMA DriverStep ==
  ASSUME IInv, OnloadKv \/ Generate \/ EndGenerate \/ Train
  PROVE  IInv'
<1>1. /\ UNCHANGED <<present, incarnation, up, weights, crashes, managerVars, rankVars>>
      /\ UNCHANGED <<monitor, to_check, target>>
      /\ pc \in {"onload_kv", "next", "generate", "train"}
      /\ pc' \in {"next", "generate", "train", "onload_weights"}
      /\ rollout_id' \in Nat \cup {-1}
      /\ paused' \in BOOLEAN /\ need_first_wait' \in BOOLEAN
      /\ resident' \in [Engines -> {"nothing", "weights", "all"}]
  <2>1. /\ UNCHANGED <<present, incarnation, up, weights, crashes, managerVars, rankVars>>
        /\ UNCHANGED <<monitor, to_check, target>>
        /\ pc \in {"onload_kv", "next", "generate", "train"}
        /\ pc' \in {"next", "generate", "train", "onload_weights"}
    BY DEF OnloadKv, Generate, EndGenerate, Train, engineVars, monitorVars
  <2>2. rollout_id' \in Nat \cup {-1} /\ paused' \in BOOLEAN /\ need_first_wait' \in BOOLEAN
    <3>1. /\ rollout_id \in Nat \cup {-1} /\ Offload \in BOOLEAN
          /\ paused \in BOOLEAN /\ need_first_wait \in BOOLEAN
      BY RecoveryAssumption DEF IInv, TypeOK
    <3>2. rollout_id' \in {rollout_id, rollout_id + 1}
      BY DEF OnloadKv, Generate, EndGenerate, Train
    <3>3. paused' \in {paused, FALSE, paused \/ Offload}
      BY DEF OnloadKv, Generate, EndGenerate, Train
    <3>4. need_first_wait' \in {need_first_wait, TRUE}
      BY DEF OnloadKv, Generate, EndGenerate, Train, monitorVars
    <3>5. paused' \in BOOLEAN
      BY <3>1, <3>3, Zenon
    <3>6. need_first_wait' \in BOOLEAN
      BY <3>1, <3>4, Zenon
    <3>7. rollout_id' \in Nat \cup {-1}
      BY <3>1, <3>2, SMT
    <3> QED BY <3>5, <3>6, <3>7
  <2>3. resident' \in [Engines -> {"nothing", "weights", "all"}]
    BY DEF OnloadKv, Generate, EndGenerate, Train, IInv, TypeOK, Occupy, engineVars
  <2> QED BY <2>1, <2>2, <2>3
<1>2. /\ pc # "failed" /\ pc' # "failed" /\ pc # "update" /\ pc' # "update"
      /\ UNCHANGED <<dead, num_new_engines, rank_pc, answer, connected, weight_version>>
  BY <1>1 DEF managerVars, rankVars
<1>3. TypeOK'
  BY <1>1, <1>2 DEF IInv, TypeOK
<1>4. AllAt("idle")
  BY <1>2 DEF IInv, Flow, RankFlow
<1>5. RankFlow'
  BY <1>2, <1>4 DEF RankFlow, AllAt
<1>6. num_new_engines = 0
  BY <1>1, <1>2 DEF IInv, TypeOK, Flow, ConnectionsHold
<1>7. ConnectionsHold'
  <2>1. Settled' = Settled /\ Current' = Current
    BY <1>1, <1>2 DEF Settled, Covers, Current
  <2>2. /\ Settled
        /\ \A r \in Ranks : rank_pc[r] = "idle"
    BY <1>2, <1>4, <1>6 DEF IInv, Flow, ConnectionsHold, AllAt
  <2>3. 0 \in Ranks
    BY RecoveryAssumption
  <2> QED BY <1>2, <1>6, <2>1, <2>2, <2>3 DEF ConnectionsHold
<1>8. RecoveryHolds'
  BY <1>2, <1>4, RecoveryAssumption DEF RecoveryHolds, AllAt
<1>9. RanksAgree'
  BY <1>2 DEF IInv, RanksAgree, AllAt
<1>10. ServesCurrentWeights'
  BY <1>1, <1>2 DEF IInv, ServesCurrentWeights, OnloadKv, Generate, EndGenerate, Train
<1>11. Residency'
  BY <1>1, <1>2, <1>4 DEF IInv, Residency, OnloadKv, Generate, EndGenerate, Train, Occupy,
     engineVars
<1> QED BY <1>1, <1>3, <1>5, <1>7, <1>8, <1>9, <1>10, <1>11 DEF IInv, Flow

\* The engines get room for their weights, and rank 0 goes to recover() while the
\* others go to the barrier (train.py:70-73, actor.py:598-609).
LEMMA OnloadWeightsStep ==
  ASSUME IInv, OnloadWeights
  PROVE  IInv'
<1>1. /\ UNCHANGED <<rollout_id, present, incarnation, up, weights, crashes, managerVars, answer,
                     connected, weight_version, paused, monitorVars>>
      /\ pc = "onload_weights" /\ pc' = "update"
      /\ rank_pc' = [r \in Ranks |-> IF r = 0 THEN "recover" ELSE "barrier"]
      /\ resident' \in [Engines -> {"nothing", "weights", "all"}]
      /\ Offload => \A e \in Engines \cap present : resident'[e] = "weights"
      /\ 0 \in Ranks
  BY RecoveryAssumption DEF OnloadWeights, Occupy, IInv, TypeOK
<1>2. TypeOK'
  BY <1>1 DEF IInv, TypeOK, managerVars, monitorVars
<1>3. RankFlow'
  BY <1>1 DEF RankFlow, Recovering, Others
<1>4. ConnectionsHold'
  <2>1. Settled' = Settled
    BY <1>1 DEF Settled, Covers
  <2> QED BY <1>1, <2>1 DEF IInv, Flow, ConnectionsHold, managerVars
<1>5. RecoveryHolds'
  BY <1>1 DEF RecoveryHolds
<1>6. RanksAgree' /\ ServesCurrentWeights' /\ Residency'
  BY <1>1 DEF RanksAgree, AllAt, ServesCurrentWeights, Residency
<1> QED BY <1>1, <1>2, <1>3, <1>4, <1>5, <1>6 DEF IInv, Flow

-----------------------------------------------------------------------------
(* The recovery *)

\* Whoever is in recover() is rank 0, with the others at the barrier.
LEMMA RankZero ==
  ASSUME IInv, pc # "failed", rank_pc[0] \in {"recover", "start", "started"}
  PROVE  pc = "update" /\ Recovering
BY RecoveryAssumption DEF IInv, Flow, RankFlow, Asking, Clearing, AllAt

\* Rank 0 counts the dead engines, or finds that nobody is connected yet
\* (rollout.py:281-300, 538-565).
LEMMA RecoverBeginStep ==
  ASSUME IInv, pc # "failed", RecoverBegin
  PROVE  IInv'
<1>1. /\ UNCHANGED <<driverVars, engineVars, crashes, num_new_engines, answer, connected,
                     weight_version, monitorVars>>
      /\ UNCHANGED <<pc, rollout_id, present, incarnation, resident, weights>>
      /\ rank_pc[0] = "recover" /\ paused' = TRUE /\ pc = "update" /\ Recovering
      /\ 0 \in Ranks
  BY RankZero, RecoveryAssumption DEF RecoverBegin, driverVars, engineVars
<1>2. PICK t \in {"barrier", "start"} : /\ rank_pc' = [rank_pc EXCEPT ![0] = t]
                                        /\ t = "start" => rollout_id # -1 /\ dead' = Missing
                                        /\ t = "barrier" => dead' = dead
  BY DEF RecoverBegin, NotYetConnected
<1>3. /\ rank_pc' \in [Ranks -> {"idle", "recover", "start", "started", "barrier", "ask",
                                 "connect", "connected", "clear", "push"}]
      /\ rank_pc'[0] = t /\ \A r \in Others : rank_pc'[r] = "barrier"
  BY <1>1, <1>2 DEF IInv, TypeOK, Recovering, Others
<1>4. TypeOK'
  BY <1>1, <1>2, <1>3 DEF IInv, TypeOK, Missing, driverVars, engineVars, monitorVars
<1>5. RankFlow'
  BY <1>1, <1>3 DEF RankFlow, Recovering
<1>6. ConnectionsHold'
  <2>1. Settled' = Settled
    BY <1>1 DEF Settled, Covers
  <2>2. t = "start" => Settled
    BY <1>1, <1>2 DEF IInv, TypeOK, Flow, ConnectionsHold
  <2>3. \A r \in Ranks : rank_pc'[r] \in {"start", "barrier"}
    BY <1>3 DEF Others
  <2> QED BY <1>1, <1>3, <2>1, <2>2, <2>3 DEF IInv, Flow, ConnectionsHold
<1>7. RecoveryHolds'
  BY <1>1, <1>2, <1>3 DEF RecoveryHolds, Missing
<1>8. RanksAgree' /\ ServesCurrentWeights' /\ Residency'
  BY <1>1, <1>3 DEF IInv, RanksAgree, AllAt, ServesCurrentWeights, Residency
<1>9. \A s \in Slots : incarnation'[s] > 0
  BY <1>1 DEF IInv
<1> QED BY <1>4, <1>5, <1>6, <1>7, <1>8, <1>9 DEF IInv, Flow

\* start_engines starts every engine that is missing by then, which are those that
\* were counted or more (rollout.py:60-160, 293-300).
LEMMA StartEnginesStep ==
  ASSUME IInv, pc # "failed", StartEngines
  PROVE  IInv'
<1>1. /\ UNCHANGED <<driverVars, crashes, dead, answer, connected, weight_version, paused,
                     monitorVars>>
      /\ rank_pc[0] = "start" /\ rank_pc' = [rank_pc EXCEPT ![0] = "started"]
      /\ present' = Slots /\ pc = "update" /\ pc' = "update" /\ Recovering
      /\ num_new_engines' = Cardinality(Missing)
      /\ incarnation' = [s \in Slots |-> incarnation[s] + (IF s \in Missing THEN 1 ELSE 0)]
      /\ up' = [s \in Slots |-> up[s] \/ s \in Missing]
      /\ resident' = [e \in Engines |-> IF e \in Missing THEN "all" ELSE resident[e]]
      /\ weights' = [e \in Engines |-> IF e \in Missing THEN 0 ELSE weights[e]]
      /\ 0 \in Ranks
  BY RankZero, RecoveryAssumption DEF StartEngines, driverVars
<1>2. /\ Missing \subseteq Slots /\ IsFiniteSet(Missing) /\ Cardinality(Missing) \in Nat
  <2>1. Missing \subseteq Slots
    BY DEF Missing
  <2> QED BY <2>1, SlotFacts, FS_Subset, FS_CardinalityType
<1>3. /\ rank_pc' \in [Ranks -> {"idle", "recover", "start", "started", "barrier", "ask",
                                 "connect", "connected", "clear", "push"}]
      /\ rank_pc'[0] = "started" /\ \A r \in Others : rank_pc'[r] = "barrier"
  BY <1>1 DEF IInv, TypeOK, Recovering, Others
<1>4. /\ incarnation' \in [Slots -> Nat] /\ up' \in [Slots -> BOOLEAN]
      /\ \A s \in Slots : incarnation'[s] > 0
    <2>1. ASSUME NEW s \in Slots
          PROVE  /\ incarnation[s] + (IF s \in Missing THEN 1 ELSE 0) \in Nat
                 /\ incarnation[s] + (IF s \in Missing THEN 1 ELSE 0) > 0
      BY DEF IInv, TypeOK
    <2> QED BY <1>1, <2>1 DEF IInv, TypeOK
<1>5. /\ resident' \in [Engines -> {"nothing", "weights", "all"}]
      /\ weights' \in [Engines -> Nat]
  BY <1>1 DEF IInv, TypeOK
<1>6. TypeOK'
  BY <1>1, <1>2, <1>3, <1>4, <1>5 DEF IInv, TypeOK, driverVars, monitorVars
<1>7. RankFlow'
  BY <1>1, <1>3 DEF RankFlow, Recovering
<1>8. ConnectionsHold'
  <2>1. Settled' = Settled
    BY <1>1 DEF Settled, Covers
  <2>2. Settled
    BY <1>1 DEF IInv, Flow, ConnectionsHold
  <2>3. \A r \in Ranks : rank_pc'[r] \in {"started", "barrier"}
    BY <1>3 DEF Others
  <2> QED BY <1>1, <1>3, <2>1, <2>2, <2>3 DEF ConnectionsHold
<1>9. RecoveryHolds'
  <2>1. dead \subseteq Missing
    BY <1>1 DEF IInv, Flow, RecoveryHolds
  <2>2. Offload => \A e \in Engines : e \notin Missing => resident'[e] = "weights"
    BY <1>1, SlotFacts DEF IInv, Residency, Missing
  <2>3. /\ num_new_engines' = Cardinality(Missing) /\ dead' \subseteq Missing
        /\ Offload => \A e \in Engines \cap present' :
                        e \notin Missing => resident'[e] = "weights"
        /\ Missing \in SUBSET Slots
    BY <1>1, <1>2, <2>1, <2>2
  <2> DEFINE started(new) ==
               /\ num_new_engines' = Cardinality(new) /\ dead' \subseteq new
               /\ Offload => \A e \in Engines \cap present' :
                               e \notin new => resident'[e] = "weights"
  <2>4. started(Missing) /\ Missing \in SUBSET Slots
    BY <2>3
  <2>5. \E new \in SUBSET Slots : started(new)
    <3> HIDE DEF started
    <3> QED BY <2>4
  <2> QED BY <1>3, <2>5 DEF RecoveryHolds
<1>10. RanksAgree' /\ ServesCurrentWeights' /\ Residency'
  BY <1>1, <1>3 DEF RanksAgree, AllAt, ServesCurrentWeights, Residency
<1> QED BY <1>4, <1>6, <1>7, <1>8, <1>9, <1>10 DEF IInv, Flow

\* The assertion on the counts makes the engines that were started exactly those
\* that were dead, so that all of them are released (rollout.py:300-335).
LEMMA RecoverEndStep ==
  ASSUME IInv, pc # "failed", RecoverEnd
  PROVE  IInv'
<1>1. /\ UNCHANGED <<driverVars, present, incarnation, up, weights, crashes, managerVars, answer,
                     connected, weight_version, paused, monitorVars>>
      /\ UNCHANGED <<pc, rollout_id, num_new_engines, dead>>
      /\ rank_pc[0] = "started" /\ rank_pc' = [rank_pc EXCEPT ![0] = "barrier"]
      /\ pc = "update" /\ Recovering /\ num_new_engines = Cardinality(dead)
      /\ resident' = [e \in Engines |-> IF Offload /\ e \in dead THEN "weights" ELSE resident[e]]
      /\ 0 \in Ranks
  BY RankZero, RecoveryAssumption DEF RecoverEnd, AsCounted, AfterRelease, driverVars, managerVars
<1>2. PICK new \in SUBSET Slots :
        /\ num_new_engines = Cardinality(new) /\ dead \subseteq new
        /\ Offload => \A e \in Engines \cap present : e \notin new => resident[e] = "weights"
  BY <1>1 DEF IInv, Flow, RecoveryHolds
<1>3. dead = new
  BY <1>1, <1>2, SlotFacts, FS_Subset
<1>4. /\ rank_pc' \in [Ranks -> {"idle", "recover", "start", "started", "barrier", "ask",
                                 "connect", "connected", "clear", "push"}]
      /\ \A r \in Ranks : rank_pc'[r] = "barrier"
  BY <1>1 DEF IInv, TypeOK, Recovering, Others
<1>5. TypeOK'
  BY <1>1, <1>4 DEF IInv, TypeOK, driverVars, managerVars, monitorVars
<1>6. RankFlow'
  BY <1>1, <1>4 DEF RankFlow, Recovering, Others
<1>7. ConnectionsHold'
  <2>1. Settled' = Settled /\ Settled
    BY <1>1 DEF Settled, Covers, IInv, Flow, ConnectionsHold
  <2> QED BY <1>1, <1>4, <2>1 DEF ConnectionsHold
<1>8. RecoveryHolds'
  BY <1>1, <1>4 DEF RecoveryHolds
<1>9. Residency'
  BY <1>1, <1>2, <1>3 DEF Residency
<1>10. RanksAgree' /\ ServesCurrentWeights'
  BY <1>1, <1>4 DEF RanksAgree, AllAt, ServesCurrentWeights
<1>11. \A s \in Slots : incarnation'[s] > 0
  BY <1>1 DEF IInv
<1> QED BY <1>5, <1>6, <1>7, <1>8, <1>9, <1>10, <1>11 DEF IInv, Flow

-----------------------------------------------------------------------------
(* The connections *)

RankPc == {"idle", "recover", "start", "started", "barrier", "ask", "connect", "connected",
           "clear", "push"}

\* A step of the ranks after the recovery, in an update that is in progress.
LEMMA RankStepFrame ==
  ASSUME IInv, pc = "update", rank_pc[0] \notin {"start", "started"},
         rank_pc'[0] \notin {"recover", "start", "started"},
         UNCHANGED <<driverVars, engineVars, crashes, dead, weight_version, paused, monitorVars>>,
         rank_pc' \in [Ranks -> RankPc], answer' \in [Ranks -> SUBSET Handles],
         connected' \in [Ranks -> SUBSET LiveHandles], num_new_engines' \in Nat,
         RankFlow', ConnectionsHold'
  PROVE  IInv'
<1>1. UNCHANGED <<pc, rollout_id, present, incarnation, up, resident, weights, need_first_wait,
                  monitor, to_check, target>>
  BY DEF driverVars, engineVars, monitorVars
<1>2. TypeOK'
  BY <1>1 DEF IInv, TypeOK, RankPc, Handles, LiveHandles
<1>3. RecoveryHolds'
  BY DEF RecoveryHolds
<1>4. RanksAgree'
  <2> SUFFICES ASSUME \A r \in Ranks : rank_pc'[r] = "push", NEW q \in Ranks, NEW r \in Ranks
               PROVE  connected'[q] = connected'[r] /\ connected'[q] # {}
    BY DEF RanksAgree, AllAt
  <2>1. 0 \in Ranks
    BY RecoveryAssumption
  <2>2. Asking'
    BY <1>1, <2>1 DEF RankFlow, Recovering, Clearing
  <2>3. num_new_engines' = 0
    BY <2>1, <2>2 DEF Asking
  <2>4. Settled'
    BY <2>3 DEF ConnectionsHold
  <2>5. Covers(connected'[q])
    BY <2>4 DEF Settled, Covers
  <2>6. connected'[q] # {}
    <3> DEFINE c == connected'[q]
    <3>1. {h[1] : h \in c} = Engines /\ Engines # {}
      BY <2>5, SlotFacts DEF Covers
    <3> HIDE DEF c
    <3>2. c # {}
      BY <3>1
    <3> QED BY <3>2 DEF c
  <2> QED BY <2>4, <2>6 DEF Settled
<1>5. ServesCurrentWeights' /\ Residency'
  BY <1>1 DEF IInv, ServesCurrentWeights, Residency
<1>6. \A s \in Slots : incarnation'[s] > 0
  BY <1>1 DEF IInv
<1> QED BY <1>2, <1>3, <1>4, <1>5, <1>6 DEF IInv, Flow

\* The phase of the ranks, from what one of them does.
LEMMA RankPhase ==
  ASSUME IInv, pc # "failed"
  PROVE  /\ 0 \in Ranks /\ num_new_engines \in Nat
         /\ rank_pc \in [Ranks -> RankPc]
         /\ answer \in [Ranks -> SUBSET Handles] /\ connected \in [Ranks -> SUBSET LiveHandles]
         /\ AllAt("barrier") => pc = "update"
         /\ (\E r \in Ranks : rank_pc[r] \in {"ask", "connect", "connected"}) =>
              pc = "update" /\ Asking
         /\ rank_pc[0] = "clear" => pc = "update" /\ Clearing
         /\ AllAt("push") => pc = "update" /\ num_new_engines = 0 /\ Settled
<1>1. /\ 0 \in Ranks /\ num_new_engines \in Nat
      /\ rank_pc \in [Ranks -> RankPc]
      /\ answer \in [Ranks -> SUBSET Handles] /\ connected \in [Ranks -> SUBSET LiveHandles]
  BY RecoveryAssumption DEF IInv, TypeOK, RankPc
<1>2. /\ pc # "update" => \A r \in Ranks : rank_pc[r] = "idle"
      /\ pc = "update" => Recovering \/ Asking \/ Clearing
  BY DEF IInv, Flow, RankFlow, AllAt
<1>3. AllAt("barrier") => pc = "update"
  BY <1>1, <1>2 DEF AllAt
<1>4. (\E r \in Ranks : rank_pc[r] \in {"ask", "connect", "connected"}) => pc = "update" /\ Asking
  BY <1>1, <1>2 DEF Recovering, Clearing, Others
<1>5. rank_pc[0] = "clear" => pc = "update" /\ Clearing
  BY <1>1, <1>2 DEF Recovering, Asking
<1>6. AllAt("push") => pc = "update" /\ num_new_engines = 0 /\ Settled
  <2> SUFFICES ASSUME \A r \in Ranks : rank_pc[r] = "push"
               PROVE  pc = "update" /\ num_new_engines = 0 /\ Settled
    BY DEF AllAt
  <2>1. pc = "update" /\ Asking
    BY <1>1, <1>2 DEF Recovering, Clearing
  <2>2. num_new_engines = 0
    BY <1>1, <2>1 DEF Asking
  <2> QED BY <2>1, <2>2 DEF IInv, Flow, ConnectionsHold
<1> QED BY <1>1, <1>3, <1>4, <1>5, <1>6

\* After the recovery every rank asks (actor.py:609-611).
LEMMA BarrierAfterRecoverStep ==
  ASSUME IInv, pc # "failed", BarrierAfterRecover
  PROVE  IInv'
<1>1. /\ UNCHANGED <<driverVars, engineVars, crashes, managerVars, answer, connected,
                     weight_version, paused, monitorVars>>
      /\ UNCHANGED <<pc, rollout_id, incarnation, num_new_engines, dead>>
      /\ rank_pc' = [r \in Ranks |-> "ask"] /\ AllAt("barrier")
  BY DEF BarrierAfterRecover, driverVars, engineVars, managerVars
<1>2. pc = "update" /\ 0 \in Ranks /\ rank_pc[0] = "barrier"
  BY <1>1, RankPhase DEF AllAt
<1>3. RankFlow'
  BY <1>1, <1>2 DEF RankFlow, Asking
<1>4. ConnectionsHold'
  <2>1. Settled' = Settled
    BY <1>1 DEF Settled, Covers
  <2> QED BY <1>1, <1>2, <2>1 DEF IInv, Flow, ConnectionsHold
<1>5. rank_pc' \in [Ranks -> RankPc]
  BY <1>1 DEF RankPc
<1> QED BY <1>1, <1>2, <1>3, <1>4, <1>5, RankPhase, RankStepFrame

\* A rank that asks gets a handle for every engine, dead or not, and connects if
\* some engine is new (actor.py:611-621).
LEMMA AskStep ==
  ASSUME IInv, pc # "failed", NEW r \in Ranks, Ask(r)
  PROVE  IInv'
<1> DEFINE list == {Handle(e) : e \in Engines}
           t == IF MustConnect THEN "connect" ELSE "push"
<1>1. /\ UNCHANGED <<driverVars, engineVars, crashes, managerVars, connected, weight_version,
                     paused, monitorVars>>
      /\ UNCHANGED <<pc, rollout_id, incarnation, num_new_engines, dead>>
      /\ answer' = [answer EXCEPT ![r] = list] /\ rank_pc' = [rank_pc EXCEPT ![r] = t]
      /\ rank_pc[r] = "ask"
  BY DEF Ask, driverVars, engineVars, managerVars
<1>2. /\ pc = "update" /\ Asking /\ 0 \in Ranks /\ num_new_engines \in Nat
      /\ rank_pc \in [Ranks -> RankPc] /\ answer \in [Ranks -> SUBSET Handles]
      /\ connected \in [Ranks -> SUBSET LiveHandles]
  BY <1>1, RankPhase
<1>3. t = IF num_new_engines > 0 THEN "connect" ELSE "push"
  BY DEF MustConnect
<1>4. list \in SUBSET Handles /\ Covers(list)
  <2>1. ASSUME NEW e \in Engines
        PROVE  Handle(e) \in Handles /\ Handle(e)[1] = e
    BY SlotFacts DEF Handle, Handles, NoneHandle, IInv, TypeOK
  <2> QED BY <2>1 DEF Covers
<1> HIDE DEF list, t
<1>5. RankFlow'
  <2>1. Asking'
    BY <1>1, <1>2, <1>3 DEF Asking
  <2> QED BY <1>1, <1>2, <2>1 DEF RankFlow
<1>6. ConnectionsHold'
  <2>1. Settled' = Settled /\ Current' = Current
    BY <1>1 DEF Settled, Covers, Current
  <2>2. \A q \in Ranks : rank_pc'[q] = "connect" => Covers(answer'[q])
    BY <1>1, <1>2, <1>4 DEF IInv, Flow, ConnectionsHold
  <2>3. \A q \in Ranks : rank_pc'[q] = "connected" => connected'[q] = Current
    BY <1>1, <1>2, <1>3 DEF IInv, Flow, ConnectionsHold
  <2>4. rank_pc'[0] \notin {"recover", "start", "started", "clear"}
    BY <1>1, <1>2, <1>3 DEF Asking
  <2>5. num_new_engines' = 0 => Settled
    BY <1>1 DEF IInv, Flow, ConnectionsHold
  <2> QED BY <1>1, <1>2, <2>1, <2>2, <2>3, <2>4, <2>5 DEF ConnectionsHold, Covers
<1>7. rank_pc' \in [Ranks -> RankPc] /\ answer' \in [Ranks -> SUBSET Handles]
  BY <1>1, <1>2, <1>3, <1>4 DEF RankPc
<1>8. rank_pc[0] \notin {"start", "started"} /\ rank_pc'[0] \notin {"recover", "start", "started"}
  BY <1>1, <1>2, <1>3 DEF Asking
<1> QED BY <1>1, <1>2, <1>5, <1>6, <1>7, <1>8, RankStepFrame

\* Whatever the monitor forgot meanwhile, a rank that could connect has the engines
\* that were started last (actor.py:622-634).
LEMMA ConnectStep ==
  ASSUME IInv, pc # "failed", NEW r \in Ranks, Connect(r)
  PROVE  IInv'
<1>1. /\ UNCHANGED <<driverVars, engineVars, crashes, managerVars, answer, weight_version, paused,
                     monitorVars>>
      /\ UNCHANGED <<pc, rollout_id, incarnation, num_new_engines, dead>>
      /\ connected' = [connected EXCEPT ![r] = answer[r]]
      /\ rank_pc' = [rank_pc EXCEPT ![r] = "connected"]
      /\ rank_pc[r] = "connect" /\ Reachable(answer[r])
  BY DEF Connect, driverVars, engineVars, managerVars
<1>2. /\ pc = "update" /\ Asking /\ 0 \in Ranks /\ num_new_engines \in Nat
      /\ rank_pc \in [Ranks -> RankPc] /\ answer \in [Ranks -> SUBSET Handles]
      /\ connected \in [Ranks -> SUBSET LiveHandles]
  BY <1>1, RankPhase
<1>3. num_new_engines > 0
  BY <1>1, <1>2 DEF Asking
<1>4. answer[r] = Current /\ answer[r] \in SUBSET LiveHandles
  <2> DEFINE a == answer[r]
  <2>1. {h[1] : h \in a} = Engines
    BY <1>1 DEF IInv, Flow, ConnectionsHold, Covers
  <2>2. \A h \in a : h = <<h[1], incarnation[h[1]]>>
    BY <1>1 DEF Reachable, Handle
  <2>3. \A s \in Slots : incarnation[s] \in Nat /\ incarnation[s] > 0
    BY DEF IInv, TypeOK
  <2> HIDE DEF a
  <2>4. a \subseteq Current
    BY <2>1, <2>2 DEF Current
  <2>5. ASSUME NEW e \in Engines
        PROVE  <<e, incarnation[e]>> \in a
    <3>1. PICK h \in a : h[1] = e
      BY <2>1
    <3> QED BY <2>2, <3>1
  <2>6. Current \subseteq LiveHandles
    BY <2>3, SlotFacts DEF Current, LiveHandles, NoneHandle
  <2>7. a = Current
    BY <2>4, <2>5 DEF Current
  <2> QED BY <2>6, <2>7 DEF a
<1>5. RankFlow'
  <2>1. Asking'
    BY <1>1, <1>2, <1>3 DEF Asking
  <2> QED BY <1>1, <1>2, <2>1 DEF RankFlow
<1>6. ConnectionsHold'
  <2>1. Current' = Current
    BY <1>1 DEF Current
  <2>2. \A q \in Ranks : rank_pc'[q] = "connect" => Covers(answer'[q])
    BY <1>1, <1>2 DEF IInv, Flow, ConnectionsHold
  <2>3. \A q \in Ranks : rank_pc'[q] = "connected" => connected'[q] = Current
    BY <1>1, <1>2, <1>4 DEF IInv, Flow, ConnectionsHold
  <2>4. rank_pc'[0] \notin {"recover", "start", "started", "clear"}
    BY <1>1, <1>2, <1>3 DEF Asking
  <2> QED BY <1>1, <1>2, <1>3, <2>1, <2>2, <2>3, <2>4 DEF ConnectionsHold, Covers
<1>7. rank_pc' \in [Ranks -> RankPc] /\ connected' \in [Ranks -> SUBSET LiveHandles]
  BY <1>1, <1>2, <1>4 DEF RankPc
<1>8. rank_pc[0] \notin {"start", "started"} /\ rank_pc'[0] \notin {"recover", "start", "started"}
  BY <1>1, <1>2, <1>3 DEF Asking
<1> QED BY <1>1, <1>2, <1>5, <1>6, <1>7, <1>8, RankStepFrame

\* The barrier lets rank 0 clear the counter when nobody has to read it any more
\* (actor.py:634-636).
LEMMA BarrierAfterConnectStep ==
  ASSUME IInv, pc # "failed", BarrierAfterConnect
  PROVE  IInv'
<1>1. /\ UNCHANGED <<driverVars, engineVars, crashes, managerVars, answer, connected,
                     weight_version, paused, monitorVars>>
      /\ UNCHANGED <<pc, rollout_id, incarnation, num_new_engines, dead>>
      /\ rank_pc' = [r \in Ranks |-> IF r = 0 THEN "clear" ELSE "push"]
      /\ \A r \in Ranks : rank_pc[r] = "connected"
  BY DEF BarrierAfterConnect, AllAt, driverVars, engineVars, managerVars
<1>2. pc = "update" /\ Asking /\ 0 \in Ranks /\ num_new_engines \in Nat
  BY <1>1, RankPhase
<1>3. num_new_engines > 0
  BY <1>1, <1>2 DEF Asking
<1>4. \A r \in Ranks : connected[r] = Current
  BY <1>1 DEF IInv, Flow, ConnectionsHold
<1>5. RankFlow'
  BY <1>1, <1>2 DEF RankFlow, Clearing, Others
<1>6. ConnectionsHold'
  <2>1. Current' = Current
    BY <1>1 DEF Current
  <2> QED BY <1>1, <1>2, <1>3, <1>4, <2>1 DEF ConnectionsHold
<1>7. rank_pc' \in [Ranks -> RankPc] /\ rank_pc'[0] = "clear" /\ rank_pc[0] = "connected"
  BY <1>1, <1>2 DEF RankPc
<1> QED BY <1>1, <1>2, <1>5, <1>6, <1>7, RankPhase, RankStepFrame

\* Clearing the counter leaves every rank connected to the same engines
\* (actor.py:635-636).
LEMMA ClearStep ==
  ASSUME IInv, pc # "failed", Clear
  PROVE  IInv'
<1>1. /\ UNCHANGED <<driverVars, engineVars, crashes, dead, answer, connected, weight_version,
                     paused, monitorVars>>
      /\ UNCHANGED <<pc, rollout_id, incarnation>>
      /\ num_new_engines' = 0 /\ rank_pc[0] = "clear"
      /\ rank_pc' = [rank_pc EXCEPT ![0] = "push"]
  BY DEF Clear, driverVars, engineVars
<1>2. pc = "update" /\ Clearing /\ 0 \in Ranks /\ rank_pc \in [Ranks -> RankPc]
  BY <1>1, RankPhase
<1>3. rank_pc' \in [Ranks -> RankPc] /\ \A r \in Ranks : rank_pc'[r] = "push"
  BY <1>1, <1>2 DEF RankPc, Clearing, Others
<1>4. Settled'
  <2>1. \A r \in Ranks : connected[r] = Current
    BY <1>1 DEF IInv, Flow, ConnectionsHold
  <2>2. Covers(Current)
    <3>1. \A e \in Engines : <<e, incarnation[e]>>[1] = e
      OBVIOUS
    <3>2. \A e \in Engines : <<e, incarnation[e]>> \in Current
      BY DEF Current
    <3>3. \A h \in Current : h[1] \in Engines
      BY DEF Current
    <3> QED BY <3>1, <3>2, <3>3 DEF Covers
  <2> QED BY <1>1, <1>2, <2>1, <2>2 DEF Settled, Covers
<1>5. RankFlow'
  BY <1>1, <1>2, <1>3 DEF RankFlow, Asking
<1>6. ConnectionsHold'
  BY <1>1, <1>2, <1>3, <1>4 DEF ConnectionsHold
<1>7. 0 \in Nat
  OBVIOUS
<1> QED BY <1>1, <1>2, <1>3, <1>5, <1>6, RankPhase, RankStepFrame

\* The push reaches every engine of the group: each rank has a handle for it, and
\* the handle is of the engine that runs (actor.py:637-644).
LEMMA PushStep ==
  ASSUME IInv, pc # "failed", Push
  PROVE  IInv'
<1>1. /\ UNCHANGED <<rollout_id, present, incarnation, up, resident, crashes, managerVars, answer,
                     connected, paused, monitorVars>>
      /\ UNCHANGED <<dead, num_new_engines, need_first_wait, monitor, to_check, target>>
      /\ AllAt("push") /\ \A r \in Ranks : Reachable(connected[r])
      /\ weight_version' = weight_version + 1 /\ pc' = "onload_kv"
      /\ weights' = [e \in Engines |-> IF \A r \in Ranks : Handle(e) \in connected[r]
                                       THEN weight_version + 1 ELSE weights[e]]
      /\ rank_pc' = [r \in Ranks |-> "idle"]
  BY DEF Push, managerVars, monitorVars
<1>2. pc = "update" /\ num_new_engines = 0 /\ Settled /\ 0 \in Ranks
  BY <1>1, RankPhase
<1>3. ASSUME NEW e \in Engines, NEW r \in Ranks
      PROVE  Handle(e) \in connected[r]
  <2>1. {h[1] : h \in connected[r]} = Engines
    BY <1>2 DEF Settled, Covers
  <2>2. PICK h \in connected[r] : h[1] = e
    BY <2>1
  <2> QED BY <1>1, <2>2 DEF Reachable
<1>4. weights' = [e \in Engines |-> weight_version + 1]
  BY <1>1, <1>3
<1>5. TypeOK'
  BY <1>1, <1>4 DEF IInv, TypeOK
<1>6. RankFlow'
  BY <1>1 DEF RankFlow, AllAt
<1>7. ConnectionsHold'
  <2>1. Settled' = Settled
    BY <1>1 DEF Settled, Covers
  <2> QED BY <1>1, <1>2, <2>1 DEF ConnectionsHold
<1>8. RecoveryHolds'
  BY <1>1, <1>2 DEF RecoveryHolds
<1>9. RanksAgree' /\ Residency'
  BY <1>1, <1>2 DEF RanksAgree, AllAt, Residency
<1>10. ServesCurrentWeights'
  BY <1>1, <1>4 DEF ServesCurrentWeights
<1>11. \A s \in Slots : incarnation'[s] > 0
  BY <1>1 DEF IInv
<1> QED BY <1>5, <1>6, <1>7, <1>8, <1>9, <1>10, <1>11 DEF IInv, Flow

-----------------------------------------------------------------------------
\* All engines start together, nobody is connected and all of them are new.
LEMMA InitIInv == Init => IInv
<1> SUFFICES ASSUME Init PROVE IInv
  OBVIOUS
<1>1. 0 \in Ranks /\ Offload \in BOOLEAN
  BY RecoveryAssumption
<1>2. TypeOK /\ \A s \in Slots : incarnation[s] > 0
  BY SlotFacts DEF Init, TypeOK
<1>3. RankFlow /\ ConnectionsHold /\ RecoveryHolds
  BY <1>1, SlotFacts DEF Init, RankFlow, AllAt, ConnectionsHold, RecoveryHolds
<1>4. RanksAgree /\ ServesCurrentWeights /\ Residency
  BY <1>1, SlotFacts DEF Init, RanksAgree, AllAt, ServesCurrentWeights, Residency
<1> QED BY <1>2, <1>3, <1>4 DEF IInv, Flow

\* A step that changes nothing.
LEMMA StutterStep ==
  ASSUME IInv, UNCHANGED vars
  PROVE  IInv'
<1>1. TypeOK'
  BY DEF IInv, TypeOK, vars, driverVars, engineVars, managerVars, rankVars, monitorVars
<1>2. present' \subseteq present
  BY DEF vars, engineVars
<1> QED BY <1>1, <1>2, EngineLost DEF vars, driverVars, engineVars, managerVars, rankVars

\* Every step keeps the inductive invariant.
LEMMA NextIInv == IInv /\ [Next]_vars => IInv'
<1> SUFFICES ASSUME IInv, [Next]_vars PROVE IInv'
  OBVIOUS
<1>1. CASE TrainerNext
  <2>1. pc # "failed"
    BY <1>1 DEF TrainerNext, Running
  <2>2. CASE CallRaises \/ StartRaises \/ RecoverRaises \/ PushRaises
             \/ \E r \in Ranks : ConnectRaises(r)
    BY <2>2, RaiseStep DEF CallRaises, StartRaises, RecoverRaises, PushRaises, ConnectRaises
  <2> QED BY <1>1, <2>1, <2>2, OnloadWeightsStep, DriverStep, RecoverBeginStep, StartEnginesStep,
             RecoverEndStep, BarrierAfterRecoverStep, AskStep, ConnectStep,
             BarrierAfterConnectStep, ClearStep, PushStep DEF TrainerNext
<1>2. CASE MonitorNext \/ \E s \in Slots : Crash(s)
  BY <1>2, MonitorStep
<1>3. CASE Terminating \/ UNCHANGED vars
  BY <1>3, StutterStep DEF Terminating
<1> QED BY <1>1, <1>2, <1>3 DEF Next

\* The inductive invariant holds throughout.
THEOREM Inductive == Spec => []IInv
BY InitIInv, NextIInv, PTL DEF Spec

\* The state is well formed: an index that is killed exists, a connection is to an
\* engine and not to None.
THEOREM TypeCorrect == Spec => []TypeOK
BY Inductive, PTL DEF IInv

\* The ranks that push hold the same engines, whatever the monitor forgets while
\* they ask one after the other (actor.py:611-636).
THEOREM RanksAgreeCorrect == Spec => []RanksAgree
BY Inductive, PTL DEF IInv

\* No engine serves a rollout with old weights, new engines included
\* (actor.py:607-644, rollout.py:538-565).
THEOREM ServesCurrentWeightsCorrect == Spec => []ServesCurrentWeights
BY Inductive, PTL DEF IInv

\* Offloaded engines, old and new, hold what the phase of the loop allows
\* (rollout.py:302-321, 337-358, 521-536; train.py:30-39, 70-99).
THEOREM ResidencyCorrect == Spec => []Residency
BY Inductive, PTL DEF IInv
=============================================================================
