------------------------- MODULE AgentSessionProofs -------------------------
(***************************************************************************)
(* Theorems about a session of an adapter: every turn that was generated   *)
(* is in exactly one segment, and the turns of a segment are one           *)
(* conversation, for any number of requests, any template and any context. *)
(*                                                                         *)
(* finish_session() runs in another thread than the handlers.  A handler   *)
(* that is between the closed check and its registration when the session  *)
(* is closed escapes it; the argument follows that one (Stragglers), shows *)
(* that it is alone (EnteringInv) and that nothing else is missing from    *)
(* what was drained (FinishInv).                                           *)
(*                                                                         *)
(* The session changes in two steps only, under its lock.  The argument    *)
(* follows a turn through them: onto a chain (Answer), and with its chain  *)
(* into a segment (Acquire).                                               *)
(*                                                                         *)
(* What merge_turns() makes of a segment is what was generated, after the  *)
(* text it was generated from.  That part of the argument follows the      *)
(* replay from turn to turn, with an invariant of its own (Sound).         *)
(***************************************************************************)
EXTENDS AgentSession, WellFoundedInduction, TLAPS

Pcs == Busy \cup {"arriving", "over"}
Forms == {"exact", "changed", "thinks"}
Systems == Conversations \cup {"none"}

Message ==
  [role : {"system", "question", "tool", "assistant"}, of : Conversations, id : Nat,
   length : Nat, form : Forms, result : Nat]
History == Seq(Message)
Prompts == {RenderTokenIds(tools, chat) : tools \in Nat, chat \in History} \cup {<< >>}
Texts == {Output(n, length) : n \in Nat, length \in Nat}
Turn == [prompt_ids : Prompts, output_ids : Texts]

Chain == [system : Systems, chat : History, seen : History, tools : 0 .. 2, turns : Seq(Turn)]
Segment == [kind : {"subagent", "wipe", "final"}, turns : Seq(Turn) \ {<< >>}]
Sessions ==
  [main : Chain, sub : Chain, armed : BOOLEAN, pending : Nat, segments : Seq(Segment)]

RequestBody ==
  [conversation : Conversations, system : Systems, messages : History, tools : 1 .. 2]
Handlers ==
  [pc : Pcs, body : RequestBody, who : {"main", "sub"}, prompt : Prompts, output : Texts,
   form : Forms, dispatch : Nat, locked : BOOLEAN, cancelled : BOOLEAN, late : BOOLEAN]

-----------------------------------------------------------------------------
(* The inductive invariant. *)

\* Types; client.main and the histories of the requests are sequences of messages.
TypeOK ==
  /\ protocol \in {"anthropic", "openai"}
  /\ session \in Sessions
  /\ requests \in Seq(Handlers)
  /\ closed \in BOOLEAN
  /\ finish \in [Calls -> {"no", "waiting", "done", "raised", "given_up"}]
  /\ awaited \in [Calls -> SUBSET Nat]
  /\ frozen \in Seq(Segment)
  /\ client \in [main : History, sub : History, dispatch : Nat, tools : 1 .. 2]

\* The handlers: who holds the lock, and who has an output.
HandlersInv ==
  /\ \A r \in Ids : requests[r].locked <=> At(r, {"generating", "aborting"})
  /\ \A q, r \in Holding : q = r
  /\ \A r \in Ids :
       At(r, {"arriving", "lock", "generating", "aborting"}) => requests[r].output = << >>

\* One handler at a time is between the closed check and its registration, and none
\* when one has registered late.
EnteringInv ==
  /\ \A q, r \in Entering : q = r
  /\ \A r \in Ids : requests[r].late => closed /\ Entering = {}
  /\ \A q, r \in Ids : requests[q].late /\ requests[r].late => q = r

\* The requests whose answers a sequence of turns holds, each once.
Of(turns) == {Request(turns[k]) : k \in Answered(turns)}
Once(turns) == \A j, k \in Answered(turns) : Request(turns[j]) = Request(turns[k]) => j = k

InSegments(segments) == UNION {Of(segments[i].turns) : i \in DOMAIN segments}

\* No answer is in the segments twice.
Apiece(segments) ==
  /\ \A i \in DOMAIN segments : Once(segments[i].turns)
  /\ \A i, j \in DOMAIN segments : i # j => Of(segments[i].turns) \cap Of(segments[j].turns) = {}

\* Who is at work once finish_session is called is awaited or a straggler, and a
\* straggler when it is done; what was recorded and is not in the segments it drained
\* is a straggler's.
FinishInv ==
  /\ finish["try"] = "no" => finish["finally"] = "no" /\ \A call \in Calls : awaited[call] = {}
  /\ finish["try"] # "no" =>
       /\ closed
       /\ \A r \in Ids : At(r, Working) => r \in awaited["try"] \cup Stragglers
  /\ finish["try"] = "done" =>
       /\ \A r \in Ids : At(r, Working) => r \in Stragglers
       /\ Apiece(frozen)
       /\ InSegments(frozen) \subseteq Recorded
       /\ Recorded \ InSegments(frozen) \subseteq Stragglers

\* Every answer is on a chain or in a segment, and nowhere twice.
Whole(s, recorded) ==
  /\ Once(s.main.turns) /\ Once(s.sub.turns)
  /\ Of(s.main.turns) \cap Of(s.sub.turns) = {}
  /\ \A i \in DOMAIN s.segments :
       /\ Once(s.segments[i].turns)
       /\ Of(s.segments[i].turns) \cap (Of(s.main.turns) \cup Of(s.sub.turns)) = {}
       /\ \A j \in DOMAIN s.segments : i # j => Of(s.segments[i].turns) \cap Of(s.segments[j].turns) = {}
  /\ recorded = Of(s.main.turns) \cup Of(s.sub.turns) \cup InSegments(s.segments)

Bodies == [r \in Ids |-> requests[r].body]

\* The turn shows the whole history of its request.
Shows(prompt, body) ==
  \E tools \in {1, 2} : prompt = RenderTokenIds(tools, SystemMessage(body.system) \o body.messages)

Continued(body, later) == body.system = later.system /\ IsPrefix(body.messages, later.messages)

Coherent(turns, bodies) ==
  \A k \in Answered(turns) :
    /\ Shows(turns[k].prompt_ids, bodies[Request(turns[k])])
    /\ \A j \in Answered(turns) :
         j < k => Continued(bodies[Request(turns[j])], bodies[Request(turns[k])])

\* A chain has rendered what it has seen, and its turns are part of that.
ChainShows(chain, bodies) ==
  /\ chain.seen # << >> => chain.chat = SystemMessage(chain.system) \o chain.seen
  /\ Coherent(chain.turns, bodies)
  /\ \A k \in Answered(chain.turns) :
       /\ bodies[Request(chain.turns[k])].system = chain.system
       /\ IsPrefix(bodies[Request(chain.turns[k])].messages, chain.seen)

SessionShows(s, bodies) ==
  /\ ChainShows(s.main, bodies) /\ ChainShows(s.sub, bodies)
  /\ \A i \in DOMAIN s.segments : Coherent(s.segments[i].turns, bodies)
  /\ ~s.armed => s.sub.turns = << >>

\* The request that is being answered is the last one its chain has seen.
Asking(s, request) ==
  /\ Shows(request.prompt, request.body)
  /\ s[request.who].seen = request.body.messages
  /\ s[request.who].system = request.body.system
  /\ request.who = "sub" => s.armed

SessionInv ==
  /\ Whole(session, Recorded)
  /\ SessionShows(session, Bodies)
  /\ \A r \in Ids : At(r, {"generating"}) => Asking(session, requests[r])

IInv == TypeOK /\ HandlersInv /\ EnteringInv /\ FinishInv /\ SessionInv

-----------------------------------------------------------------------------
(* Turns. *)

\* A chain without turns holds no answer.
LEMMA NoTurns ==
  ASSUME NEW turns, turns = << >>
  PROVE  /\ Answered(turns) = {} /\ Of(turns) = {} /\ Once(turns)
         /\ \A bodies : Coherent(turns, bodies)
<1>1. DOMAIN turns = {}
  OBVIOUS
<1> QED BY <1>1 DEF Answered, Of, Once, Coherent

\* A turn behind others: without an output it adds no answer, with one it adds its own.
LEMMA OneMoreTurn ==
  ASSUME NEW turns \in Seq(Turn), NEW turn \in Turn
  PROVE  LET more == Append(turns, turn)
         IN  /\ \A k \in Answered(turns) : k \in DOMAIN more /\ k <= Len(turns) /\ more[k] = turns[k]
             /\ turn.output_ids = << >> => Answered(more) = Answered(turns) /\ Of(more) = Of(turns)
             /\ turn.output_ids # << >> =>
                  /\ Answered(more) = Answered(turns) \cup {Len(turns) + 1}
                  /\ more[Len(turns) + 1] = turn
                  /\ Of(more) = Of(turns) \cup {Request(turn)}
<1> DEFINE more == Append(turns, turn)
<1>1. /\ Len(turns) \in Nat /\ DOMAIN turns = 1 .. Len(turns)
      /\ DOMAIN more = 1 .. Len(turns) + 1
      /\ \A k \in 1 .. Len(turns) : more[k] = turns[k]
      /\ more[Len(turns) + 1] = turn
  OBVIOUS
<1> HIDE DEF more
<1>2. \A k \in Answered(turns) : k \in DOMAIN more /\ k <= Len(turns) /\ more[k] = turns[k]
  BY <1>1 DEF Answered
<1>3. ASSUME turn.output_ids = << >>
      PROVE  Answered(more) = Answered(turns) /\ Of(more) = Of(turns)
  <2>1. Answered(more) = Answered(turns)
    BY <1>1, <1>3 DEF Answered
  <2> QED BY <2>1, <1>2 DEF Of
<1>4. ASSUME turn.output_ids # << >>
      PROVE  /\ Answered(more) = Answered(turns) \cup {Len(turns) + 1}
             /\ Of(more) = Of(turns) \cup {Request(turn)}
  <2>1. Answered(more) = Answered(turns) \cup {Len(turns) + 1}
    BY <1>1, <1>4 DEF Answered
  <2>2. Of(more) = Of(turns) \cup {Request(turn)}
    BY <2>1, <1>1, <1>2 DEF Of
  <2> QED BY <2>1, <2>2
<1> QED BY <1>1, <1>2, <1>3, <1>4 DEF more

\* What an answer to request r is known by.
LEMMA OutputFacts ==
  ASSUME NEW r \in Nat, NEW length \in Nat \ {0}
  PROVE  Output(r, length) # << >> /\ Output(r, length)[1][2] = r
<1>1. DOMAIN Output(r, length) # {} /\ Output(r, length)[1] = <<"out", r, 1>>
  BY DEF Output
<1> QED BY <1>1

\* Prefixes of histories.
LEMMA PrefixFacts ==
  /\ \A a \in History : IsPrefix(a, a)
  /\ \A a, b, c \in History : IsPrefix(a, b) /\ IsPrefix(b, c) => IsPrefix(a, c)
<1>1. \A a, b \in History : IsPrefix(a, b) <=> Len(a) <= Len(b) /\ \A k \in 1 .. Len(a) : a[k] = b[k]
  <2> TAKE a, b \in History
  <2>1. /\ Len(a) \in Nat /\ DOMAIN a = 1 .. Len(a) /\ SubSeq(a, 1, Len(a)) = a
        /\ Len(b) \in Nat /\ DOMAIN b = 1 .. Len(b)
    BY DEF History
  <2>2. ASSUME Len(a) <= Len(b)
        PROVE  SubSeq(b, 1, Len(a)) = [k \in 1 .. Len(a) |-> b[k]]
    BY <2>1, <2>2 DEF History
  <2>3. a = [k \in 1 .. Len(a) |-> a[k]]
    BY <2>1 DEF History
  <2> QED BY <2>1, <2>2, <2>3 DEF IsPrefix
<1>2. \A a \in History : Len(a) \in Nat
  BY DEF History
<1> QED BY <1>1, <1>2

\* A history that goes on, from where it was seen.
LEMMA HistoryExtended ==
  ASSUME NEW seen \in History, NEW messages \in History, NEW system \in History,
         IsPrefix(seen, messages)
  PROVE  (system \o seen) \o SubSeq(messages, Len(seen) + 1, Len(messages)) = system \o messages
<1> DEFINE chat == system \o seen
<1> DEFINE rest == SubSeq(messages, Len(seen) + 1, Len(messages))
<1>1. /\ Len(seen) \in Nat /\ Len(messages) \in Nat /\ Len(system) \in Nat
      /\ Len(seen) <= Len(messages)
      /\ \A k \in 1 .. Len(seen) : seen[k] = messages[k]
  BY DEF History, IsPrefix
<1>2. /\ rest \in Seq(Message) /\ Len(rest) = Len(messages) - Len(seen)
      /\ \A k \in 1 .. Len(rest) : rest[k] = messages[Len(seen) + k]
  BY <1>1 DEF History
<1>3. /\ chat \in Seq(Message) /\ Len(chat) \in Nat /\ Len(chat) = Len(system) + Len(seen)
      /\ \A k \in 1 .. Len(chat) : chat[k] = IF k <= Len(system) THEN system[k] ELSE seen[k - Len(system)]
  BY <1>1 DEF History
<1> HIDE DEF rest, chat
<1>4. /\ chat \o rest \in Seq(Message) /\ Len(chat \o rest) = Len(system) + Len(messages)
      /\ \A k \in 1 .. Len(chat \o rest) :
           (chat \o rest)[k] = IF k <= Len(chat) THEN chat[k] ELSE rest[k - Len(chat)]
  <2>1. chat \o rest \in Seq(Message) /\ Len(chat \o rest) = Len(chat) + Len(rest)
    <3>1. chat \in Seq(Message) /\ rest \in Seq(Message)
      BY <1>2, <1>3
    <3> QED BY ONLY <3>1
  <2>2. Len(chat) + Len(rest) = Len(system) + Len(messages)
    BY <1>1, <1>2, <1>3
  <2>3. \A k \in 1 .. Len(chat) + Len(rest) :
          (chat \o rest)[k] = IF k <= Len(chat) THEN chat[k] ELSE rest[k - Len(chat)]
    BY <1>2, <1>3
  <2> QED BY <2>1, <2>2, <2>3
<1>5. /\ system \o messages \in Seq(Message) /\ Len(system \o messages) = Len(system) + Len(messages)
      /\ \A k \in 1 .. Len(system \o messages) :
           (system \o messages)[k] = IF k <= Len(system) THEN system[k] ELSE messages[k - Len(system)]
  BY <1>1 DEF History
<1>6. \A k \in 1 .. Len(system) + Len(messages) : (chat \o rest)[k] = (system \o messages)[k]
  <2> SUFFICES ASSUME NEW k \in 1 .. Len(system) + Len(messages)
               PROVE  (chat \o rest)[k] = (system \o messages)[k]
    OBVIOUS
  <2>1. CASE k <= Len(system)
    <3>1. k \in 1 .. Len(chat) /\ (chat \o rest)[k] = chat[k] /\ chat[k] = system[k]
      BY <2>1, <1>1, <1>3, <1>4
    <3> QED BY <3>1, <2>1, <1>1, <1>5
  <2>2. CASE k > Len(system) /\ k <= Len(chat)
    <3>1. (chat \o rest)[k] = chat[k] /\ chat[k] = seen[k - Len(system)]
      BY <2>2, <1>1, <1>3, <1>4
    <3>2. k - Len(system) \in 1 .. Len(seen)
      BY <2>2, <1>1, <1>3
    <3>3. (system \o messages)[k] = messages[k - Len(system)]
      BY <2>2, <1>1, <1>5
    <3> QED BY <3>1, <3>2, <3>3, <1>1
  <2>3. CASE k > Len(chat)
    <3>1. (chat \o rest)[k] = rest[k - Len(chat)]
      BY <2>3, <1>1, <1>3, <1>4
    <3>2. k - Len(chat) \in 1 .. Len(rest)
      BY <2>3, <1>1, <1>2, <1>3
    <3>3. rest[k - Len(chat)] = messages[Len(seen) + (k - Len(chat))]
      BY <3>2, <1>2
    <3>4. Len(seen) + (k - Len(chat)) = k - Len(system)
      BY <1>1, <1>3
    <3>5. (system \o messages)[k] = messages[k - Len(system)]
      BY <2>3, <1>1, <1>3, <1>5
    <3> QED BY <3>1, <3>3, <3>4, <3>5
  <2>4. k <= Len(system) \/ (k > Len(system) /\ k <= Len(chat)) \/ k > Len(chat)
    BY <1>1, <1>3
  <2> QED BY <2>1, <2>2, <2>3, <2>4
<1>7. chat \o rest = system \o messages
  BY <1>4, <1>5, <1>6, SMTT(30)
<1> QED BY <1>7 DEF rest, chat

-----------------------------------------------------------------------------
(* What happens to a session. *)

\* The turns of a chain become a segment, or nothing if there are none.
LEMMA FrozenFacts ==
  ASSUME NEW s \in Sessions, NEW turns \in Seq(Turn), NEW kind \in {"subagent", "wipe", "final"}
  PROVE  LET t == Frozen(s, turns, kind)
         IN  /\ t \in Sessions
             /\ t.main = s.main /\ t.sub = s.sub /\ t.armed = s.armed /\ t.pending = s.pending
             /\ t.segments = IF turns = << >> THEN s.segments
                             ELSE Append(s.segments, [kind |-> kind, turns |-> turns])
<1>1. turns # << >> => [kind |-> kind, turns |-> turns] \in Segment
  BY DEF Segment
<1>2. s.segments \in Seq(Segment)
  BY DEF Sessions
<1>3. turns # << >> => Append(s.segments, [kind |-> kind, turns |-> turns]) \in Seq(Segment)
  BY <1>1, <1>2
<1> QED BY <1>3 DEF Frozen, Sessions

\* What the segments hold when turns are frozen behind them.
LEMMA OneMoreSegment ==
  ASSUME NEW segments \in Seq(Segment), NEW segment \in Segment
  PROVE  LET more == Append(segments, segment)
         IN  /\ Len(segments) \in Nat
             /\ DOMAIN segments = 1 .. Len(segments) /\ DOMAIN more = 1 .. Len(segments) + 1
             /\ \A i \in DOMAIN segments : more[i] = segments[i]
             /\ more[Len(segments) + 1] = segment
             /\ InSegments(more) = InSegments(segments) \cup Of(segment.turns)
<1> DEFINE more == Append(segments, segment)
<1>1. /\ Len(segments) \in Nat
      /\ DOMAIN segments = 1 .. Len(segments) /\ DOMAIN more = 1 .. Len(segments) + 1
      /\ \A i \in DOMAIN segments : more[i] = segments[i]
      /\ more[Len(segments) + 1] = segment
  OBVIOUS
<1> HIDE DEF more
<1>2. DOMAIN more = DOMAIN segments \cup {Len(segments) + 1}
  BY <1>1
<1>3. InSegments(more) = InSegments(segments) \cup Of(segment.turns)
  BY <1>1, <1>2 DEF InSegments
<1> QED BY <1>1, <1>3 DEF more

\* A chain's turns move behind the segments, and no answer is lost or doubled:
LEMMA MainMoved ==
  ASSUME NEW s \in Sessions, NEW t \in Sessions, NEW recorded, Whole(s, recorded),
         NEW kind \in {"subagent", "wipe", "final"},
         t.main.turns = << >>, t.sub.turns = s.sub.turns,
         t.segments = IF s.main.turns = << >> THEN s.segments
                      ELSE Append(s.segments, [kind |-> kind, turns |-> s.main.turns])
  PROVE  Whole(t, recorded)
<1>1. /\ Of(t.main.turns) = {} /\ Once(t.main.turns)
      /\ s.main.turns = << >> => Of(s.main.turns) = {}
  BY NoTurns
<1>2. CASE s.main.turns = << >>
  BY <1>1, <1>2 DEF Whole
<1>3. CASE s.main.turns # << >>
  <2> DEFINE segment == [kind |-> kind, turns |-> s.main.turns]
  <2>1. segment \in Segment /\ segment.turns = s.main.turns /\ s.segments \in Seq(Segment)
    BY <1>3 DEF Segment, Sessions, Chain
  <2> HIDE DEF segment
  <2>2. t.segments = Append(s.segments, segment)
    BY <1>3 DEF segment
  <2>3. /\ Len(s.segments) \in Nat
        /\ DOMAIN s.segments = 1 .. Len(s.segments) /\ DOMAIN t.segments = 1 .. Len(s.segments) + 1
        /\ \A i \in DOMAIN s.segments : t.segments[i] = s.segments[i]
        /\ t.segments[Len(s.segments) + 1] = segment
        /\ InSegments(t.segments) = InSegments(s.segments) \cup Of(segment.turns)
    <3> DEFINE more == Append(s.segments, segment)
    <3>1. /\ Len(s.segments) \in Nat
          /\ DOMAIN s.segments = 1 .. Len(s.segments) /\ DOMAIN more = 1 .. Len(s.segments) + 1
          /\ \A i \in DOMAIN s.segments : more[i] = s.segments[i]
          /\ more[Len(s.segments) + 1] = segment
          /\ InSegments(more) = InSegments(s.segments) \cup Of(segment.turns)
      BY ONLY <2>1, OneMoreSegment
    <3>2. t.segments = more
      BY <2>2
    <3> HIDE DEF more
    <3> QED BY ONLY <3>1, <3>2
  <2>4. \A i \in DOMAIN t.segments : i \in DOMAIN s.segments \/ i = Len(s.segments) + 1
    BY <2>3
  <2>5. Len(s.segments) + 1 \notin DOMAIN s.segments
    BY <2>3
  <2>6. \A i \in DOMAIN t.segments :
          /\ Once(t.segments[i].turns)
          /\ Of(t.segments[i].turns) \cap (Of(t.main.turns) \cup Of(t.sub.turns)) = {}
    BY <1>1, <2>1, <2>3, <2>4 DEF Whole
  <2>7. \A i, j \in DOMAIN t.segments :
          i # j => Of(t.segments[i].turns) \cap Of(t.segments[j].turns) = {}
    <3>1. \A i \in DOMAIN s.segments : Of(t.segments[i].turns) \cap Of(segment.turns) = {}
      BY <2>1, <2>3 DEF Whole
    <3>2. \A i, j \in DOMAIN s.segments :
            i # j => Of(t.segments[i].turns) \cap Of(t.segments[j].turns) = {}
      BY <2>3 DEF Whole
    <3> QED BY <3>1, <3>2, <2>3, <2>4
  <2>8. recorded = Of(t.main.turns) \cup Of(t.sub.turns) \cup InSegments(t.segments)
    BY <1>1, <2>1, <2>3 DEF Whole
  <2> QED BY <1>1, <2>6, <2>7, <2>8 DEF Whole
<1> QED BY <1>2, <1>3

\* the same for the sub-agent's.
LEMMA SubMoved ==
  ASSUME NEW s \in Sessions, NEW t \in Sessions, NEW recorded, Whole(s, recorded),
         NEW kind \in {"subagent", "wipe", "final"},
         t.sub.turns = << >>, t.main.turns = s.main.turns,
         t.segments = IF s.sub.turns = << >> THEN s.segments
                      ELSE Append(s.segments, [kind |-> kind, turns |-> s.sub.turns])
  PROVE  Whole(t, recorded)
<1>1. /\ Of(t.sub.turns) = {} /\ Once(t.sub.turns)
      /\ s.sub.turns = << >> => Of(s.sub.turns) = {}
  BY NoTurns
<1>2. CASE s.sub.turns = << >>
  BY <1>1, <1>2 DEF Whole
<1>3. CASE s.sub.turns # << >>
  <2> DEFINE segment == [kind |-> kind, turns |-> s.sub.turns]
  <2>1. segment \in Segment /\ segment.turns = s.sub.turns /\ s.segments \in Seq(Segment)
    BY <1>3 DEF Segment, Sessions, Chain
  <2> HIDE DEF segment
  <2>2. t.segments = Append(s.segments, segment)
    BY <1>3 DEF segment
  <2>3. /\ Len(s.segments) \in Nat
        /\ DOMAIN s.segments = 1 .. Len(s.segments) /\ DOMAIN t.segments = 1 .. Len(s.segments) + 1
        /\ \A i \in DOMAIN s.segments : t.segments[i] = s.segments[i]
        /\ t.segments[Len(s.segments) + 1] = segment
        /\ InSegments(t.segments) = InSegments(s.segments) \cup Of(segment.turns)
    <3> DEFINE more == Append(s.segments, segment)
    <3>1. /\ Len(s.segments) \in Nat
          /\ DOMAIN s.segments = 1 .. Len(s.segments) /\ DOMAIN more = 1 .. Len(s.segments) + 1
          /\ \A i \in DOMAIN s.segments : more[i] = s.segments[i]
          /\ more[Len(s.segments) + 1] = segment
          /\ InSegments(more) = InSegments(s.segments) \cup Of(segment.turns)
      BY ONLY <2>1, OneMoreSegment
    <3>2. t.segments = more
      BY <2>2
    <3> HIDE DEF more
    <3> QED BY ONLY <3>1, <3>2
  <2>4. \A i \in DOMAIN t.segments : i \in DOMAIN s.segments \/ i = Len(s.segments) + 1
    BY <2>3
  <2>5. Len(s.segments) + 1 \notin DOMAIN s.segments
    BY <2>3
  <2>6. \A i \in DOMAIN t.segments :
          /\ Once(t.segments[i].turns)
          /\ Of(t.segments[i].turns) \cap (Of(t.main.turns) \cup Of(t.sub.turns)) = {}
    BY <1>1, <2>1, <2>3, <2>4 DEF Whole
  <2>7. \A i, j \in DOMAIN t.segments :
          i # j => Of(t.segments[i].turns) \cap Of(t.segments[j].turns) = {}
    <3>1. \A i \in DOMAIN s.segments : Of(t.segments[i].turns) \cap Of(segment.turns) = {}
      BY <2>1, <2>3 DEF Whole
    <3>2. \A i, j \in DOMAIN s.segments :
            i # j => Of(t.segments[i].turns) \cap Of(t.segments[j].turns) = {}
      BY <2>3 DEF Whole
    <3> QED BY <3>1, <3>2, <2>3, <2>4
  <2>8. recorded = Of(t.main.turns) \cup Of(t.sub.turns) \cup InSegments(t.segments)
    BY <1>1, <2>1, <2>3 DEF Whole
  <2> QED BY <1>1, <2>6, <2>7, <2>8 DEF Whole
<1> QED BY <1>2, <1>3

\* The segments of a session that is drained: its own, the sub-agent's, main's.
LEMMA DrainedFacts ==
  ASSUME NEW s \in Sessions, NEW recorded, Whole(s, recorded)
  PROVE  /\ Drained(s) \in Seq(Segment)
         /\ InSegments(Drained(s)) = recorded
         /\ Apiece(Drained(s))
         /\ \A bodies : SessionShows(s, bodies) =>
              \A i \in DOMAIN Drained(s) : Coherent(Drained(s)[i].turns, bodies)
<1> DEFINE t == Frozen(s, s.sub.turns, "subagent")
           u == Frozen(t, s.main.turns, "final")
<1>1. s.main \in Chain /\ s.sub \in Chain /\ s.main.turns \in Seq(Turn) /\ s.sub.turns \in Seq(Turn)
  BY DEF Sessions, Chain
<1>2. /\ t \in Sessions /\ t.main = s.main /\ t.sub = s.sub
      /\ t.segments = IF s.sub.turns = << >> THEN s.segments
                      ELSE Append(s.segments, [kind |-> "subagent", turns |-> s.sub.turns])
  BY <1>1, FrozenFacts
<1>3. /\ u \in Sessions
      /\ u.segments = IF s.main.turns = << >> THEN t.segments
                      ELSE Append(t.segments, [kind |-> "final", turns |-> s.main.turns])
  <2> HIDE DEF t
  <2> QED BY <1>1, <1>2, FrozenFacts
<1>4. Drained(s) = u.segments
  BY DEF Drained
<1> HIDE DEF t, u
\* Without its chains, the session holds the answers all the same.
<1> DEFINE v == [t EXCEPT !.sub = NewChain]
           w == [u EXCEPT !.main = NewChain, !.sub = NewChain]
<1>5. NewChain \in Chain /\ NewChain.turns = << >>
  BY DEF NewChain, Chain, Systems, History
<1>6. /\ v \in Sessions /\ v.main = s.main /\ v.sub = NewChain /\ v.segments = t.segments
      /\ w \in Sessions /\ w.main = NewChain /\ w.sub = NewChain /\ w.segments = u.segments
  BY <1>2, <1>3, <1>5 DEF Sessions
<1> HIDE DEF v, w
<1>7. Whole(v, recorded)
  <2> DEFINE kind == "subagent"
  <2>1. v.segments = IF s.sub.turns = << >> THEN s.segments
                     ELSE Append(s.segments, [kind |-> kind, turns |-> s.sub.turns])
    BY <1>2, <1>6
  <2>2. v.sub.turns = << >> /\ v.main.turns = s.main.turns /\ kind \in {"subagent", "wipe", "final"}
    BY <1>5, <1>6
  <2> HIDE DEF kind
  <2> QED BY <2>1, <2>2, <1>6, SubMoved
<1>8. Whole(w, recorded)
  <2> DEFINE kind == "final"
  <2>1. w.segments = IF v.main.turns = << >> THEN v.segments
                     ELSE Append(v.segments, [kind |-> kind, turns |-> v.main.turns])
    BY <1>3, <1>6
  <2>2. w.main.turns = << >> /\ w.sub.turns = v.sub.turns /\ kind \in {"subagent", "wipe", "final"}
    BY <1>5, <1>6
  <2> HIDE DEF kind
  <2> QED BY <2>1, <2>2, <1>6, <1>7, MainMoved
<1>9. /\ Of(w.main.turns) = {} /\ Of(w.sub.turns) = {} /\ w.segments = Drained(s)
  BY <1>4, <1>5, <1>6, NoTurns
<1>10. ASSUME NEW bodies, SessionShows(s, bodies), NEW i \in DOMAIN Drained(s)
       PROVE  Coherent(Drained(s)[i].turns, bodies)
  <2>1. s.segments \in Seq(Segment) /\ t.segments \in Seq(Segment)
    BY <1>2 DEF Sessions
  <2>2. /\ \A j \in DOMAIN s.segments : Coherent(s.segments[j].turns, bodies)
        /\ Coherent(s.main.turns, bodies) /\ Coherent(s.sub.turns, bodies)
    BY <1>10 DEF SessionShows, ChainShows
  <2>3. \A j \in DOMAIN t.segments : Coherent(t.segments[j].turns, bodies)
    <3>1. CASE s.sub.turns = << >>
      BY <3>1, <1>2, <2>2
    <3>2. CASE s.sub.turns # << >>
      BY <3>2, <1>2, <2>1, <2>2
    <3> QED BY <3>1, <3>2
  <2>4. CASE s.main.turns = << >>
    BY <2>4, <1>3, <1>4, <2>3, <1>10
  <2>5. CASE s.main.turns # << >>
    BY <2>5, <1>3, <1>4, <2>1, <2>2, <2>3, <1>10
  <2> QED BY <2>4, <2>5
<1>11. Drained(s) \in Seq(Segment)
  BY <1>3, <1>4 DEF Sessions
<1>12. InSegments(Drained(s)) = recorded
  BY <1>8, <1>9 DEF Whole
<1>13. Apiece(Drained(s))
  BY <1>8, <1>9 DEF Whole, Apiece
<1> QED BY <1>10, <1>11, <1>12, <1>13

\* When no answer is in the segments twice, each of its places answers another request.
LEMMA AnswersApiece ==
  ASSUME NEW segments \in Seq(Segment), Apiece(segments)
  PROVE  IsInjective(Answers(segments)) /\ Range(Answers(segments)) = InSegments(segments)
<1> DEFINE answers == [p \in Places(segments) |-> Request(segments[p[1]].turns[p[2]])]
<1>1. \A p \in Places(segments) :
        /\ p = <<p[1], p[2]>> /\ p[1] \in DOMAIN segments /\ p[2] \in Answered(segments[p[1]].turns)
        /\ answers[p] = Request(segments[p[1]].turns[p[2]])
        /\ answers[p] \in Of(segments[p[1]].turns)
  BY DEF Places, Of
<1>2. \A i \in DOMAIN segments : \A k \in Answered(segments[i].turns) :
        <<i, k>> \in Places(segments) /\ answers[<<i, k>>] = Request(segments[i].turns[k])
  BY DEF Places
<1>3. DOMAIN answers = Places(segments)
  OBVIOUS
<1> HIDE DEF answers
<1>4. IsInjective(answers)
  <2> SUFFICES ASSUME NEW p \in Places(segments), NEW q \in Places(segments), answers[p] = answers[q]
               PROVE  p = q
    BY <1>3 DEF IsInjective
  <2>1. p[1] = q[1]
    BY <1>1 DEF Apiece
  <2>2. p[2] = q[2]
    <3> DEFINE turns == segments[p[1]].turns
    <3>1. /\ p[2] \in Answered(turns) /\ q[2] \in Answered(turns) /\ Once(turns)
          /\ Request(turns[p[2]]) = Request(turns[q[2]])
      BY <1>1, <2>1 DEF Apiece
    <3> HIDE DEF turns
    <3> QED BY <3>1 DEF Once
  <2> QED BY <1>1, <2>1, <2>2
<1>5. Range(answers) = InSegments(segments)
  <2>1. ASSUME NEW r \in Range(answers) PROVE r \in InSegments(segments)
    BY <2>1, <1>1, <1>3 DEF Range, InSegments
  <2>2. ASSUME NEW r \in InSegments(segments) PROVE r \in Range(answers)
    <3>1. PICK i \in DOMAIN segments : r \in Of(segments[i].turns)
      BY <2>2 DEF InSegments
    <3>2. PICK k \in Answered(segments[i].turns) : r = Request(segments[i].turns[k])
      BY <3>1 DEF Of
    <3>3. <<i, k>> \in DOMAIN answers /\ answers[<<i, k>>] = r
      BY <3>2, <1>2, <1>3
    <3> QED BY <3>3 DEF Range
  <2> QED BY <2>1, <2>2
<1> QED BY <1>4, <1>5 DEF Answers, answers

\* What comes of a session whose turns are whole and coherent.
Good(s, recorded, bodies) == s \in Sessions /\ Whole(s, recorded) /\ SessionShows(s, bodies)

\* Freezing keeps what the segments show.
LEMMA FrozenShows ==
  ASSUME NEW bodies, NEW segments \in Seq(Segment), NEW turns \in Seq(Turn), NEW kind \in {"subagent", "wipe", "final"},
         NEW more, more = IF turns = << >> THEN segments ELSE Append(segments, [kind |-> kind, turns |-> turns]),
         \A i \in DOMAIN segments : Coherent(segments[i].turns, bodies),
         Coherent(turns, bodies)
  PROVE  \A i \in DOMAIN more : Coherent(more[i].turns, bodies)
<1>1. CASE turns = << >>
  BY <1>1
<1>2. CASE turns # << >>
  <2>1. /\ DOMAIN more = 1 .. Len(segments) + 1 /\ DOMAIN segments = 1 .. Len(segments)
        /\ Len(segments) \in Nat
        /\ \A i \in 1 .. Len(segments) : more[i] = segments[i]
        /\ more[Len(segments) + 1].turns = turns
    BY <1>2
  <2> QED BY <2>1
<1> QED BY <1>1, <1>2

\* The sub-agent is closed: its turns become a segment.
LEMMA SubClosedStep ==
  ASSUME NEW s, NEW recorded, NEW bodies, Good(s, recorded, bodies), NEW body \in RequestBody
  PROVE  Good(SubClosed(s, body), recorded, bodies)
<1> DEFINE t == Frozen(s, s.sub.turns, "subagent")
           closes == s.armed /\ \E i \in DOMAIN body.messages : body.messages[i].result = s.pending
           u == [t EXCEPT !.sub = NewChain, !.armed = FALSE, !.pending = NoDispatch]
<1>1. SubClosed(s, body) = IF closes THEN u ELSE s
  BY DEF SubClosed
<1>2. CASE ~closes
  BY <1>1, <1>2
<1>3. CASE closes
  <2>1. s \in Sessions /\ s.sub.turns \in Seq(Turn) /\ s.segments \in Seq(Segment)
    BY DEF Good, Sessions, Chain
  <2>2. /\ t \in Sessions /\ t.main = s.main
        /\ t.segments = IF s.sub.turns = << >> THEN s.segments
                        ELSE Append(s.segments, [kind |-> "subagent", turns |-> s.sub.turns])
    BY <2>1, FrozenFacts
  <2>3. NewChain \in Chain /\ NewChain.turns = << >> /\ NewChain.seen = << >>
    BY DEF NewChain, Chain, Systems, History
  <2> HIDE DEF t
  <2>4. /\ u \in Sessions /\ u.main = s.main /\ u.sub = NewChain /\ u.segments = t.segments
        /\ u.armed = FALSE
    BY <2>2, <2>3 DEF Sessions, NoDispatch
  <2> HIDE DEF u
  <2> DEFINE kind == "subagent"
  <2>5. /\ u.segments = IF s.sub.turns = << >> THEN s.segments
                        ELSE Append(s.segments, [kind |-> kind, turns |-> s.sub.turns])
        /\ kind \in {"subagent", "wipe", "final"}
    BY <2>2, <2>4
  <2> HIDE DEF kind
  <2>6. Whole(u, recorded)
    BY <2>1, <2>3, <2>4, <2>5, SubMoved DEF Good
  <2>7. \A i \in DOMAIN u.segments : Coherent(u.segments[i].turns, bodies)
    BY <2>1, <2>5, FrozenShows DEF Good, SessionShows, ChainShows
  <2>8. ChainShows(NewChain, bodies)
    BY <2>3, NoTurns DEF ChainShows
  <2>9. SessionShows(u, bodies)
    BY <2>3, <2>4, <2>7, <2>8 DEF Good, SessionShows
  <2> QED BY <1>1, <1>3, <2>4, <2>6, <2>9 DEF Good
<1> QED BY <1>2, <1>3

\* The histories that are rendered.
LEMMA SystemMessageType == \A system \in Systems : SystemMessage(system) \in History
<1> TAKE system \in Systems
<1>1. CASE system = "none"
  BY <1>1 DEF SystemMessage, History
<1>2. CASE system # "none"
  <2>1. User("system", system, 0, NoDispatch) \in Message
    BY <1>2 DEF User, Message, NoDispatch, Systems, Forms
  <2> QED BY <1>2, <2>1 DEF SystemMessage, History
<1> QED BY <1>1, <1>2

\* A chain that takes the request on has rendered the whole history;
LEMMA ExtendedStep ==
  ASSUME NEW chain \in Chain, NEW bodies, ChainShows(chain, bodies), NEW body \in RequestBody,
         chain.seen # << >>, Continues(chain, body),
         \A k \in Answered(chain.turns) : bodies[Request(chain.turns[k])] \in RequestBody
  PROVE  LET c == Extended(chain, body)
         IN  /\ c \in Chain /\ c.turns = chain.turns /\ ChainShows(c, bodies)
             /\ c.seen = body.messages /\ c.system = body.system /\ c.tools \in {1, 2}
             /\ c.chat = SystemMessage(body.system) \o body.messages
<1> DEFINE c == Extended(chain, body)
<1>1. /\ chain.chat \in History /\ chain.seen \in History /\ body.messages \in History
      /\ chain.system \in Systems /\ chain.tools \in 0 .. 2 /\ body.tools \in 1 .. 2
      /\ SystemMessage(chain.system) \in History
  BY SystemMessageType DEF Chain, RequestBody
<1>2. chain.system = body.system /\ IsPrefix(chain.seen, body.messages)
  BY DEF Continues
<1>3. chain.chat = SystemMessage(chain.system) \o chain.seen
  BY DEF ChainShows
<1>4. chain.chat \o SubSeq(body.messages, Len(chain.seen) + 1, Len(body.messages))
        = SystemMessage(body.system) \o body.messages
  <2> DEFINE seen == chain.seen
             messages == body.messages
             system == SystemMessage(body.system)
  <2>1. seen \in History /\ messages \in History /\ system \in History /\ IsPrefix(seen, messages)
    BY <1>1, <1>2
  <2>2. chain.chat = system \o seen
    BY <1>2, <1>3
  <2> HIDE DEF seen, messages, system
  <2>3. (system \o seen) \o SubSeq(messages, Len(seen) + 1, Len(messages)) = system \o messages
    BY ONLY <2>1, HistoryExtended
  <2>4. chain.chat \o SubSeq(messages, Len(seen) + 1, Len(messages)) = system \o messages
    BY ONLY <2>2, <2>3
  <2> QED BY <2>4 DEF seen, messages, system
<1>5. Tools(chain, body) \in {1, 2}
  BY <1>1 DEF Tools
<1>6. /\ c.chat = SystemMessage(body.system) \o body.messages /\ c.seen = body.messages
      /\ c.tools = Tools(chain, body) /\ c.turns = chain.turns /\ c.system = body.system
  BY <1>2, <1>4 DEF Extended, Chain
<1>7. SystemMessage(body.system) \o body.messages \in History
  BY <1>1, <1>2 DEF History
<1>8. c \in Chain
  <2>1. c = [chain EXCEPT !.chat = SystemMessage(body.system) \o body.messages,
                          !.seen = body.messages, !.tools = Tools(chain, body)]
    BY <1>4 DEF Extended, Chain
  <2> HIDE DEF c
  <2> DEFINE chat == SystemMessage(body.system) \o body.messages
             tools == Tools(chain, body)
  <2>2. chat \in History /\ tools \in 0 .. 2 /\ body.messages \in History
    BY <1>1, <1>5, <1>7
  <2>3. c = [chain EXCEPT !.chat = chat, !.seen = body.messages, !.tools = tools]
    BY <2>1
  <2> HIDE DEF chat, tools
  <2> QED BY <2>2, <2>3 DEF Chain
<1> HIDE DEF c
<1>9. \A k \in Answered(chain.turns) :
        /\ bodies[Request(chain.turns[k])].system = body.system
        /\ IsPrefix(bodies[Request(chain.turns[k])].messages, body.messages)
  BY <1>1, <1>2, PrefixFacts DEF ChainShows, RequestBody
<1>10. ChainShows(c, bodies)
  BY <1>6, <1>9 DEF ChainShows
<1> QED BY <1>5, <1>6, <1>8, <1>10 DEF c

\* so has one that is wiped for it.
LEMMA ReplacedStep ==
  ASSUME NEW chain \in Chain, NEW bodies, NEW body \in RequestBody
  PROVE  LET c == Replaced(chain, body)
         IN  /\ c \in Chain /\ c.turns = << >> /\ ChainShows(c, bodies)
             /\ c.seen = body.messages /\ c.system = body.system /\ c.tools \in {1, 2}
             /\ c.chat = SystemMessage(body.system) \o body.messages
<1> DEFINE c == Replaced(chain, body)
<1>1. /\ body.messages \in History /\ body.system \in Systems
      /\ chain.tools \in 0 .. 2 /\ body.tools \in 1 .. 2
      /\ SystemMessage(body.system) \in History
  BY SystemMessageType DEF Chain, RequestBody
<1>2. Tools(chain, body) \in {1, 2}
  BY <1>1 DEF Tools
<1>3. SystemMessage(body.system) \o body.messages \in History
  BY <1>1 DEF History
<1>4. /\ c.chat = SystemMessage(body.system) \o body.messages /\ c.seen = body.messages
      /\ c.tools = Tools(chain, body) /\ c.turns = << >> /\ c.system = body.system
  BY DEF Replaced
<1>5. c \in Chain
  BY <1>1, <1>2, <1>3 DEF Replaced, Chain
<1> HIDE DEF c
<1>6. ChainShows(c, bodies)
  BY <1>4, NoTurns DEF ChainShows
<1> QED BY <1>2, <1>4, <1>5, <1>6 DEF c

\* The chain holds the request's history, and what it renders shows all of it.
Ready(chain, body) ==
  /\ chain.seen = body.messages /\ chain.system = body.system
  /\ chain.tools \in {1, 2}
  /\ chain.chat = SystemMessage(body.system) \o body.messages

\* The chain that is selected takes the request on, or what it holds becomes a segment.
LEMMA PreparedStep ==
  ASSUME NEW s, NEW recorded, NEW bodies, Good(s, recorded, bodies), NEW body \in RequestBody,
         NEW who \in {"main", "sub"}, who = "sub" => s.armed,
         \A r \in recorded : bodies[r] \in RequestBody,
         NEW t, t = Prepared(s, who, body)
  PROVE  Good(t, recorded, bodies) /\ t.armed = s.armed /\ Ready(t[who], body)
<1> DEFINE goesOn == s[who].seen # << >> /\ Continues(s[who], body)
           u == Frozen(s, s[who].turns, "wipe")
<1>1. /\ s \in Sessions /\ s[who] \in Chain /\ s[who].turns \in Seq(Turn)
      /\ s.segments \in Seq(Segment) /\ ChainShows(s[who], bodies)
  BY DEF Good, Sessions, Chain, SessionShows
<1>2. Of(s[who].turns) \subseteq recorded
  BY DEF Good, Whole
<1>3. CASE goesOn
  <2> DEFINE c == Extended(s[who], body)
  <2>1. \A k \in Answered(s[who].turns) : bodies[Request(s[who].turns[k])] \in RequestBody
    BY <1>2 DEF Of
  <2>2. /\ c \in Chain /\ c.turns = s[who].turns /\ ChainShows(c, bodies)
        /\ c.seen = body.messages /\ c.system = body.system /\ c.tools \in {1, 2}
        /\ c.chat = SystemMessage(body.system) \o body.messages
    BY <1>1, <1>3, <2>1, ExtendedStep
  <2>3. t = [s EXCEPT ![who] = c]
    BY <1>3 DEF Prepared
  <2> HIDE DEF c
  <2>4. /\ t \in Sessions /\ t[who] = c /\ t.segments = s.segments /\ t.armed = s.armed
        /\ who = "main" => t.sub = s.sub
        /\ who = "sub" => t.main = s.main
    BY <1>1, <2>2, <2>3 DEF Sessions
  <2>5. t.main.turns = s.main.turns /\ t.sub.turns = s.sub.turns
    BY <2>2, <2>4
  <2>6. Whole(t, recorded)
    BY <2>4, <2>5 DEF Good, Whole
  <2>7. SessionShows(t, bodies)
    BY <2>2, <2>4, <2>5 DEF Good, SessionShows
  <2> QED BY <2>2, <2>4, <2>6, <2>7 DEF Good, Ready
<1>4. CASE ~goesOn
  <2> DEFINE c == Replaced(s[who], body)
  <2>1. /\ c \in Chain /\ c.turns = << >> /\ ChainShows(c, bodies)
        /\ c.seen = body.messages /\ c.system = body.system /\ c.tools \in {1, 2}
        /\ c.chat = SystemMessage(body.system) \o body.messages
    BY <1>1, ReplacedStep
  <2>2. /\ u \in Sessions
        /\ u.main = s.main /\ u.sub = s.sub /\ u.armed = s.armed /\ u.pending = s.pending
        /\ u.segments = IF s[who].turns = << >> THEN s.segments
                        ELSE Append(s.segments, [kind |-> "wipe", turns |-> s[who].turns])
    BY <1>1, FrozenFacts
  <2>3. t = [u EXCEPT ![who] = c]
    BY <1>4 DEF Prepared
  <2> HIDE DEF c, u
  <2>4. /\ t \in Sessions /\ t[who] = c /\ t.segments = u.segments /\ t.armed = s.armed
        /\ who = "main" => t.sub = s.sub
        /\ who = "sub" => t.main = s.main
    BY <2>1, <2>2, <2>3 DEF Sessions
  <2> DEFINE kind == "wipe"
  <2>5. /\ t.segments = IF s[who].turns = << >> THEN s.segments
                        ELSE Append(s.segments, [kind |-> kind, turns |-> s[who].turns])
        /\ kind \in {"subagent", "wipe", "final"}
    BY <2>2, <2>4
  <2> HIDE DEF kind
  <2>6. Whole(t, recorded)
    <3>1. CASE who = "main"
      BY <3>1, <1>1, <2>1, <2>4, <2>5, MainMoved DEF Good
    <3>2. CASE who = "sub"
      BY <3>2, <1>1, <2>1, <2>4, <2>5, SubMoved DEF Good
    <3> QED BY <3>1, <3>2
  <2>7. \A i \in DOMAIN t.segments : Coherent(t.segments[i].turns, bodies)
    <3>1. /\ \A i \in DOMAIN s.segments : Coherent(s.segments[i].turns, bodies)
          /\ Coherent(s[who].turns, bodies)
      BY <1>1 DEF Good, SessionShows, ChainShows
    <3> DEFINE turns == s[who].turns
               more == t.segments
    <3>2. /\ turns \in Seq(Turn) /\ Coherent(turns, bodies)
          /\ more = IF turns = << >> THEN s.segments
                    ELSE Append(s.segments, [kind |-> kind, turns |-> turns])
      BY <1>1, <2>5, <3>1
    <3> HIDE DEF turns, more
    <3>3. \A i \in DOMAIN more : Coherent(more[i].turns, bodies)
      BY <1>1, <2>5, <3>1, <3>2, FrozenShows
    <3> QED BY <3>3 DEF more
  <2>8. ChainShows(t.main, bodies) /\ ChainShows(t.sub, bodies)
    BY <2>1, <2>4 DEF Good, SessionShows
  <2>9. ~t.armed => t.sub.turns = << >>
    BY <2>1, <2>4 DEF Good, SessionShows
  <2>10. SessionShows(t, bodies)
    BY <2>7, <2>8, <2>9 DEF SessionShows
  <2> QED BY <2>1, <2>4, <2>6, <2>10 DEF Good, Ready
<1> QED BY <1>3, <1>4

\* Bodies of other requests than those answered do not matter.
LEMMA SameBodies ==
  ASSUME NEW s, NEW recorded, NEW bodies, NEW later, Good(s, recorded, bodies),
         \A r \in recorded : later[r] = bodies[r]
  PROVE  Good(s, recorded, later)
<1>1. ASSUME NEW turns, Of(turns) \subseteq recorded, Coherent(turns, bodies)
      PROVE  Coherent(turns, later)
  <2>1. \A k \in Answered(turns) : later[Request(turns[k])] = bodies[Request(turns[k])]
    BY <1>1 DEF Of
  <2> QED BY <1>1, <2>1 DEF Coherent
<1>2. ASSUME NEW chain, Of(chain.turns) \subseteq recorded, ChainShows(chain, bodies)
      PROVE  ChainShows(chain, later)
  <2>1. Coherent(chain.turns, later)
    BY <1>1, <1>2 DEF ChainShows
  <2>2. \A k \in Answered(chain.turns) : later[Request(chain.turns[k])] = bodies[Request(chain.turns[k])]
    BY <1>2 DEF Of
  <2> QED BY <1>2, <2>1, <2>2 DEF ChainShows
<1>3. /\ Of(s.main.turns) \subseteq recorded /\ Of(s.sub.turns) \subseteq recorded
      /\ \A i \in DOMAIN s.segments : Of(s.segments[i].turns) \subseteq recorded
  BY DEF Good, Whole, InSegments
<1> QED BY <1>1, <1>2, <1>3 DEF Good, SessionShows

\* A turn is recorded on a chain: for a request that has no answer yet, or without one.
LEMMA WithTurnStep ==
  ASSUME NEW s, NEW recorded, NEW bodies, Good(s, recorded, bodies),
         NEW who \in {"main", "sub"}, who = "sub" => s.armed,
         NEW prompt \in Prompts, NEW output \in Texts, NEW r \in Nat,
         output # << >> => /\ output[1][2] = r /\ r \notin recorded
                           /\ Shows(prompt, bodies[r])
                           /\ s[who].seen = bodies[r].messages
                           /\ s[who].system = bodies[r].system,
         \A q \in recorded \cup {r} : bodies[q] \in RequestBody
  PROVE  LET t == WithTurn(s, who, prompt, output)
         IN  /\ Good(t, IF output = << >> THEN recorded ELSE recorded \cup {r}, bodies)
             /\ t.armed = s.armed
<1> DEFINE turn == [prompt_ids |-> prompt, output_ids |-> output]
           t == WithTurn(s, who, prompt, output)
           turns == s[who].turns
           more == Append(turns, turn)
<1>1. /\ s \in Sessions /\ s[who] \in Chain /\ turns \in Seq(Turn) /\ ChainShows(s[who], bodies)
      /\ Coherent(turns, bodies) /\ Once(turns) /\ Of(turns) \subseteq recorded
  BY DEF Good, Sessions, Chain, SessionShows, ChainShows, Whole
<1>2. turn \in Turn /\ turn.output_ids = output /\ turn.prompt_ids = prompt
  BY DEF Turn
<1>3. t = [s EXCEPT ![who] = [s[who] EXCEPT !.turns = more]]
  <2>1. s[who] = [s[who] EXCEPT !.turns = s[who].turns]
    BY <1>1 DEF Chain
  <2> QED BY DEF WithTurn
<1> HIDE DEF turn, t, turns
<1>4. /\ \A k \in Answered(turns) : k \in DOMAIN more /\ k <= Len(turns) /\ more[k] = turns[k]
      /\ output = << >> => Answered(more) = Answered(turns) /\ Of(more) = Of(turns)
      /\ output # << >> =>
           /\ Answered(more) = Answered(turns) \cup {Len(turns) + 1}
           /\ more[Len(turns) + 1] = turn
           /\ Of(more) = Of(turns) \cup {Request(turn)}
  BY <1>1, <1>2, OneMoreTurn
<1>5. more \in Seq(Turn) /\ Len(turns) \in Nat
  BY <1>1, <1>2
<1> HIDE DEF more
<1>6. output # << >> => Request(turn) = r
  BY <1>2 DEF Request
<1> DEFINE chain == [s[who] EXCEPT !.turns = more]
<1>7. /\ chain \in Chain /\ chain.turns = more /\ chain.seen = s[who].seen
      /\ chain.system = s[who].system /\ chain.chat = s[who].chat
  BY <1>1, <1>5 DEF Chain
<1>8. t = [s EXCEPT ![who] = chain]
  BY <1>3
<1> HIDE DEF chain
<1>9. /\ t \in Sessions /\ t[who] = chain /\ t.segments = s.segments /\ t.armed = s.armed
      /\ who = "main" => t.sub = s.sub
      /\ who = "sub" => t.main = s.main
  BY <1>1, <1>7, <1>8 DEF Sessions
<1>10. Once(more)
  <2>1. CASE output = << >>
    BY <2>1, <1>1, <1>4 DEF Once
  <2>2. CASE output # << >>
    <3>1. \A k \in Answered(turns) : Request(more[k]) # r /\ k # Len(turns) + 1
      BY <2>2, <1>1, <1>4, <1>5 DEF Of
    <3> QED BY <3>1, <2>2, <1>1, <1>4, <1>6 DEF Once
  <2> QED BY <2>1, <2>2
<1>11. Coherent(more, bodies)
  <2>1. CASE output = << >>
    BY <2>1, <1>1, <1>4 DEF Coherent
  <2>2. CASE output # << >>
    <3>1. \A j \in Answered(turns) : Continued(bodies[Request(turns[j])], bodies[r])
      BY <2>2, <1>1 DEF ChainShows, Continued, turns
    <3> SUFFICES ASSUME NEW k \in Answered(more)
                 PROVE  /\ Shows(more[k].prompt_ids, bodies[Request(more[k])])
                        /\ \A j \in Answered(more) : j < k =>
                             Continued(bodies[Request(more[j])], bodies[Request(more[k])])
      BY DEF Coherent
    <3>2. CASE k \in Answered(turns)
      <4>1. \A j \in Answered(more) : j < k => j \in Answered(turns)
        BY <3>2, <2>2, <1>4, <1>5
      <4> QED BY <4>1, <3>2, <1>1, <1>4 DEF Coherent
    <3>3. CASE k = Len(turns) + 1
      <4>1. Request(more[k]) = r /\ more[k].prompt_ids = prompt
        BY <3>3, <2>2, <1>2, <1>4, <1>6
      <4>2. \A j \in Answered(more) : j < k => j \in Answered(turns) /\ more[j] = turns[j]
        BY <3>3, <2>2, <1>4
      <4> QED BY <4>1, <4>2, <3>1, <2>2
    <3> QED BY <3>2, <3>3, <2>2, <1>4
  <2> QED BY <2>1, <2>2
<1>12. ChainShows(chain, bodies)
  <2>1. \A k \in Answered(more) :
          /\ bodies[Request(more[k])].system = chain.system
          /\ IsPrefix(bodies[Request(more[k])].messages, chain.seen)
    <3> TAKE k \in Answered(more)
    <3>1. CASE k \in Answered(turns)
      BY <3>1, <1>1, <1>4, <1>7 DEF ChainShows, turns
    <3>2. CASE k \notin Answered(turns)
      <4>1. output # << >> /\ Request(more[k]) = r
        BY <3>2, <1>4, <1>6
      <4>2. bodies[r].messages \in History
        BY DEF RequestBody
      <4> QED BY <4>1, <4>2, <1>7, PrefixFacts
    <3> QED BY <3>1, <3>2
  <2> QED BY <2>1, <1>1, <1>7, <1>11 DEF ChainShows
<1>13. SessionShows(t, bodies)
  <2>1. ChainShows(t.main, bodies) /\ ChainShows(t.sub, bodies)
    BY <1>9, <1>12 DEF Good, SessionShows
  <2>2. ~t.armed => t.sub.turns = << >>
    BY <1>9 DEF Good, SessionShows
  <2> QED BY <2>1, <2>2, <1>9 DEF Good, SessionShows
<1> DEFINE all == IF output = << >> THEN recorded ELSE recorded \cup {r}
<1>14. Of(more) \subseteq all /\ all \ recorded \subseteq Of(more) /\ Of(turns) \subseteq Of(more)
       /\ Of(more) \subseteq Of(turns) \cup (all \ recorded)
  BY <1>1, <1>4, <1>6
<1>15. recorded \subseteq all
  OBVIOUS
<1> HIDE DEF all
<1>16. Whole(t, all)
  <2>0. t[who].turns = more
    BY <1>7, <1>9
  <2>1. Once(t.main.turns) /\ Once(t.sub.turns)
    BY <2>0, <1>9, <1>10 DEF Good, Whole
  <2>2. Of(t.main.turns) \cap Of(t.sub.turns) = {}
    <3>1. CASE who = "main"
      <4>1. t.sub = s.sub /\ t.main.turns = more /\ turns = s.main.turns
        BY <3>1, <2>0, <1>9 DEF turns
      <4>2. Of(s.sub.turns) \subseteq recorded /\ Of(turns) \cap Of(s.sub.turns) = {}
        BY <4>1 DEF Good, Whole
      <4> QED BY <4>1, <4>2, <1>14
    <3>2. CASE who = "sub"
      <4>1. t.main = s.main /\ t.sub.turns = more /\ turns = s.sub.turns
        BY <3>2, <2>0, <1>9 DEF turns
      <4>2. Of(s.main.turns) \subseteq recorded /\ Of(turns) \cap Of(s.main.turns) = {}
        BY <4>1 DEF Good, Whole
      <4> QED BY <4>1, <4>2, <1>14
    <3> QED BY <3>1, <3>2
  <2>3. /\ Of(t.main.turns) \cup Of(t.sub.turns) =
             Of(s.main.turns) \cup Of(s.sub.turns) \cup (all \ recorded)
    <3>1. Of(more) = Of(turns) \cup (all \ recorded)
      BY <1>14
    <3>2. CASE who = "main"
      BY <3>1, <3>2, <2>0, <1>9 DEF turns
    <3>3. CASE who = "sub"
      BY <3>1, <3>3, <2>0, <1>9 DEF turns
    <3> QED BY <3>2, <3>3
  <2>4. \A i \in DOMAIN t.segments :
          /\ Once(t.segments[i].turns)
          /\ Of(t.segments[i].turns) \subseteq recorded
          /\ Of(t.segments[i].turns) \cap (Of(s.main.turns) \cup Of(s.sub.turns)) = {}
    BY <1>9 DEF Good, Whole, InSegments
  <2>5. \A i \in DOMAIN t.segments :
          Of(t.segments[i].turns) \cap (Of(t.main.turns) \cup Of(t.sub.turns)) = {}
    BY <2>3, <2>4
  <2>6. \A i, j \in DOMAIN t.segments :
          i # j => Of(t.segments[i].turns) \cap Of(t.segments[j].turns) = {}
    BY <1>9 DEF Good, Whole
  <2>7. all = Of(t.main.turns) \cup Of(t.sub.turns) \cup InSegments(t.segments)
    <3>1. recorded = Of(s.main.turns) \cup Of(s.sub.turns) \cup InSegments(s.segments)
      BY DEF Good, Whole
    <3> QED BY <3>1, <2>3, <1>9, <1>15
  <2> QED BY <2>1, <2>2, <2>4, <2>5, <2>6, <2>7 DEF Whole
<1> QED BY <1>9, <1>13, <1>16 DEF Good, t, all

\* A sub-agent is armed: if it was not, its chain has no turns.
LEMMA DispatchedStep ==
  ASSUME NEW s, NEW recorded, NEW bodies, Good(s, recorded, bodies),
         NEW who \in {"main", "sub"}, NEW dispatch \in Nat
  PROVE  Good(Dispatched(s, who, dispatch), recorded, bodies)
<1> DEFINE t == Dispatched(s, who, dispatch)
<1>1. CASE dispatch = NoDispatch \/ who = "sub"
  BY <1>1 DEF Dispatched
<1>2. CASE ~(dispatch = NoDispatch \/ who = "sub")
  <2>1. NewChain \in Chain /\ NewChain.turns = << >> /\ NewChain.seen = << >>
    BY DEF NewChain, Chain, Systems, History
  <2>2. s \in Sessions
    BY DEF Good
  <2>3. /\ t \in Sessions /\ t.main = s.main /\ t.segments = s.segments /\ t.armed = TRUE
        /\ t.sub = IF s.armed THEN s.sub ELSE NewChain
    BY <1>2, <2>1, <2>2 DEF Dispatched, Sessions
  <2> HIDE DEF t
  <2>4. t.sub.turns = s.sub.turns
    BY <2>1, <2>3 DEF Good, SessionShows
  <2>5. Whole(t, recorded)
    BY <2>3, <2>4 DEF Good, Whole
  <2>6. ChainShows(NewChain, bodies)
    BY <2>1, NoTurns DEF ChainShows
  <2>7. SessionShows(t, bodies)
    BY <2>3, <2>6 DEF Good, SessionShows
  <2> QED BY <2>3, <2>5, <2>7 DEF Good, t
<1> QED BY <1>1, <1>2

-----------------------------------------------------------------------------
(* Steps that leave the session alone. *)

\* A request is a handler of its type, under a number from 1 on.
LEMMA HandlerFacts ==
  ASSUME TypeOK
  PROVE  /\ Len(requests) \in Nat /\ Ids = 1 .. Len(requests)
         /\ \A r \in Ids : requests[r] \in Handlers /\ requests[r].body \in RequestBody
<1>1. requests \in Seq(Handlers)
  BY DEF TypeOK
<1>2. \A h \in Handlers : h.body \in RequestBody
  BY DEF Handlers
<1>3. /\ Len(requests) \in Nat /\ Ids = 1 .. Len(requests)
      /\ \A r \in Ids : requests[r] \in Handlers
  BY <1>1 DEF Ids
<1> QED BY <1>2, <1>3

\* The answers and the requests they belong to are what they were.
LEMMA QuietStep ==
  ASSUME SessionInv, TypeOK, Ids \subseteq Ids', session' = session,
         \A r \in Ids : /\ requests'[r].body = requests[r].body
                        /\ requests'[r].who = requests[r].who
                        /\ requests'[r].prompt = requests[r].prompt
                        /\ requests'[r].output = requests[r].output
                        /\ requests'[r].pc = "generating" => requests[r].pc = "generating",
         \A r \in Ids' \ Ids : requests'[r].output = << >> /\ requests'[r].pc = "arriving"
  PROVE  SessionInv'
<1>1. Recorded' = Recorded
  BY DEF Recorded
<1>2. \A r \in Recorded : Bodies'[r] = Bodies[r]
  BY DEF Recorded, Bodies
<1>3. Good(session, Recorded, Bodies)
  BY DEF SessionInv, Good, TypeOK
<1>4. Good(session, Recorded, Bodies')
  <2> DEFINE s == session
             recorded == Recorded
             bodies == Bodies
             later == Bodies'
  <2>1. Good(s, recorded, bodies) /\ \A r \in recorded : later[r] = bodies[r]
    BY <1>2, <1>3
  <2> HIDE DEF s, recorded, bodies, later
  <2>2. Good(s, recorded, later)
    BY <2>1, SameBodies
  <2> QED BY <2>2 DEF s, recorded, later
<1>5. Whole(session', Recorded') /\ SessionShows(session', Bodies')
  BY <1>1, <1>4 DEF Good
<1>6. ASSUME NEW r \in Ids', At(r, {"generating"})'
      PROVE  Asking(session', requests'[r])
  <2>1. r \in Ids /\ At(r, {"generating"})
    BY <1>6 DEF At
  <2> QED BY <2>1 DEF SessionInv, Asking
<1> QED BY <1>5, <1>6 DEF SessionInv

\* A handler that goes to its end without another answer.
Ends(h, c) ==
  /\ c.body = h.body /\ c.who = h.who /\ c.prompt = h.prompt /\ c.output = h.output
  /\ c.late = h.late /\ h.pc # "arriving" /\ c.pc \in {"aborting", "over"}
  /\ c.pc = "aborting" => h.pc = "generating"
  /\ c.locked <=> c.pc = "aborting"

\* Handlers that end leave the rest of the session as it was.
LEMMA HandlersEnd ==
  ASSUME TypeOK, HandlersInv, SessionInv, Ids' = Ids, session' = session,
         \A q \in Ids : requests'[q] = requests[q] \/ Ends(requests[q], requests'[q])
  PROVE  HandlersInv' /\ SessionInv'
<1>1. SessionInv'
  <2>1. \A r \in Ids : /\ requests'[r].body = requests[r].body
                       /\ requests'[r].who = requests[r].who
                       /\ requests'[r].prompt = requests[r].prompt
                       /\ requests'[r].output = requests[r].output
                       /\ requests'[r].pc = "generating" => requests[r].pc = "generating"
    BY DEF Ends
  <2> QED BY <2>1, QuietStep
<1>2. \A r \in Ids' : (requests[r].locked)' <=> At(r, {"generating", "aborting"})'
  BY DEF HandlersInv, At, Ends
<1>3. Holding' \subseteq Holding
  BY DEF HandlersInv, Holding, At, Ends
<1>4. \A q, r \in Holding' : q = r
  BY <1>3 DEF HandlersInv
<1>5. \A r \in Ids' :
        At(r, {"arriving", "lock", "generating", "aborting"})' => (requests[r].output)' = << >>
  BY DEF HandlersInv, At, Ends
<1> QED BY <1>1, <1>2, <1>4, <1>5 DEF HandlersInv

\* A cancelled handler keeps its body and its type, and answers nothing.
LEMMA CancelledEnds ==
  ASSUME NEW h \in Handlers, h.pc # "arriving", h.pc = "generating" => h.locked
  PROVE  Cancelled(h) \in Handlers /\ Ends(h, Cancelled(h))
<1>1. CASE h.pc = "generating"
  <2>1. Cancelled(h) = [h EXCEPT !.pc = "aborting"]
    BY <1>1 DEF Cancelled
  <2> QED BY <1>1, <2>1 DEF Handlers, Ends, Pcs, Busy
<1>2. CASE h.pc # "generating"
  <2>1. Cancelled(h) = [h EXCEPT !.pc = "over", !.locked = FALSE]
    BY <1>2 DEF Cancelled
  <2> QED BY <2>1 DEF Handlers, Ends, Pcs, Busy
<1> QED BY <1>1, <1>2

\* One handler changes.
LEMMA OneHandler ==
  ASSUME TypeOK, NEW r \in Ids, NEW h \in Handlers, requests' = [requests EXCEPT ![r] = h]
  PROVE  /\ requests' \in Seq(Handlers) /\ Ids' = Ids
         /\ requests'[r] = h /\ \A q \in Ids : q # r => requests'[q] = requests[q]
  BY DEF TypeOK, Ids

\* No handler comes to work on the session but those that were at work, and what is
\* recorded is theirs: finish_session has what it had.
LEMMA FinishKept ==
  ASSUME EnteringInv, FinishInv, Ids' = Ids, UNCHANGED <<closed, frozen>>,
         \A r \in Ids : /\ requests'[r].late = requests[r].late
                        /\ requests'[r].pc = "arriving" <=> requests[r].pc = "arriving"
                        /\ requests'[r].pc \in Working => requests[r].pc \in Working,
         Recorded \subseteq Recorded',
         \A r \in Recorded' \ Recorded : r \in Ids /\ At(r, Working),
         finish["try"] = "no" => UNCHANGED <<finish, awaited>>,
         finish["try"] # "no" => finish'["try"] # "no",
         finish'["try"] = "done" => finish["try"] = "done",
         awaited'["try"] = awaited["try"]
  PROVE  EnteringInv' /\ FinishInv'
<1>1. Entering' = Entering
  BY DEF Entering, At
<1>2. Stragglers' = Stragglers
  BY DEF Stragglers, At
<1>3. \A r \in Ids : At(r, Working)' => At(r, Working)
  BY DEF At, Working
<1>4. EnteringInv'
  BY <1>1 DEF EnteringInv
<1>5. (finish["try"] = "no" => finish["finally"] = "no" /\ \A call \in Calls : awaited[call] = {})'
  BY DEF FinishInv
<1>6. (finish["try"] # "no" =>
         /\ closed
         /\ \A r \in Ids : At(r, Working) => r \in awaited["try"] \cup Stragglers)'
  BY <1>2, <1>3 DEF FinishInv
<1>7. (finish["try"] = "done" =>
         /\ \A r \in Ids : At(r, Working) => r \in Stragglers
         /\ Apiece(frozen)
         /\ InSegments(frozen) \subseteq Recorded
         /\ Recorded \ InSegments(frozen) \subseteq Stragglers)'
  <2> SUFFICES ASSUME finish'["try"] = "done"
               PROVE  /\ \A r \in Ids : At(r, Working)' => r \in Stragglers
                      /\ Apiece(frozen)
                      /\ InSegments(frozen) \subseteq Recorded'
                      /\ Recorded' \ InSegments(frozen) \subseteq Stragglers
    BY <1>2
  <2>1. /\ \A r \in Ids : At(r, Working) => r \in Stragglers
        /\ Apiece(frozen)
        /\ InSegments(frozen) \subseteq Recorded
        /\ Recorded \ InSegments(frozen) \subseteq Stragglers
    BY DEF FinishInv
  <2> QED BY <2>1, <1>3
<1> QED BY <1>4, <1>5, <1>6, <1>7 DEF FinishInv

\* A handler that ends leaves finish_session what it had.
LEMMA OneEnds ==
  ASSUME IInv, NEW r \in Ids, NEW h \in Handlers, Ends(requests[r], h),
         requests' = [requests EXCEPT ![r] = h],
         UNCHANGED <<session, closed, finish, awaited, frozen>>
  PROVE  requests' \in Seq(Handlers) /\ HandlersInv' /\ EnteringInv' /\ FinishInv' /\ SessionInv'
<1>1. /\ requests' \in Seq(Handlers) /\ Ids' = Ids
      /\ requests'[r] = h /\ \A q \in Ids : q # r => requests'[q] = requests[q]
  BY OneHandler DEF IInv
<1>2. HandlersInv' /\ SessionInv'
  BY <1>1, HandlersEnd DEF IInv
<1>3. Recorded' = Recorded
  BY <1>1 DEF Ends, Recorded
<1>4. \A q \in Ids : /\ requests'[q].late = requests[q].late
                     /\ requests'[q].pc = "arriving" <=> requests[q].pc = "arriving"
                     /\ requests'[q].pc \in Working => requests[q].pc \in Working
  BY <1>1 DEF Ends, Working
<1>5. EnteringInv' /\ FinishInv'
  BY <1>1, <1>3, <1>4, FinishKept DEF IInv
<1> QED BY <1>1, <1>2, <1>5

\* The engine fails (_call_engine's error paths): nothing is recorded.
LEMMA FailStep == ASSUME IInv, NEW r \in Ids, Fail(r) PROVE IInv'
<1>1. requests[r] \in Handlers /\ requests[r].pc = "generating" /\ requests[r].locked
  BY HandlerFacts DEF IInv, HandlersInv, Fail, At
<1>2. UNCHANGED <<protocol, session, closed, finish, awaited, frozen, client>>
  BY DEF Fail
<1> DEFINE aborts == [requests[r] EXCEPT !.pc = "aborting"]
           gives_up == [requests[r] EXCEPT !.pc = "over", !.locked = FALSE]
<1>3. /\ aborts \in Handlers /\ Ends(requests[r], aborts)
      /\ gives_up \in Handlers /\ Ends(requests[r], gives_up)
  BY <1>1 DEF Handlers, Ends, Pcs, Busy
<1>4. \/ requests' = [requests EXCEPT ![r] = aborts]
      \/ requests' = [requests EXCEPT ![r] = gives_up]
  BY DEF Fail
<1> HIDE DEF aborts, gives_up
<1>5. requests' \in Seq(Handlers) /\ HandlersInv' /\ EnteringInv' /\ FinishInv' /\ SessionInv'
  BY <1>2, <1>3, <1>4, OneEnds
<1> QED BY <1>2, <1>5 DEF IInv, TypeOK

\* A client that hangs up cancels its own handler only.
LEMMA DisconnectStep == ASSUME IInv, NEW r \in Ids, Disconnect(r) PROVE IInv'
<1>1. /\ requests[r] \in Handlers /\ requests[r].pc # "arriving"
      /\ requests[r].pc = "generating" => requests[r].locked
  BY HandlerFacts DEF IInv, HandlersInv, At, Disconnect
<1>2. UNCHANGED <<protocol, session, closed, finish, awaited, frozen, client>>
  BY DEF Disconnect
<1> DEFINE h == Cancelled(requests[r])
<1>3. h \in Handlers /\ Ends(requests[r], h)
  BY <1>1, CancelledEnds
<1>4. requests' = [requests EXCEPT ![r] = h]
  BY DEF Disconnect
<1> HIDE DEF h
<1>5. requests' \in Seq(Handlers) /\ HandlersInv' /\ EnteringInv' /\ FinishInv' /\ SessionInv'
  BY <1>2, <1>3, <1>4, OneEnds
<1> QED BY <1>2, <1>5 DEF IInv, TypeOK

\* A cancel of the other thread reaches a handler.
LEMMA CancelArrivesStep == ASSUME IInv, NEW r \in Ids, CancelArrives(r) PROVE IInv'
<1>1. /\ requests[r] \in Handlers /\ requests[r].pc # "arriving"
      /\ requests[r].pc = "generating" => requests[r].locked
  BY HandlerFacts DEF IInv, HandlersInv, At, CancelArrives, Busy
<1>2. UNCHANGED <<protocol, session, closed, finish, awaited, frozen, client>>
  BY DEF CancelArrives
<1> DEFINE h == Cancelled(requests[r])
<1>3. h \in Handlers /\ Ends(requests[r], h)
  BY <1>1, CancelledEnds
<1>4. requests' = [requests EXCEPT ![r] = h]
  BY DEF CancelArrives
<1> HIDE DEF h
<1>5. requests' \in Seq(Handlers) /\ HandlersInv' /\ EnteringInv' /\ FinishInv' /\ SessionInv'
  BY <1>2, <1>3, <1>4, OneEnds
<1> QED BY <1>2, <1>5 DEF IInv, TypeOK

\* A handler that works on a fresh Session leaves the one that was drained alone.
LEMMA StrayEndsStep == ASSUME IInv, NEW r \in Ids, StrayEnds(r) PROVE IInv'
<1>1. requests[r] \in Handlers /\ requests[r].pc = "astray" /\ ~requests[r].locked
  BY HandlerFacts DEF IInv, HandlersInv, At, StrayEnds
<1>2. UNCHANGED <<protocol, session, closed, finish, awaited, frozen, client>>
  BY DEF StrayEnds
<1> DEFINE h == [requests[r] EXCEPT !.pc = "over"]
<1>3. h \in Handlers /\ Ends(requests[r], h)
  BY <1>1 DEF Handlers, Ends, Pcs, Busy
<1>4. requests' = [requests EXCEPT ![r] = h]
  BY DEF StrayEnds
<1> HIDE DEF h
<1>5. requests' \in Seq(Handlers) /\ HandlersInv' /\ EnteringInv' /\ FinishInv' /\ SessionInv'
  BY <1>2, <1>3, <1>4, OneEnds
<1> QED BY <1>2, <1>5 DEF IInv, TypeOK

\* The handler ends when its abort was sent.
LEMMA AbortPostedStep == ASSUME IInv, NEW r \in Ids, AbortPosted(r) PROVE IInv'
<1>1. requests[r] \in Handlers /\ requests[r].pc = "aborting"
  BY HandlerFacts DEF IInv, AbortPosted, At
<1>2. UNCHANGED <<protocol, session, closed, finish, awaited, frozen, client>>
  BY DEF AbortPosted
<1> DEFINE h == [requests[r] EXCEPT !.pc = "over", !.locked = FALSE]
<1>3. h \in Handlers /\ Ends(requests[r], h)
  BY <1>1 DEF Handlers, Ends, Pcs, Busy
<1>4. requests' = [requests EXCEPT ![r] = h]
  BY DEF AbortPosted
<1> HIDE DEF h
<1>5. requests' \in Seq(Handlers) /\ HandlersInv' /\ EnteringInv' /\ FinishInv' /\ SessionInv'
  BY <1>2, <1>3, <1>4, OneEnds
<1> QED BY <1>2, <1>5 DEF IInv, TypeOK

\* What the agent says is a history again.
LEMMA SaidType ==
  ASSUME NEW messages \in History, NEW m \in Message
  PROVE  Append(messages, m) \in History
  BY DEF History

\* A message of the user is a message.
LEMMA UserType ==
  ASSUME NEW role \in {"question", "tool"}, NEW of \in Conversations, NEW n \in Nat, NEW d \in Nat
  PROVE  User(role, of, n, d) \in Message
  BY DEF User, Message, Forms

\* What the agent sends back of a turn is a message.
LEMMA AssistantType ==
  ASSUME NEW n \in Nat, NEW length \in Nat, NEW form \in Forms
  PROVE  Assistant(n, length, form) \in Message
  BY DEF Assistant, Message, NoDispatch, Conversations, Forms

\* The agent reads an answer: its own histories grow, the session does not.
LEMMA DeliverStep == ASSUME IInv, NEW r \in Ids, Deliver(r) PROVE IInv'
<1> DEFINE b == requests[r].body
           said == Append(b.messages, Assistant(r, Len(requests[r].output), requests[r].form))
           h == [requests[r] EXCEPT !.pc = "over"]
<1>1. requests[r] \in Handlers /\ b \in RequestBody /\ r \in Nat
  BY HandlerFacts DEF IInv
<1>2. /\ requests[r].pc = "replied" /\ ~requests[r].locked
      /\ UNCHANGED <<protocol, session, closed, finish, awaited, frozen>>
      /\ requests' = [requests EXCEPT ![r] = h]
  BY DEF Deliver, At, IInv, HandlersInv
<1>3. h \in Handlers /\ Ends(requests[r], h)
  BY <1>1, <1>2 DEF Handlers, Ends, Pcs, Busy
<1> HIDE DEF h
<1>4. requests' \in Seq(Handlers) /\ HandlersInv' /\ EnteringInv' /\ FinishInv' /\ SessionInv'
  BY <1>2, <1>3, OneEnds
<1>5. said \in History
  <2>1. requests[r].output \in Texts /\ requests[r].form \in Forms /\ requests[r].dispatch \in Nat
    BY <1>1 DEF Handlers
  <2>2. Len(requests[r].output) \in Nat
    <3>1. \A n, length \in Nat : Output(n, length) \in Seq({<<"out", n, k>> : k \in 1 .. length})
      BY DEF Output
    <3> QED BY <2>1, <3>1 DEF Texts
  <2>3. b.messages \in History
    BY <1>1 DEF RequestBody
  <2> QED BY <1>1, <2>1, <2>2, <2>3, SaidType, AssistantType
<1> DEFINE Clients == [main : History, sub : History, dispatch : Nat, tools : 1 .. 2]
<1>6. client' \in Clients
  <2>1. client \in Clients
    BY DEF IInv, TypeOK
  <2>2. requests[r].dispatch \in Nat /\ b.conversation \in Conversations
    BY <1>1 DEF Handlers, RequestBody
  <2>3. \/ client' = [client EXCEPT !.main = said, !.dispatch = requests[r].dispatch,
                                    !.sub = <<User("question", "sub", r, NoDispatch)>>]
        \/ /\ b.conversation # "side"
           /\ \E role \in {"tool", "question"} :
                client' = [client EXCEPT ![b.conversation] =
                                           Append(said, User(role, b.conversation, r, NoDispatch))]
        \/ client' = client
    BY DEF Deliver
  <2> HIDE DEF b, said
  <2>4. <<User("question", "sub", r, NoDispatch)>> \in History
    BY <1>1, UserType DEF History, NoDispatch, Conversations
  <2>5. \A role \in {"tool", "question"} : Append(said, User(role, b.conversation, r, NoDispatch)) \in History
    BY <1>1, <1>5, <2>2, UserType, SaidType DEF NoDispatch
  <2>6. b.conversation # "side" => b.conversation \in {"main", "sub"}
    BY <2>2 DEF Conversations
  <2>7. CASE client' = [client EXCEPT !.main = said, !.dispatch = requests[r].dispatch,
                                      !.sub = <<User("question", "sub", r, NoDispatch)>>]
    <3> DEFINE asked == <<User("question", "sub", r, NoDispatch)>>
    <3>1. asked \in History /\ client' = [client EXCEPT !.main = said, !.dispatch = requests[r].dispatch, !.sub = asked]
      BY <2>4, <2>7
    <3> HIDE DEF asked
    <3> QED BY <3>1, <1>5, <2>1, <2>2
  <2>8. CASE \E role \in {"tool", "question"} :
               /\ b.conversation # "side"
               /\ client' = [client EXCEPT ![b.conversation] =
                                             Append(said, User(role, b.conversation, r, NoDispatch))]
    <3>1. PICK history \in History :
            b.conversation # "side" /\ client' = [client EXCEPT ![b.conversation] = history]
      BY <2>5, <2>8
    <3>2. CASE b.conversation = "main"
      BY <3>1, <3>2, <2>1
    <3>3. CASE b.conversation = "sub"
      BY <3>1, <3>3, <2>1
    <3> QED BY <3>1, <3>2, <3>3, <2>6
  <2> QED BY <2>1, <2>3, <2>7, <2>8
<1> QED BY <1>2, <1>4, <1>6 DEF IInv, TypeOK

\* Steps of the agent program alone.
LEMMA AgentAlone ==
  ASSUME IInv, UNCHANGED <<protocol, session, requests, closed, finish, awaited, frozen>>,
         client' \in [main : History, sub : History, dispatch : Nat, tools : 1 .. 2]
  PROVE  IInv'
<1>1. HandlersInv' /\ EnteringInv' /\ FinishInv'
  <2>1. HandlersInv'
    BY DEF IInv, HandlersInv, Ids, Holding, At
  <2>2. Ids' = Ids /\ Recorded' = Recorded
    BY DEF Ids, Recorded
  <2> QED BY <2>1, <2>2, FinishKept DEF IInv
<1>2. SessionInv'
  BY DEF IInv, SessionInv, Ids, At, Recorded, Bodies
<1> QED BY <1>1, <1>2 DEF IInv, TypeOK

\* The sub-agent's result goes into the main history.
LEMMA EndSubStep == ASSUME IInv, EndSub PROVE IInv'
<1> DEFINE result == User("tool", "main", client.dispatch, client.dispatch)
           history == Append(client.main, result)
           nothing == << >>
<1>1. /\ client \in [main : History, sub : History, dispatch : Nat, tools : 1 .. 2]
      /\ UNCHANGED <<protocol, session, requests, closed, finish, awaited, frozen>>
      /\ client' = [client EXCEPT !.dispatch = NoDispatch, !.sub = nothing, !.main = history]
  BY DEF IInv, TypeOK, EndSub
<1>2. history \in History
  <2>1. result \in Message
    BY <1>1, UserType DEF Conversations
  <2> HIDE DEF result
  <2> QED BY <1>1, <2>1, SaidType
<1>3. nothing \in History
  BY DEF History
<1> HIDE DEF history, nothing
<1>4. client' \in [main : History, sub : History, dispatch : Nat, tools : 1 .. 2]
  BY <1>1, <1>2, <1>3 DEF NoDispatch
<1> QED BY <1>1, <1>4, AgentAlone

\* The agent replaces its history.
LEMMA CompactStep == ASSUME IInv, Compact PROVE IInv'
<1> DEFINE history == <<User("question", "main", Len(requests), NoDispatch)>>
<1>1. /\ client \in [main : History, sub : History, dispatch : Nat, tools : 1 .. 2]
      /\ UNCHANGED <<protocol, session, requests, closed, finish, awaited, frozen>>
      /\ client' = [client EXCEPT !.main = history, !.tools = 2]
  BY DEF IInv, TypeOK, Compact
<1>2. history \in History
  <2>1. User("question", "main", Len(requests), NoDispatch) \in Message
    BY HandlerFacts, UserType DEF IInv, Conversations, NoDispatch
  <2> QED BY <2>1 DEF History
<1> HIDE DEF history
<1>3. client' \in [main : History, sub : History, dispatch : Nat, tools : 1 .. 2]
  <2> DEFINE later == 2
  <2>1. later \in 1 .. 2 /\ client' = [client EXCEPT !.main = history, !.tools = later]
    BY <1>1
  <2> HIDE DEF later
  <2> QED BY <1>1, <1>2, <2>1
<1> QED BY <1>1, <1>3, AgentAlone

-----------------------------------------------------------------------------
(* finish_session(). *)

\* What finish_session drains is a sequence of segments.
LEMMA DrainedType == ASSUME IInv PROVE Drained(session) \in Seq(Segment)
  BY DrainedFacts DEF IInv, TypeOK, SessionInv

\* Steps that leave the handlers and the agent alone.
LEMMA HandlersAlone ==
  ASSUME IInv, UNCHANGED <<protocol, session, requests, client>>
  PROVE  /\ HandlersInv' /\ SessionInv' /\ Ids' = Ids /\ Recorded' = Recorded
         /\ \A r \in Ids : At(r, Working)' <=> At(r, Working)
<1>1. HandlersInv' /\ Ids' = Ids /\ Recorded' = Recorded
  BY DEF IInv, HandlersInv, Ids, Holding, At, Recorded
<1>2. SessionInv'
  BY DEF IInv, SessionInv, Ids, At, Recorded, Bodies
<1>3. \A r \in Ids : At(r, Working)' <=> At(r, Working)
  BY DEF At, Working
<1> QED BY <1>1, <1>2, <1>3

\* The tasks in flight are requests, and whoever is at work is one of them until it is
\* awaited.
LEMMA InflightFacts ==
  ASSUME IInv
  PROVE  /\ Inflight \in SUBSET Nat
         /\ finish["try"] = "no" => \A r \in Ids : At(r, Working) => r \in Inflight
         /\ \A call \in Calls : Left(call) = {} => \A r \in Ids : At(r, Working) => r \notin awaited[call]
<1>1. Inflight \in SUBSET Nat
  BY HandlerFacts DEF IInv, Inflight
<1>2. ASSUME finish["try"] = "no", NEW r \in Ids, At(r, Working) PROVE r \in Inflight
  <2>1. \A call \in Calls : awaited[call] = {}
    BY <1>2 DEF IInv, FinishInv
  <2>2. r \notin UNION {awaited[call] : call \in Calls}
    BY <2>1
  <2>3. At(r, IF protocol = "openai" THEN Busy \ {"replied"} ELSE Busy)
    BY <1>2 DEF At, Working, Busy
  <2> QED BY <2>2, <2>3 DEF Inflight
<1>3. \A call \in Calls : Left(call) = {} => \A r \in Ids : At(r, Working) => r \notin awaited[call]
  BY DEF Left, At, Working, Busy
<1> QED BY <1>1, <1>2, <1>3

\* What finish_session drains holds all that was recorded, once.
LEMMA DrainedNow ==
  ASSUME IInv
  PROVE  Apiece(Drained(session)) /\ InSegments(Drained(session)) = Recorded
  BY DrainedFacts DEF IInv, TypeOK, SessionInv

\* The first call drains the session when nobody but a straggler is at work.
LEMMA DrainStep ==
  ASSUME IInv, UNCHANGED <<protocol, session, requests, client>>, DrainAll("try"),
         closed', awaited' \in [Calls -> SUBSET Nat], finish["try"] # "done",
         \A r \in Ids : At(r, Working) => r \in Stragglers'
  PROVE  IInv'
<1>1. /\ HandlersInv' /\ SessionInv' /\ Ids' = Ids /\ Recorded' = Recorded
      /\ \A r \in Ids : At(r, Working)' <=> At(r, Working)
  BY HandlersAlone
<1>2. /\ finish' = [finish EXCEPT !["try"] = "done"] /\ frozen' = Drained(session)
      /\ finish'["try"] = "done"
  BY DEF DrainAll, IInv, TypeOK, Calls
<1>3. TypeOK'
  <2>1. closed' \in BOOLEAN /\ frozen' \in Seq(Segment)
    BY <1>2, DrainedType
  <2>2. finish' \in [Calls -> {"no", "waiting", "done", "raised", "given_up"}]
    BY <1>2 DEF IInv, TypeOK
  <2> QED BY <2>1, <2>2 DEF IInv, TypeOK
<1>4. EnteringInv'
  <2>1. Entering' = Entering
    BY <1>1 DEF Entering, At
  <2> QED BY <1>1, <2>1 DEF IInv, EnteringInv
<1>5. FinishInv'
  <2>1. Apiece(frozen') /\ InSegments(frozen') = Recorded'
    BY <1>1, <1>2, DrainedNow
  <2> QED BY <1>1, <1>2, <2>1 DEF FinishInv
<1> QED BY <1>1, <1>3, <1>4, <1>5 DEF IInv

\* A call that goes on and drains nothing for the caller.
LEMMA CallAlone ==
  ASSUME IInv, UNCHANGED <<protocol, session, requests, closed, awaited, frozen, client>>,
         finish' \in [Calls -> {"no", "waiting", "done", "raised", "given_up"}],
         finish["try"] # "no", finish'["try"] # "no",
         finish'["try"] = "done" => finish["try"] = "done"
  PROVE  IInv'
<1>1. HandlersInv' /\ SessionInv' /\ Ids' = Ids /\ Recorded' = Recorded
  BY HandlersAlone
<1>2. EnteringInv' /\ FinishInv'
  BY <1>1, FinishKept DEF IInv
<1> QED BY <1>1, <1>2 DEF IInv, TypeOK

\* finish_session closes the session, and drains it when no task is left.
LEMMA BeginFinishStep == ASSUME IInv, NEW call \in Calls, BeginFinish(call) PROVE IInv'
<1>1. /\ UNCHANGED <<protocol, session, requests, client>> /\ closed' = TRUE /\ finish[call] = "no"
      /\ awaited' = [awaited EXCEPT ![call] = Inflight]
      /\ call = "finally" => finish["try"] # "no"
      /\ \/ Inflight = {} /\ DrainAll(call)
         \/ Inflight # {} /\ finish' = [finish EXCEPT ![call] = "waiting"] /\ frozen' = frozen
  BY DEF BeginFinish
<1>2. /\ awaited' \in [Calls -> SUBSET Nat] /\ awaited'[call] = Inflight
      /\ \A other \in Calls : other # call => awaited'[other] = awaited[other]
  BY <1>1, InflightFacts DEF IInv, TypeOK
<1>3. /\ HandlersInv' /\ SessionInv' /\ Ids' = Ids /\ Recorded' = Recorded
      /\ \A r \in Ids : At(r, Working)' <=> At(r, Working)
  BY <1>1, HandlersAlone
<1>4. CASE call = "try"
  <2>1. \A r \in Ids : At(r, Working) => r \in Inflight
    BY <1>1, <1>4, InflightFacts
  <2>2. CASE Inflight = {} /\ DrainAll(call)
    <3>1. \A r \in Ids : At(r, Working) => r \in Stragglers'
      BY <2>1, <2>2
    <3> QED BY <1>1, <1>2, <1>4, <2>2, <3>1, DrainStep
  <2>3. CASE finish' = [finish EXCEPT ![call] = "waiting"] /\ frozen' = frozen
    <3>1. /\ finish' \in [Calls -> {"no", "waiting", "done", "raised", "given_up"}]
          /\ finish'["try"] = "waiting"
      BY <1>4, <2>3 DEF IInv, TypeOK
    <3>2. TypeOK'
      BY <1>1, <1>2, <2>3, <3>1 DEF IInv, TypeOK
    <3>3. EnteringInv'
      <4>1. Entering' = Entering
        BY <1>1, <1>3 DEF Entering, At
      <4> QED BY <1>1, <1>3, <4>1 DEF IInv, EnteringInv
    <3>4. FinishInv'
      BY <1>1, <1>2, <1>3, <1>4, <2>1, <3>1 DEF FinishInv
    <3> QED BY <1>3, <3>2, <3>3, <3>4 DEF IInv
  <2> QED BY <1>1, <2>2, <2>3
<1>5. CASE call = "finally"
  <2>1. /\ finish' \in [Calls -> {"no", "waiting", "done", "raised", "given_up"}]
        /\ finish'["try"] = finish["try"] /\ frozen' = frozen
    <3>1. \E state \in {"waiting", "done"} : finish' = [finish EXCEPT !["finally"] = state]
      BY <1>1, <1>5 DEF DrainAll
    <3>2. frozen' = frozen
      BY <1>1, <1>5 DEF DrainAll
    <3> QED BY <3>1, <3>2 DEF IInv, TypeOK, Calls
  <2>2. finish["try"] # "no" /\ closed
    BY <1>1, <1>5 DEF IInv, FinishInv
  <2>3. awaited'["try"] = awaited["try"] /\ closed' = closed
    BY <1>1, <1>2, <1>5, <2>2 DEF Calls, IInv, TypeOK
  <2>4. EnteringInv' /\ FinishInv'
    BY <1>1, <1>3, <2>1, <2>2, <2>3, FinishKept DEF IInv
  <2>5. TypeOK'
    BY <1>1, <1>2, <2>1 DEF IInv, TypeOK
  <2> QED BY <1>3, <2>4, <2>5 DEF IInv
<1> QED BY <1>4, <1>5 DEF Calls

\* Drained after the wait, with none of the awaited tasks left to change the session.
LEMMA WaitOverStep == ASSUME IInv, NEW call \in Calls, WaitOver(call) PROVE IInv'
<1>1. /\ UNCHANGED <<protocol, session, requests, closed, awaited, client>>
      /\ finish[call] = "waiting" /\ Left(call) = {} /\ DrainAll(call)
  BY DEF WaitOver
<1>2. /\ closed /\ finish["try"] # "no"
      /\ \A r \in Ids : At(r, Working) => r \in awaited["try"] \cup Stragglers
  BY <1>1 DEF IInv, FinishInv, Calls
<1>3. CASE call = "try"
  <2>1. \A r \in Ids : At(r, Working) => r \in Stragglers
    BY <1>1, <1>2, <1>3, InflightFacts
  <2>2. Stragglers' = Stragglers
    BY <1>1 DEF Stragglers, Ids, At
  <2>3. awaited' \in [Calls -> SUBSET Nat]
    BY <1>1 DEF IInv, TypeOK
  <2> QED BY <1>1, <1>2, <1>3, <2>1, <2>2, <2>3, DrainStep
<1>4. CASE call = "finally"
  <2>1. /\ finish' \in [Calls -> {"no", "waiting", "done", "raised", "given_up"}]
        /\ finish'["try"] = finish["try"] /\ frozen' = frozen
    BY <1>1, <1>4 DEF IInv, TypeOK, DrainAll, Calls
  <2> QED BY <1>1, <1>2, <2>1, CallAlone
<1> QED BY <1>3, <1>4 DEF Calls

\* The wait timed out: the tasks that are left are cancelled, and nothing is drained.
LEMMA TimeOutStep == ASSUME IInv, NEW call \in Calls, TimeOut(call) PROVE IInv'
<1> DEFINE Mark(h) == [h EXCEPT !.cancelled = TRUE]
<1>1. /\ requests' = [r \in Ids |-> IF r \in Left(call) THEN Mark(requests[r]) ELSE requests[r]]
      /\ finish' = [finish EXCEPT ![call] = "raised"] /\ finish[call] = "waiting"
      /\ UNCHANGED <<protocol, session, closed, awaited, frozen, client>>
  BY DEF TimeOut
<1>2. /\ Len(requests) \in Nat /\ Ids = 1 .. Len(requests)
      /\ \A r \in Ids : requests[r] \in Handlers
  BY HandlerFacts DEF IInv
<1>3. \A h \in Handlers :
        /\ Mark(h) \in Handlers /\ Mark(h).pc = h.pc /\ Mark(h).body = h.body /\ Mark(h).who = h.who
        /\ Mark(h).prompt = h.prompt /\ Mark(h).output = h.output /\ Mark(h).locked = h.locked
        /\ Mark(h).late = h.late
  BY DEF Handlers
<1> HIDE DEF Mark
<1>4. requests' \in Seq(Handlers) /\ DOMAIN requests' = Ids
  <2>1. \A r \in Ids : (IF r \in Left(call) THEN Mark(requests[r]) ELSE requests[r]) \in Handlers
    BY <1>2, <1>3
  <2> QED BY <1>1, <1>2, <2>1
<1>5. Ids' = Ids
  BY <1>4 DEF Ids
<1>6. \A r \in Ids :
        /\ requests'[r].pc = requests[r].pc /\ requests'[r].body = requests[r].body
        /\ requests'[r].who = requests[r].who /\ requests'[r].prompt = requests[r].prompt
        /\ requests'[r].output = requests[r].output /\ requests'[r].locked = requests[r].locked
        /\ requests'[r].late = requests[r].late
  BY <1>1, <1>2, <1>3
<1>7. HandlersInv'
  <2>1. Holding' = Holding
    BY <1>5, <1>6 DEF Holding, At
  <2> QED BY <1>5, <1>6, <2>1 DEF IInv, HandlersInv, At
<1>8. SessionInv'
  BY <1>1, <1>5, <1>6, QuietStep DEF IInv
<1>9. EnteringInv' /\ FinishInv'
  <2>1. Recorded' = Recorded
    BY <1>5, <1>6 DEF Recorded
  <2>2. finish["try"] # "no" /\ finish'["try"] # "no" /\ (finish'["try"] = "done" => finish["try"] = "done")
    BY <1>1 DEF IInv, FinishInv, TypeOK, Calls
  <2> QED BY <1>1, <1>5, <1>6, <2>1, <2>2, FinishKept DEF IInv
<1>10. TypeOK'
  BY <1>1, <1>4 DEF IInv, TypeOK
<1> QED BY <1>7, <1>8, <1>9, <1>10 DEF IInv

\* The caller of finish_session gave up.
LEMMA GuardExpiresStep == ASSUME IInv, GuardExpires PROVE IInv'
<1>1. /\ finish["try"] = "waiting" /\ finish' = [finish EXCEPT !["try"] = "given_up"]
      /\ UNCHANGED <<protocol, session, requests, closed, awaited, frozen, client>>
  BY DEF GuardExpires
<1>2. /\ finish' \in [Calls -> {"no", "waiting", "done", "raised", "given_up"}]
      /\ finish'["try"] = "given_up"
  BY <1>1 DEF IInv, TypeOK, Calls
<1> QED BY <1>1, <1>2, CallAlone

-----------------------------------------------------------------------------
(* The steps that change the session. *)

\* A request that arrives has not touched the session yet.
LEMMA ArriveStep ==
  ASSUME IInv, NEW conversation \in Conversations, Arrive(conversation)
  PROVE  IInv'
<1> DEFINE h == NewRequest(Body(conversation))
<1>1. /\ requests' = Append(requests, h) /\ ~closed /\ Entering = {}
      /\ UNCHANGED <<protocol, session, closed, finish, awaited, frozen, client>>
  BY DEF Arrive
<1>2. h \in Handlers /\ h.pc = "arriving" /\ h.output = << >> /\ ~h.locked /\ ~h.late
  <2>1. Body(conversation) \in RequestBody
    <3>1. System(conversation) \in Systems
      BY DEF System, Systems
    <3>2. client \in [main : History, sub : History, dispatch : Nat, tools : 1 .. 2]
      BY DEF IInv, TypeOK
    <3>3. conversation = "side" => <<User("question", "side", 0, NoDispatch)>> \in History
      BY UserType DEF History, NoDispatch, Conversations
    <3>4. conversation # "side" => client[conversation] \in History
      BY <3>2 DEF Conversations
    <3> QED BY <3>1, <3>2, <3>3, <3>4 DEF Body, RequestBody
  <2>2. << >> \in Texts /\ << >> \in Prompts
    <3>1. Output(0, 0) = << >>
      BY DEF Output
    <3> QED BY <3>1 DEF Texts, Prompts
  <2> QED BY <2>1, <2>2 DEF NewRequest, Handlers, Pcs, Busy, Forms, NoDispatch
<1> HIDE DEF h
<1>3. /\ requests' \in Seq(Handlers)
      /\ Ids' = Ids \cup {Len(requests) + 1} /\ Len(requests) + 1 \notin Ids
      /\ requests'[Len(requests) + 1] = h
      /\ \A r \in Ids : requests'[r] = requests[r]
  <2>1. requests \in Seq(Handlers) /\ Len(requests) \in Nat /\ Ids = 1 .. Len(requests)
    BY HandlerFacts DEF IInv, TypeOK
  <2> QED BY <1>1, <1>2, <2>1 DEF Ids
<1>4. SessionInv'
  BY <1>1, <1>2, <1>3, QuietStep DEF IInv
<1>5. HandlersInv'
  <2>1. \A r \in Ids' : (requests[r].locked)' <=> At(r, {"generating", "aborting"})'
    BY <1>2, <1>3 DEF IInv, HandlersInv, At
  <2>2. Holding' \subseteq Holding
    BY <1>2, <1>3 DEF Holding, At
  <2>3. \A r \in Ids' :
          At(r, {"arriving", "lock", "generating", "aborting"})' => (requests[r].output)' = << >>
    BY <1>2, <1>3 DEF IInv, HandlersInv, At
  <2> QED BY <2>1, <2>2, <2>3 DEF IInv, HandlersInv
<1>6. FinishInv'
  BY <1>1 DEF IInv, FinishInv
<1>7. EnteringInv'
  <2>1. Entering' = {Len(requests) + 1}
    BY <1>1, <1>2, <1>3 DEF Entering, At
  <2>2. \A r \in Ids' : ~(requests[r].late)'
    BY <1>1, <1>2, <1>3 DEF IInv, EnteringInv
  <2> QED BY <2>1, <2>2 DEF EnteringInv
<1> QED BY <1>1, <1>3, <1>4, <1>5, <1>6, <1>7 DEF IInv, TypeOK

\* The handler joins the tasks in flight, late when the session was closed meanwhile:
\* then it is the straggler it was.
LEMMA RegisterStep == ASSUME IInv, NEW r \in Ids, Register(r) PROVE IInv'
<1>1. PICK pc \in {"lock", "astray"} :
        /\ requests' = [requests EXCEPT ![r].pc = pc, ![r].late = closed]
        /\ UNCHANGED <<protocol, session, closed, finish, awaited, frozen, client>>
        /\ requests[r].pc = "arriving"
  BY DEF Register, At
<1> DEFINE h == [requests[r] EXCEPT !.pc = pc, !.late = closed]
<1>2. /\ requests[r] \in Handlers /\ closed \in BOOLEAN /\ ~requests[r].locked
      /\ requests[r].output = << >> /\ r \in Entering
  BY <1>1, HandlerFacts DEF IInv, TypeOK, HandlersInv, At, Entering
<1>3. /\ h \in Handlers /\ h.pc = pc /\ h.late = closed /\ h.body = requests[r].body
      /\ h.who = requests[r].who /\ h.prompt = requests[r].prompt /\ h.output = << >> /\ ~h.locked
  BY <1>2 DEF Handlers, Pcs, Busy
<1>4. requests' = [requests EXCEPT ![r] = h]
  BY <1>1
<1> HIDE DEF h
<1>5. /\ requests' \in Seq(Handlers) /\ Ids' = Ids
      /\ requests'[r] = h /\ \A q \in Ids : q # r => requests'[q] = requests[q]
  BY <1>3, <1>4, OneHandler DEF IInv
<1>6. SessionInv'
  <2>1. \A q \in Ids : /\ requests'[q].body = requests[q].body
                       /\ requests'[q].who = requests[q].who
                       /\ requests'[q].prompt = requests[q].prompt
                       /\ requests'[q].output = requests[q].output
                       /\ requests'[q].pc = "generating" => requests[q].pc = "generating"
    BY <1>2, <1>3, <1>5
  <2> QED BY <1>1, <1>5, <2>1, QuietStep DEF IInv
<1>7. HandlersInv'
  <2>1. \A q \in Ids' : (requests[q].locked)' <=> At(q, {"generating", "aborting"})'
    BY <1>3, <1>5 DEF IInv, HandlersInv, At
  <2>2. Holding' \subseteq Holding
    BY <1>3, <1>5 DEF Holding, At
  <2>3. \A q \in Ids' :
          At(q, {"arriving", "lock", "generating", "aborting"})' => (requests[q].output)' = << >>
    BY <1>3, <1>5 DEF IInv, HandlersInv, At
  <2> QED BY <2>1, <2>2, <2>3 DEF IInv, HandlersInv
<1>8. Entering' = {} /\ \A q \in Ids : ~requests[q].late
  <2>1. Entering = {r} /\ \A q \in Ids : ~requests[q].late
    BY <1>2 DEF IInv, EnteringInv
  <2>2. Entering' \subseteq Entering \ {r}
    BY <1>3, <1>5 DEF Entering, At
  <2> QED BY <2>1, <2>2
<1>9. EnteringInv'
  <2>1. \A q \in Ids' : (requests[q].late)' => closed' /\ q = r
    BY <1>1, <1>3, <1>5, <1>8
  <2> QED BY <1>8, <2>1 DEF EnteringInv
<1>10. FinishInv'
  <2>1. closed => Stragglers \subseteq Stragglers' /\ r \in Stragglers'
    BY <1>1, <1>3, <1>5 DEF Stragglers, At
  <2>2. \A q \in Ids : q # r => (At(q, Working)' <=> At(q, Working))
    BY <1>5 DEF At, Working
  <2>3. Recorded' = Recorded
    BY <1>2, <1>3, <1>5 DEF Recorded
  <2> QED BY <1>1, <1>5, <2>1, <2>2, <2>3 DEF IInv, FinishInv
<1>11. TypeOK'
  BY <1>1, <1>5 DEF IInv, TypeOK
<1> QED BY <1>6, <1>7, <1>9, <1>10, <1>11 DEF IInv

\* The invariant, as what SubClosedStep, PreparedStep and WithTurnStep take.
LEMMA GoodNow ==
  ASSUME IInv
  PROVE  /\ Good(session, Recorded, Bodies)
         /\ Recorded \subseteq Ids
         /\ \A r \in Ids : Bodies[r] = requests[r].body /\ Bodies[r] \in RequestBody
         /\ << >> \in Texts
<1>1. Good(session, Recorded, Bodies)
  BY DEF IInv, TypeOK, SessionInv, Good
<1>2. Recorded \subseteq Ids
  BY DEF Recorded
<1>3. \A r \in Ids : Bodies[r] = requests[r].body /\ Bodies[r] \in RequestBody
  BY HandlerFacts DEF IInv, Bodies
<1>4. << >> \in Texts
  <2>1. Output(0, 0) = << >>
    BY DEF Output
  <2> QED BY <2>1 DEF Texts
<1> QED BY <1>1, <1>2, <1>3, <1>4

\* What RenderTokenIds returns is a prompt.
LEMMA PromptType ==
  ASSUME NEW tools \in {1, 2}, NEW chat \in History
  PROVE  RenderTokenIds(tools, chat) \in Prompts
<1>1. tools \in Nat
  OBVIOUS
<1> QED BY <1>1 DEF Prompts

\* The prompt is rendered from a chain that shows the whole history.
LEMMA AcquireStep == ASSUME IInv, NEW r \in Ids, Acquire(r) PROVE IInv'
<1>1. /\ requests[r] \in Handlers /\ requests[r].body \in RequestBody /\ r \in Nat
      /\ requests[r].pc = "lock" /\ Holding = {} /\ requests[r].output = << >>
      /\ ~requests[r].locked
      /\ UNCHANGED <<protocol, closed, finish, awaited, frozen, client>>
  <2>1. requests[r] \in Handlers /\ requests[r].body \in RequestBody /\ r \in Nat
    BY HandlerFacts DEF IInv
  <2>2. requests[r].pc = "lock" /\ Holding = {} /\ UNCHANGED <<protocol, closed, finish, awaited, frozen, client>>
    BY DEF Acquire, At
  <2> QED BY <2>1, <2>2 DEF IInv, HandlersInv, At
<1> DEFINE body == requests[r].body
           recorded == Recorded
           bodies == Bodies
<1>2. PICK open, who, s, prompt :
        /\ open = SubClosed(session, body)
        /\ who = Routed(open, body)
        /\ s = Prepared(open, who, body)
        /\ prompt = RenderTokenIds(s[who].tools, s[who].chat)
        /\ IF Len(prompt) >= MaxContext
             THEN /\ session' = WithTurn(s, who, prompt, << >>)
                  /\ requests' = [requests EXCEPT ![r].pc = "replied", ![r].who = who,
                                                  ![r].prompt = prompt]
             ELSE /\ session' = s
                  /\ requests' = [requests EXCEPT ![r].pc = "generating", ![r].who = who,
                                                  ![r].prompt = prompt, ![r].locked = TRUE]
  BY ZenonT(30) DEF Acquire
<1> DEFINE full == Len(prompt) >= MaxContext
           h == IF full THEN [requests[r] EXCEPT !.pc = "replied", !.who = who, !.prompt = prompt]
                ELSE [requests[r] EXCEPT !.pc = "generating", !.who = who, !.prompt = prompt,
                                         !.locked = TRUE]
<1>2b. /\ requests' = [requests EXCEPT ![r] = h]
       /\ session' = IF full THEN WithTurn(s, who, prompt, << >>) ELSE s
  <2>1. CASE full
    <3>1. /\ requests' = [requests EXCEPT ![r].pc = "replied", ![r].who = who, ![r].prompt = prompt]
          /\ session' = WithTurn(s, who, prompt, << >>)
      BY <2>1, <1>2
    <3>2. h = [requests[r] EXCEPT !.pc = "replied", !.who = who, !.prompt = prompt]
      BY <2>1
    <3> HIDE DEF full, h
    <3>3. [requests EXCEPT ![r].pc = "replied", ![r].who = who, ![r].prompt = prompt]
            = [requests EXCEPT ![r] = [requests[r] EXCEPT !.pc = "replied", !.who = who,
                                                          !.prompt = prompt]]
      OBVIOUS
    <3> QED BY <2>1, <3>1, <3>2, <3>3
  <2>2. CASE ~full
    <3>1. /\ requests' = [requests EXCEPT ![r].pc = "generating", ![r].who = who,
                                          ![r].prompt = prompt, ![r].locked = TRUE]
          /\ session' = s
      BY <2>2, <1>2
    <3>2. h = [requests[r] EXCEPT !.pc = "generating", !.who = who, !.prompt = prompt,
                                  !.locked = TRUE]
      BY <2>2
    <3> HIDE DEF full, h
    <3>3. [requests EXCEPT ![r].pc = "generating", ![r].who = who, ![r].prompt = prompt,
                           ![r].locked = TRUE]
            = [requests EXCEPT ![r] = [requests[r] EXCEPT !.pc = "generating", !.who = who,
                                                          !.prompt = prompt, !.locked = TRUE]]
      OBVIOUS
    <3> QED BY <2>2, <3>1, <3>2, <3>3
  <2> QED BY <2>1, <2>2
<1>3. /\ Good(session, recorded, bodies) /\ recorded \subseteq Ids
      /\ \A q \in Ids : bodies[q] = requests[q].body /\ bodies[q] \in RequestBody
      /\ << >> \in Texts
  BY GoodNow
<1> HIDE DEF recorded, bodies, full, h
<1>4. Good(open, recorded, bodies)
  BY <1>1, <1>2, <1>3, SubClosedStep
<1>5. who \in {"main", "sub"} /\ (who = "sub" => open.armed)
  BY <1>2 DEF Routed
<1>6. /\ Good(s, recorded, bodies) /\ s.armed = open.armed
      /\ s[who].seen = body.messages /\ s[who].system = body.system
      /\ s[who].tools \in {1, 2}
      /\ s[who].chat = SystemMessage(body.system) \o body.messages
  <2>1. body \in RequestBody /\ \A q \in recorded : bodies[q] \in RequestBody
    BY <1>1, <1>3
  <2> HIDE DEF body
  <2>2. s = Prepared(open, who, body)
    BY <1>2 DEF body
  <2>3. Good(s, recorded, bodies) /\ s.armed = open.armed /\ Ready(s[who], body)
    BY ONLY <2>1, <2>2, <1>4, <1>5, PreparedStep
  <2> QED BY <2>3 DEF Ready
<1>7. prompt \in Prompts /\ Shows(prompt, body)
  <2>1. s[who].chat \in History
    BY <1>5, <1>6 DEF Good, Sessions, Chain
  <2>2. PICK tools \in {1, 2} : prompt = RenderTokenIds(tools, s[who].chat)
    BY <1>2, <1>6
  <2>3. prompt \in Prompts
    BY <2>1, <2>2, PromptType
  <2>4. Shows(prompt, body)
    BY <2>2, <1>6 DEF Shows
  <2> QED BY <2>3, <2>4
<1>8. /\ h \in Handlers /\ h.body = body /\ h.output = << >> /\ h.who = who /\ h.prompt = prompt
      /\ h.pc = IF full THEN "replied" ELSE "generating"
      /\ h.locked <=> ~full
  <2>1. CASE full
    BY <2>1, <1>1, <1>5, <1>7 DEF Handlers, Pcs, Busy, h
  <2>2. CASE ~full
    BY <2>2, <1>1, <1>5, <1>7 DEF Handlers, Pcs, Busy, h
  <2> QED BY <2>1, <2>2
<1>9. /\ requests' \in Seq(Handlers) /\ Ids' = Ids
      /\ requests'[r] = h /\ \A q \in Ids : q # r => requests'[q] = requests[q]
  BY <1>2b, <1>8, OneHandler DEF IInv
<1>10. Recorded' = recorded
  BY <1>1, <1>8, <1>9 DEF Recorded, recorded
<1>11. Bodies' = bodies
  <2>1. \A q \in Ids : requests'[q].body = requests[q].body
    BY <1>8, <1>9
  <2> QED BY <1>9, <2>1 DEF Bodies, bodies
<1>12. Good(session', recorded, bodies) /\ (~full => session' = s)
  <2>1. CASE full
    <3> DEFINE none == << >>
    <3>1. none \in Texts /\ none = << >> /\ session' = WithTurn(s, who, prompt, none)
      BY <1>2b, <1>3, <2>1
    <3> HIDE DEF none
    <3>2. \A q \in recorded \cup {r} : bodies[q] \in RequestBody
      BY <1>3
    <3>3. Good(WithTurn(s, who, prompt, none), IF none = << >> THEN recorded ELSE recorded \cup {r}, bodies)
      BY <1>1, <1>5, <1>6, <1>7, <3>1, <3>2, WithTurnStep
    <3> QED BY <3>1, <3>3, <2>1
  <2>2. CASE ~full
    BY <2>2, <1>2b, <1>6
  <2> QED BY <2>1, <2>2
<1>13. SessionInv'
  <2>1. ASSUME NEW q \in Ids', At(q, {"generating"})'
        PROVE  Asking(session', requests'[q])
    <3>1. \A p \in Ids : ~At(p, {"generating"})
      BY <1>1 DEF IInv, HandlersInv, Holding, At
    <3>2. q = r
      BY <2>1, <3>1, <1>9 DEF At
    <3>3. ~full
      BY <2>1, <3>2, <1>8, <1>9 DEF At
    <3> QED BY <3>2, <3>3, <1>5, <1>6, <1>7, <1>8, <1>9, <1>12 DEF Asking
  <2>2. Whole(session', Recorded') /\ SessionShows(session', Bodies')
    BY <1>10, <1>11, <1>12 DEF Good
  <2> QED BY <2>1, <2>2 DEF SessionInv
<1>14. HandlersInv'
  <2>1. \A q \in Ids' : (requests[q].locked)' <=> At(q, {"generating", "aborting"})'
    BY <1>8, <1>9 DEF IInv, HandlersInv, At
  <2>2. \A p, q \in Holding' : p = q
    <3>1. Holding' \subseteq {r}
      BY <1>1, <1>9 DEF Holding, At
    <3> QED BY <3>1
  <2>3. \A q \in Ids' :
          At(q, {"arriving", "lock", "generating", "aborting"})' => (requests[q].output)' = << >>
    BY <1>8, <1>9 DEF IInv, HandlersInv, At
  <2> QED BY <2>1, <2>2, <2>3 DEF HandlersInv
<1>15. EnteringInv' /\ FinishInv'
  <2>1. h.late = requests[r].late
    BY <1>1 DEF h, Handlers
  <2>2. \A q \in Ids : /\ requests'[q].late = requests[q].late
                       /\ requests'[q].pc = "arriving" <=> requests[q].pc = "arriving"
                       /\ requests'[q].pc \in Working => requests[q].pc \in Working
    BY <1>1, <1>8, <1>9, <2>1 DEF Working
  <2> QED BY <1>1, <1>9, <1>10, <2>2, FinishKept DEF IInv, recorded
<1>16. TypeOK'
  BY <1>1, <1>9, <1>12 DEF IInv, TypeOK, Good
<1> QED BY <1>13, <1>14, <1>15, <1>16 DEF IInv

\* The answer is recorded on the chain that its prompt was rendered from.
LEMMA AnswerStep == ASSUME IInv, NEW r \in Ids, Answer(r) PROVE IInv'
<1> PICK answer \in Outputs, dispatch \in {NoDispatch, r} :
      /\ session' = Dispatched(WithTurn(session, requests[r].who, requests[r].prompt,
                                        Output(r, answer[1])), requests[r].who, dispatch)
      /\ requests' = [requests EXCEPT ![r].pc = "replied", ![r].output = Output(r, answer[1]),
                                      ![r].form = answer[2], ![r].dispatch = dispatch,
                                      ![r].locked = FALSE]
  BY DEF Answer
<1> DEFINE who == requests[r].who
           prompt == requests[r].prompt
           output == Output(r, answer[1])
           s == WithTurn(session, who, prompt, output)
           recorded == Recorded
           bodies == Bodies
           h == [requests[r] EXCEPT !.pc = "replied", !.output = output, !.form = answer[2],
                                    !.dispatch = dispatch, !.locked = FALSE]
<1>1. /\ requests[r] \in Handlers /\ r \in Nat /\ who \in {"main", "sub"} /\ prompt \in Prompts
      /\ requests[r].pc = "generating" /\ requests[r].output = << >> /\ r \in Holding
      /\ UNCHANGED <<protocol, closed, finish, awaited, frozen, client>>
      /\ Asking(session, requests[r])
  <2>1. requests[r] \in Handlers /\ r \in Nat
    BY HandlerFacts DEF IInv
  <2>2. who \in {"main", "sub"} /\ prompt \in Prompts
    BY <2>1 DEF Handlers
  <2> QED BY <2>1, <2>2 DEF IInv, HandlersInv, SessionInv, Answer, At, Holding
<1>2. /\ output \in Texts /\ output # << >> /\ output[1][2] = r
      /\ answer[2] \in Forms /\ dispatch \in Nat
  <2>1. answer[1] \in Nat \ {0} /\ answer[2] \in Forms
    BY BoundsAssumption DEF Forms
  <2>2. output # << >> /\ output[1][2] = r
    BY <1>1, <2>1, OutputFacts
  <2> QED BY <1>1, <2>1, <2>2 DEF Texts, NoDispatch
<1>3. requests' = [requests EXCEPT ![r] = h] /\ session' = Dispatched(s, who, dispatch)
  OBVIOUS
<1> HIDE DEF output, who, prompt
<1>4. /\ Good(session, recorded, bodies) /\ recorded \subseteq Ids
      /\ \A q \in Ids : bodies[q] = requests[q].body /\ bodies[q] \in RequestBody
  BY GoodNow
<1>5. /\ r \notin recorded /\ Shows(prompt, bodies[r])
      /\ session[who].seen = bodies[r].messages /\ session[who].system = bodies[r].system
      /\ who = "sub" => session.armed
  BY <1>1, <1>4 DEF Recorded, Asking, prompt, who
<1>6. /\ h \in Handlers /\ h.body = requests[r].body /\ h.output = output /\ h.pc = "replied"
      /\ ~h.locked
  BY <1>1, <1>2 DEF Handlers, Pcs, Busy
<1> HIDE DEF recorded, bodies, h
<1>7. Good(s, recorded \cup {r}, bodies)
  <2> DEFINE before == session
  <2>1. /\ \A q \in recorded \cup {r} : bodies[q] \in RequestBody
        /\ Good(before, recorded, bodies) /\ (who = "sub" => before.armed)
        /\ output[1][2] = r /\ r \notin recorded /\ Shows(prompt, bodies[r])
        /\ before[who].seen = bodies[r].messages
        /\ before[who].system = bodies[r].system
        /\ s = WithTurn(before, who, prompt, output)
        /\ who \in {"main", "sub"} /\ prompt \in Prompts /\ output \in Texts /\ r \in Nat
    BY <1>1, <1>2, <1>4, <1>5
  <2> HIDE DEF before, s
  <2>2. Good(s, IF output = << >> THEN recorded ELSE recorded \cup {r}, bodies)
    BY ONLY <2>1, WithTurnStep
  <2> QED BY <1>2, <2>2
<1> HIDE DEF s
<1>8. Good(session', recorded \cup {r}, bodies)
  BY <1>1, <1>2, <1>3, <1>7, DispatchedStep
<1>9. /\ requests' \in Seq(Handlers) /\ Ids' = Ids
      /\ requests'[r] = h /\ \A q \in Ids : q # r => requests'[q] = requests[q]
  BY <1>3, <1>6, OneHandler DEF IInv
<1>10. Recorded' = recorded \cup {r}
  <2>1. \A q \in Ids : requests'[q].output # << >> <=> requests[q].output # << >> \/ q = r
    BY <1>2, <1>6, <1>9
  <2> QED BY <2>1, <1>9 DEF Recorded, recorded
<1>11. Bodies' = bodies
  <2>1. \A q \in Ids : requests'[q].body = requests[q].body
    BY <1>6, <1>9
  <2> QED BY <1>9, <2>1 DEF Bodies, bodies
<1>12. \A q \in Ids : q # r => ~At(q, {"generating", "aborting"})
  BY <1>1 DEF IInv, HandlersInv, Holding, At
<1>13. SessionInv'
  <2>1. \A q \in Ids' : ~At(q, {"generating"})'
    BY <1>6, <1>9, <1>12 DEF At
  <2> QED BY <2>1, <1>8, <1>10, <1>11 DEF SessionInv, Good
<1>14. HandlersInv'
  <2>1. \A q \in Ids' : (requests[q].locked)' <=> At(q, {"generating", "aborting"})'
    BY <1>6, <1>9 DEF IInv, HandlersInv, At
  <2>2. \A p, q \in Holding' : p = q
    BY <1>6, <1>9, <1>12 DEF Holding, At
  <2>3. \A q \in Ids' :
          At(q, {"arriving", "lock", "generating", "aborting"})' => (requests[q].output)' = << >>
    BY <1>6, <1>9 DEF IInv, HandlersInv, At
  <2> QED BY <2>1, <2>2, <2>3 DEF HandlersInv
<1>15. EnteringInv' /\ FinishInv'
  <2>1. h.late = requests[r].late
    BY <1>1 DEF h, Handlers
  <2>2. \A q \in Ids : /\ requests'[q].late = requests[q].late
                       /\ requests'[q].pc = "arriving" <=> requests[q].pc = "arriving"
                       /\ requests'[q].pc \in Working => requests[q].pc \in Working
    BY <1>1, <1>6, <1>9, <2>1 DEF Working
  <2>3. r \in Ids /\ At(r, Working)
    BY <1>1 DEF At, Working
  <2> QED BY <1>1, <1>9, <1>10, <2>2, <2>3, FinishKept DEF IInv, recorded
<1>16. TypeOK'
  BY <1>1, <1>8, <1>9 DEF IInv, TypeOK, Good
<1> QED BY <1>13, <1>14, <1>15, <1>16 DEF IInv

-----------------------------------------------------------------------------
\* A new session shows nothing and has recorded nothing.
LEMMA InitIInv == Init => IInv
<1> SUFFICES ASSUME Init PROVE IInv
  OBVIOUS
<1>1. NewChain \in Chain /\ NewChain.turns = << >> /\ NewChain.seen = << >>
  BY DEF NewChain, Chain, Systems, History
<1>2. /\ session.main = NewChain /\ session.sub = NewChain /\ session.segments = << >>
      /\ ~session.armed /\ session \in Sessions
  BY <1>1 DEF Init, NewSession, Sessions, NoDispatch
<1>3. requests = << >> /\ Ids = {}
  BY DEF Init, Ids
<1>4. TypeOK
  <2> DEFINE history == <<User("question", "main", 0, NoDispatch)>>
             nothing == << >>
  <2>1. history \in History /\ nothing \in History
    BY UserType DEF History, NoDispatch, Conversations
  <2>2. client = [main |-> history, sub |-> nothing, dispatch |-> NoDispatch, tools |-> 1]
    BY DEF Init
  <2> HIDE DEF history, nothing
  <2>3. client \in [main : History, sub : History, dispatch : Nat, tools : 1 .. 2]
    BY <2>1, <2>2 DEF NoDispatch
  <2>4. requests \in Seq(Handlers) /\ frozen \in Seq(Segment)
    BY <1>3 DEF Init
  <2>5. /\ protocol \in {"anthropic", "openai"} /\ closed \in BOOLEAN
        /\ finish \in [Calls -> {"no", "waiting", "done", "raised", "given_up"}]
        /\ awaited \in [Calls -> SUBSET Nat]
    BY DEF Init
  <2> QED BY <1>2, <2>3, <2>4, <2>5 DEF TypeOK
<1>5. HandlersInv /\ EnteringInv /\ FinishInv
  BY <1>3 DEF Init, HandlersInv, EnteringInv, FinishInv, Holding, Entering, Calls
<1>6. SessionInv
  <2>1. Recorded = {}
    BY <1>3 DEF Recorded
  <2>2. Whole(session, {})
    BY <1>1, <1>2, NoTurns DEF Whole, InSegments
  <2>3. ChainShows(NewChain, Bodies)
    BY <1>1, NoTurns DEF ChainShows
  <2>4. SessionShows(session, Bodies)
    BY <1>1, <1>2, <2>3 DEF SessionShows
  <2> QED BY <1>3, <2>1, <2>2, <2>4 DEF SessionInv
<1> QED BY <1>4, <1>5, <1>6 DEF IInv

\* Every step keeps the inductive invariant.
LEMMA NextIInv == IInv /\ [Next]_vars => IInv'
<1> SUFFICES ASSUME IInv, [Next]_vars PROVE IInv'
  OBVIOUS
<1>1. ASSUME NEW conversation \in Conversations, Arrive(conversation) PROVE IInv'
  BY <1>1, ArriveStep
<1>2. ASSUME NEW r \in Ids, Handler(r) PROVE IInv'
  BY <1>2, RegisterStep, AcquireStep, AnswerStep, FailStep, DisconnectStep, CancelArrivesStep,
     AbortPostedStep, StrayEndsStep, DeliverStep DEF Handler
<1>3. CASE UNCHANGED vars
  <2>1. client' \in [main : History, sub : History, dispatch : Nat, tools : 1 .. 2]
    BY <1>3 DEF vars, IInv, TypeOK
  <2> QED BY <1>3, <2>1, AgentAlone DEF vars
<1>4. ASSUME NEW call \in Calls, BeginFinish(call) \/ WaitOver(call) \/ TimeOut(call) PROVE IInv'
  BY <1>4, BeginFinishStep, WaitOverStep, TimeOutStep
<1> QED BY <1>1, <1>2, <1>3, <1>4, EndSubStep, CompactStep, GuardExpiresStep DEF Next

\* The inductive invariant holds of every behaviour.
THEOREM Inductive == Spec => []IInv
  BY InitIInv, NextIInv, PTL DEF Spec

\* The session, its handlers and the agent keep their types.
THEOREM TypeCorrect == Spec => []TypeOK
<1>1. IInv => TypeOK
  BY DEF IInv
<1> QED BY <1>1, Inductive, PTL

\* However the requests of an agent come in, are retried, cancelled or fail, and however
\* the two threads interleave, every answer of the engine is in exactly one segment; one
\* handler at most escapes the closing of its session, and a drained session lacks
\* nothing but the turn of that one.
THEOREM DrainedWholeCorrect == Spec => []DrainedWhole
<1>1. IInv => DrainedWhole
  <2> SUFFICES ASSUME IInv PROVE DrainedWhole
    OBVIOUS
  <2>1. /\ AllSegments \in Seq(Segment) /\ Apiece(AllSegments)
        /\ InSegments(AllSegments) = Recorded
    BY DrainedType, DrainedNow DEF AllSegments
  <2>2. IsWhole(AllSegments)
    BY <2>1, AnswersApiece DEF IsWhole
  <2>3. \A q, r \in Stragglers : q = r
    <3> SUFFICES ASSUME NEW q \in Stragglers, NEW r \in Stragglers PROVE q = r
      OBVIOUS
    <3>1. /\ q \in Ids /\ (requests[q].late \/ q \in Entering)
          /\ r \in Ids /\ (requests[r].late \/ r \in Entering)
      BY DEF Stragglers, Entering
    <3> QED BY <3>1 DEF IInv, EnteringInv
  <2>4. ASSUME finish["try"] = "done"
        PROVE  /\ \A r \in Ids : At(r, Working) => r \in Stragglers
               /\ Recorded \ Range(Answers(frozen)) \subseteq Stragglers
               /\ Stragglers = {} => IsWhole(frozen)
    <3>1. /\ \A r \in Ids : At(r, Working) => r \in Stragglers
          /\ Apiece(frozen) /\ InSegments(frozen) \subseteq Recorded
          /\ Recorded \ InSegments(frozen) \subseteq Stragglers
      BY <2>4 DEF IInv, FinishInv
    <3>2. IsInjective(Answers(frozen)) /\ Range(Answers(frozen)) = InSegments(frozen)
      BY <3>1, AnswersApiece DEF IInv, TypeOK
    <3>3. Stragglers = {} => IsWhole(frozen)
      BY <3>1, <3>2 DEF IsWhole
    <3> QED BY <3>1, <3>2, <3>3
  <2> QED BY <2>2, <2>3, <2>4 DEF DrainedWhole
<1> QED BY <1>1, Inductive, PTL

\* The turns of a segment are one conversation, for every template: the argument
\* uses nothing of what RenderTokenIds does.
THEOREM OneConversationCorrect == Spec => []OneConversation
<1>1. IInv => OneConversation
  <2> SUFFICES ASSUME IInv PROVE OneConversation
    OBVIOUS
  <2>1. session \in Sessions /\ Whole(session, Recorded) /\ SessionShows(session, Bodies)
    BY DEF IInv, TypeOK, SessionInv
  <2>2. \A i \in DOMAIN AllSegments : Coherent(AllSegments[i].turns, Bodies)
    BY <2>1, DrainedFacts DEF AllSegments
  <2>3. InSegments(AllSegments) \subseteq Ids
    BY <2>1, DrainedFacts DEF AllSegments, Recorded
  <2>4. \A i \in DOMAIN AllSegments : \A k \in Answered(AllSegments[i].turns) :
          Bodies[Request(AllSegments[i].turns[k])] = requests[Request(AllSegments[i].turns[k])].body
    BY <2>3 DEF InSegments, Of, Bodies
  <2> QED BY <2>2, <2>4 DEF OneConversation, Coherent, Shows, Continued
<1> QED BY <1>1, Inductive, PTL

-----------------------------------------------------------------------------
(* What merge_turns() has of a segment, on the way through its turns. *)

\* The tokens of a segment with their masks and log-probs, and where the outputs are.
Replays(T) ==
  {seg \in [prompt_ids : Seq(T), response_ids : Seq(T), loss_mask : Seq({0, 1}),
            rollout_log_probs : Seq(T \cup {NoProb}), output_spans : SUBSET (Nat \X Nat)] :
     /\ Len(seg.loss_mask) = Len(seg.response_ids)
     /\ Len(seg.rollout_log_probs) = Len(seg.response_ids)
     /\ \A span \in seg.output_spans : span[1] <= span[2] /\ span[2] <= Len(seg.response_ids)}

\* The segment reads as ids.
Reads(seg, ids) ==
  /\ Len(ids) = Len(seg.prompt_ids) + Len(seg.response_ids)
  /\ \A k \in 1 .. Len(seg.prompt_ids) : ids[k] = seg.prompt_ids[k]
  /\ \A k \in 1 .. Len(seg.response_ids) : ids[Len(seg.prompt_ids) + k] = seg.response_ids[k]

\* The mask covers the intervals of whole, and nothing else;
Masked(seg, whole) ==
  \A k \in 1 .. Len(seg.response_ids) :
    seg.loss_mask[k] = 1 <=>
      \E out \in whole : out[1] < Len(seg.prompt_ids) + k /\ Len(seg.prompt_ids) + k <= out[2]

\* what it covers has its log-prob.
Scored(seg) ==
  \A k \in 1 .. Len(seg.response_ids) :
    seg.rollout_log_probs[k] = IF seg.loss_mask[k] = 1 THEN seg.response_ids[k] ELSE NoProb

\* The outputs do not overlap, and the whole ones are among them.
Apart(spans) == \A s, c \in spans : s = c \/ s[2] <= c[1] \/ c[2] <= s[1]

Covered(seg, whole) ==
  \A out \in whole :
    /\ Len(seg.prompt_ids) <= out[1] /\ out[1] < out[2]
    /\ <<out[1] - Len(seg.prompt_ids), out[2] - Len(seg.prompt_ids)>> \in seg.output_spans

\* A segment as it is to be when it reads as ids and is trained on the intervals
\* of whole; merge_turns() keeps it so from turn to turn.
Sound(seg, ids, whole, T) ==
  /\ seg \in Replays(T) /\ ids \in Seq(T) /\ whole \subseteq Nat \X Nat
  /\ Reads(seg, ids) /\ Masked(seg, whole) /\ Scored(seg)
  /\ Apart(seg.output_spans) /\ Covered(seg, whole)

\* z is x and then y.
IsJoin(z, x, y, T) ==
  /\ z \in Seq(T) /\ Len(x) \in Nat /\ Len(y) \in Nat /\ Len(z) = Len(x) + Len(y)
  /\ \A k \in 1 .. Len(x) : z[k] = x[k]
  /\ \A k \in 1 .. Len(y) : z[Len(x) + k] = y[k]

\* Two sequences are joined by \o.
LEMMA Behind ==
  ASSUME NEW T, NEW x \in Seq(T), NEW y \in Seq(T), NEW z, z = x \o y
  PROVE  IsJoin(z, x, y, T)
  BY DEF IsJoin

\* The same value, again and again.
LEMMA RepeatedFacts ==
  ASSUME NEW n \in Nat, NEW T, NEW x \in T
  PROVE  Repeated(x, n) \in Seq(T) /\ Len(Repeated(x, n)) = n /\ \A k \in 1 .. n : Repeated(x, n)[k] = x
  BY DEF Repeated

\* What there is of a segment.
LEMMA ReplayFacts ==
  ASSUME NEW T, NEW seg \in Replays(T)
  PROVE  /\ seg.prompt_ids \in Seq(T) /\ seg.response_ids \in Seq(T)
         /\ seg.loss_mask \in Seq({0, 1}) /\ seg.rollout_log_probs \in Seq(T \cup {NoProb})
         /\ seg.output_spans \in SUBSET (Nat \X Nat)
         /\ Len(seg.prompt_ids) \in Nat /\ Len(seg.response_ids) \in Nat
         /\ Len(seg.loss_mask) = Len(seg.response_ids)
         /\ Len(seg.rollout_log_probs) = Len(seg.response_ids)
         /\ \A span \in seg.output_spans :
              /\ span = <<span[1], span[2]>> /\ span[1] \in Nat /\ span[2] \in Nat
              /\ span[1] <= span[2] /\ span[2] <= Len(seg.response_ids)
         /\ \A k \in 1 .. Len(seg.response_ids) :
              /\ seg.response_ids[k] \in T /\ seg.loss_mask[k] \in {0, 1}
              /\ seg.rollout_log_probs[k] \in T \cup {NoProb}
<1>1. /\ seg.prompt_ids \in Seq(T) /\ seg.response_ids \in Seq(T)
      /\ seg.loss_mask \in Seq({0, 1}) /\ seg.rollout_log_probs \in Seq(T \cup {NoProb})
      /\ seg.output_spans \in SUBSET (Nat \X Nat)
      /\ Len(seg.loss_mask) = Len(seg.response_ids)
      /\ Len(seg.rollout_log_probs) = Len(seg.response_ids)
      /\ \A span \in seg.output_spans : span[1] <= span[2] /\ span[2] <= Len(seg.response_ids)
  BY DEF Replays
<1>2. Len(seg.prompt_ids) \in Nat /\ Len(seg.response_ids) \in Nat
  BY <1>1
<1>3. \A span \in seg.output_spans : span = <<span[1], span[2]>> /\ span[1] \in Nat /\ span[2] \in Nat
  BY <1>1
<1>4. \A k \in 1 .. Len(seg.response_ids) :
        /\ seg.response_ids[k] \in T /\ seg.loss_mask[k] \in {0, 1}
        /\ seg.rollout_log_probs[k] \in T \cup {NoProb}
  BY <1>1
<1> QED BY <1>1, <1>2, <1>3, <1>4

\* A segment of these parts.
LEMMA ReplayOf ==
  ASSUME NEW T, NEW prompt \in Seq(T), NEW response \in Seq(T), NEW mask \in Seq({0, 1}),
         NEW probs \in Seq(T \cup {NoProb}), NEW spans \in SUBSET (Nat \X Nat),
         Len(mask) = Len(response), Len(probs) = Len(response),
         \A span \in spans : span[1] <= span[2] /\ span[2] <= Len(response)
  PROVE  [prompt_ids |-> prompt, response_ids |-> response, loss_mask |-> mask,
          rollout_log_probs |-> probs, output_spans |-> spans] \in Replays(T)
  BY DEF Replays

\* A segment is its parts.
LEMMA ReplayIs ==
  ASSUME NEW T, NEW seg \in Replays(T)
  PROVE  seg = [prompt_ids |-> seg.prompt_ids, response_ids |-> seg.response_ids,
                loss_mask |-> seg.loss_mask, rollout_log_probs |-> seg.rollout_log_probs,
                output_spans |-> seg.output_spans]
  BY DEF Replays

\* A segment has five fields.
Fields == {"prompt_ids", "response_ids", "loss_mask", "rollout_log_probs", "output_spans"}

\* A segment is the function of its fields.
LEMMA FieldsOf ==
  ASSUME NEW T, NEW seg \in Replays(T)
  PROVE  seg = [name \in Fields |-> seg[name]]
<1>1. seg \in [prompt_ids : Seq(T), response_ids : Seq(T), loss_mask : Seq({0, 1}),
               rollout_log_probs : Seq(T \cup {NoProb}), output_spans : SUBSET (Nat \X Nat)]
  BY DEF Replays
<1> QED BY <1>1 DEF Fields

\* A prompt alone.
LEMMA FreshSound ==
  ASSUME NEW T, NEW prompt \in Seq(T)
  PROVE  Sound(EmptySegment(prompt), prompt, {}, T)
<1> DEFINE seg == EmptySegment(prompt)
           none == << >>
<1>1. none \in Seq(T) /\ none \in Seq({0, 1}) /\ none \in Seq(T \cup {NoProb}) /\ Len(none) = 0
  OBVIOUS
<1>2. seg = [prompt_ids |-> prompt, response_ids |-> none, loss_mask |-> none,
             rollout_log_probs |-> none, output_spans |-> {}]
  BY DEF EmptySegment
<1> HIDE DEF none, seg
<1>3. seg \in Replays(T)
  BY <1>1, <1>2, ReplayOf
<1>4. seg.prompt_ids = prompt /\ Len(seg.response_ids) = 0 /\ seg.output_spans = {}
  BY <1>1, <1>2
<1>5. Len(prompt) \in Nat /\ Len(prompt) + 0 = Len(prompt)
  OBVIOUS
<1> QED BY <1>3, <1>4, <1>5 DEF Sound, Reads, Masked, Scored, Apart, Covered, seg

\* Context behind a segment,
LEMMA ContextFacts ==
  ASSUME NEW T, NEW seg \in Replays(T), NEW ids \in Seq(T)
  PROVE  LET t == WithContext(seg, ids)
             n == Len(seg.response_ids)
         IN  /\ t \in Replays(T)
             /\ t.prompt_ids = seg.prompt_ids /\ t.output_spans = seg.output_spans
             /\ Len(t.response_ids) = n + Len(ids)
             /\ \A k \in 1 .. n :
                  /\ t.response_ids[k] = seg.response_ids[k] /\ t.loss_mask[k] = seg.loss_mask[k]
                  /\ t.rollout_log_probs[k] = seg.rollout_log_probs[k]
             /\ \A k \in 1 .. Len(ids) :
                  /\ t.response_ids[n + k] = ids[k] /\ t.loss_mask[n + k] = 0
                  /\ t.rollout_log_probs[n + k] = NoProb
<1>0. /\ seg.prompt_ids \in Seq(T) /\ seg.response_ids \in Seq(T)
      /\ seg.loss_mask \in Seq({0, 1}) /\ seg.rollout_log_probs \in Seq(T \cup {NoProb})
      /\ seg.output_spans \in SUBSET (Nat \X Nat)
      /\ Len(seg.prompt_ids) \in Nat /\ Len(seg.response_ids) \in Nat
      /\ Len(seg.loss_mask) = Len(seg.response_ids)
      /\ Len(seg.rollout_log_probs) = Len(seg.response_ids)
      /\ \A span \in seg.output_spans :
           /\ span = <<span[1], span[2]>> /\ span[1] \in Nat /\ span[2] \in Nat
           /\ span[1] <= span[2] /\ span[2] <= Len(seg.response_ids)
      /\ \A k \in 1 .. Len(seg.response_ids) :
           /\ seg.response_ids[k] \in T /\ seg.loss_mask[k] \in {0, 1}
           /\ seg.rollout_log_probs[k] \in T \cup {NoProb}
  BY ReplayFacts
<1> DEFINE t == WithContext(seg, ids)
           n == Len(seg.response_ids)
           l == Len(ids)
           response == seg.response_ids \o ids
           mask == seg.loss_mask \o Repeated(0, l)
           probs == seg.rollout_log_probs \o Repeated(NoProb, l)
<1>1. /\ seg.prompt_ids \in Seq(T) /\ seg.response_ids \in Seq(T)
      /\ seg.loss_mask \in Seq({0, 1}) /\ seg.rollout_log_probs \in Seq(T \cup {NoProb})
      /\ seg.output_spans \in SUBSET (Nat \X Nat)
      /\ n \in Nat /\ Len(seg.loss_mask) = n /\ Len(seg.rollout_log_probs) = n /\ l \in Nat
      /\ \A span \in seg.output_spans :
           span[1] \in Nat /\ span[2] \in Nat /\ span[1] <= span[2] /\ span[2] <= n
  BY <1>0
<1>2. t = [prompt_ids |-> seg.prompt_ids, response_ids |-> response, loss_mask |-> mask,
           rollout_log_probs |-> probs, output_spans |-> seg.output_spans]
  <2>1. t = [seg EXCEPT !.response_ids = response, !.loss_mask = mask, !.rollout_log_probs = probs]
    BY DEF WithContext
  <2> HIDE DEF t, response, mask, probs
  <2>2. seg = [name \in Fields |-> seg[name]]
    BY FieldsOf
  <2>3. t = [name \in Fields |-> t[name]]
    BY <2>1, <2>2 DEF Fields
  <2>4. /\ t["prompt_ids"] = seg["prompt_ids"] /\ t["response_ids"] = response
        /\ t["loss_mask"] = mask /\ t["rollout_log_probs"] = probs
        /\ t["output_spans"] = seg["output_spans"]
    BY <2>1, <2>2 DEF Fields
  <2> QED BY <2>3, <2>4 DEF Fields
<1>3. /\ Repeated(0, l) \in Seq({0, 1}) /\ Len(Repeated(0, l)) = l
      /\ \A k \in 1 .. l : Repeated(0, l)[k] = 0
  BY <1>1, RepeatedFacts
<1>4. /\ Repeated(NoProb, l) \in Seq(T \cup {NoProb}) /\ Len(Repeated(NoProb, l)) = l
      /\ \A k \in 1 .. l : Repeated(NoProb, l)[k] = NoProb
  BY <1>1, RepeatedFacts
<1>5. /\ response \in Seq(T) /\ Len(response) = n + l
      /\ \A k \in 1 .. n : response[k] = seg.response_ids[k]
      /\ \A k \in 1 .. l : response[n + k] = ids[k]
  <2>1. IsJoin(response, seg.response_ids, ids, T)
    BY <1>1, Behind
  <2> QED BY <2>1 DEF IsJoin
<1>6. /\ mask \in Seq({0, 1}) /\ Len(mask) = n + l
      /\ \A k \in 1 .. n : mask[k] = seg.loss_mask[k]
      /\ \A k \in 1 .. l : mask[n + k] = 0
  <2> DEFINE x == seg.loss_mask
             y == Repeated(0, l)
             z == mask
             S == {0, 1}
  <2>1. x \in Seq(S) /\ y \in Seq(S) /\ z = x \o y /\ Len(x) = n /\ Len(y) = l
    BY <1>1, <1>3
  <2> HIDE DEF x, y, z, S, n, l
  <2>2. IsJoin(z, x, y, S)
    BY <2>1, Behind
  <2>3. /\ z \in Seq(S) /\ Len(z) = n + l
        /\ \A k \in 1 .. n : z[k] = x[k]
        /\ \A k \in 1 .. l : z[n + k] = y[k]
    BY <2>1, <2>2 DEF IsJoin
  <2> HIDE DEF mask, probs
  <2> QED BY <2>3, <1>3 DEF x, y, z, S
<1>7. /\ probs \in Seq(T \cup {NoProb}) /\ Len(probs) = n + l
      /\ \A k \in 1 .. n : probs[k] = seg.rollout_log_probs[k]
      /\ \A k \in 1 .. l : probs[n + k] = NoProb
  <2> DEFINE x == seg.rollout_log_probs
             y == Repeated(NoProb, l)
             z == probs
             S == T \cup {NoProb}
  <2>1. x \in Seq(S) /\ y \in Seq(S) /\ z = x \o y /\ Len(x) = n /\ Len(y) = l
    BY <1>1, <1>4
  <2> HIDE DEF x, y, z, S, n, l
  <2>2. IsJoin(z, x, y, S)
    BY <2>1, Behind
  <2>3. /\ z \in Seq(S) /\ Len(z) = n + l
        /\ \A k \in 1 .. n : z[k] = x[k]
        /\ \A k \in 1 .. l : z[n + k] = y[k]
    BY <2>1, <2>2 DEF IsJoin
  <2> HIDE DEF mask, probs
  <2> QED BY <2>3, <1>4 DEF x, y, z, S
<1> HIDE DEF t, response, mask, probs, n, l
<1>8. \A span \in seg.output_spans : span[1] <= span[2] /\ span[2] <= n + l
  BY <1>1
<1>9. t \in Replays(T)
  <2> DEFINE prompt == seg.prompt_ids
             spans == seg.output_spans
  <2>1. /\ prompt \in Seq(T) /\ response \in Seq(T) /\ mask \in Seq({0, 1})
        /\ probs \in Seq(T \cup {NoProb}) /\ spans \in SUBSET (Nat \X Nat)
        /\ Len(mask) = Len(response) /\ Len(probs) = Len(response)
    BY <1>1, <1>5, <1>6, <1>7
  <2>2. \A span \in spans : span[1] <= span[2] /\ span[2] <= Len(response)
    BY <1>5, <1>8
  <2>3. t = [prompt_ids |-> prompt, response_ids |-> response, loss_mask |-> mask,
             rollout_log_probs |-> probs, output_spans |-> spans]
    BY <1>2
  <2> HIDE DEF prompt, spans
  <2> QED BY <2>1, <2>2, <2>3, ReplayOf
<1>10. /\ t.prompt_ids = seg.prompt_ids /\ t.output_spans = seg.output_spans
       /\ t.response_ids = response /\ t.loss_mask = mask /\ t.rollout_log_probs = probs
  BY <1>2
<1> QED BY <1>5, <1>6, <1>7, <1>9, <1>10 DEF t, n, l

\* an output behind it,
LEMMA WithOutputFacts ==
  ASSUME NEW T, NEW seg \in Replays(T), NEW ids \in Seq(T)
  PROVE  LET t == WithOutput(seg, ids)
             n == Len(seg.response_ids)
         IN  /\ t \in Replays(T)
             /\ t.prompt_ids = seg.prompt_ids
             /\ t.output_spans = seg.output_spans \cup {<<n, n + Len(ids)>>}
             /\ Len(t.response_ids) = n + Len(ids)
             /\ \A k \in 1 .. n :
                  /\ t.response_ids[k] = seg.response_ids[k] /\ t.loss_mask[k] = seg.loss_mask[k]
                  /\ t.rollout_log_probs[k] = seg.rollout_log_probs[k]
             /\ \A k \in 1 .. Len(ids) :
                  /\ t.response_ids[n + k] = ids[k] /\ t.loss_mask[n + k] = 1
                  /\ t.rollout_log_probs[n + k] = ids[k]
<1>0. /\ seg.prompt_ids \in Seq(T) /\ seg.response_ids \in Seq(T)
      /\ seg.loss_mask \in Seq({0, 1}) /\ seg.rollout_log_probs \in Seq(T \cup {NoProb})
      /\ seg.output_spans \in SUBSET (Nat \X Nat)
      /\ Len(seg.prompt_ids) \in Nat /\ Len(seg.response_ids) \in Nat
      /\ Len(seg.loss_mask) = Len(seg.response_ids)
      /\ Len(seg.rollout_log_probs) = Len(seg.response_ids)
      /\ \A span \in seg.output_spans :
           /\ span = <<span[1], span[2]>> /\ span[1] \in Nat /\ span[2] \in Nat
           /\ span[1] <= span[2] /\ span[2] <= Len(seg.response_ids)
      /\ \A k \in 1 .. Len(seg.response_ids) :
           /\ seg.response_ids[k] \in T /\ seg.loss_mask[k] \in {0, 1}
           /\ seg.rollout_log_probs[k] \in T \cup {NoProb}
  BY ReplayFacts
<1> DEFINE t == WithOutput(seg, ids)
           n == Len(seg.response_ids)
           l == Len(ids)
           response == seg.response_ids \o ids
           mask == seg.loss_mask \o Repeated(1, l)
           probs == seg.rollout_log_probs \o ids
           spans == seg.output_spans \cup {<<n, n + l>>}
<1>1. /\ seg.prompt_ids \in Seq(T) /\ seg.response_ids \in Seq(T)
      /\ seg.loss_mask \in Seq({0, 1}) /\ seg.rollout_log_probs \in Seq(T \cup {NoProb})
      /\ seg.output_spans \in SUBSET (Nat \X Nat)
      /\ n \in Nat /\ Len(seg.loss_mask) = n /\ Len(seg.rollout_log_probs) = n /\ l \in Nat
      /\ \A span \in seg.output_spans :
           span[1] \in Nat /\ span[2] \in Nat /\ span[1] <= span[2] /\ span[2] <= n
  BY <1>0
<1>2. t = [prompt_ids |-> seg.prompt_ids, response_ids |-> response, loss_mask |-> mask,
           rollout_log_probs |-> probs, output_spans |-> spans]
  <2>1. t = [seg EXCEPT !.response_ids = response, !.loss_mask = mask,
                        !.rollout_log_probs = probs, !.output_spans = spans]
    BY DEF WithOutput
  <2> HIDE DEF t, response, mask, probs, spans
  <2>2. seg = [name \in Fields |-> seg[name]]
    BY FieldsOf
  <2>3. t = [name \in Fields |-> t[name]]
    BY <2>1, <2>2 DEF Fields
  <2>4. /\ t["prompt_ids"] = seg["prompt_ids"] /\ t["response_ids"] = response
        /\ t["loss_mask"] = mask /\ t["rollout_log_probs"] = probs
        /\ t["output_spans"] = spans
    BY <2>1, <2>2 DEF Fields
  <2> QED BY <2>3, <2>4 DEF Fields
<1>3. /\ Repeated(1, l) \in Seq({0, 1}) /\ Len(Repeated(1, l)) = l
      /\ \A k \in 1 .. l : Repeated(1, l)[k] = 1
  BY <1>1, RepeatedFacts
<1>4. ids \in Seq(T \cup {NoProb})
  OBVIOUS
<1>5. /\ response \in Seq(T) /\ Len(response) = n + l
      /\ \A k \in 1 .. n : response[k] = seg.response_ids[k]
      /\ \A k \in 1 .. l : response[n + k] = ids[k]
  <2>1. IsJoin(response, seg.response_ids, ids, T)
    BY <1>1, Behind
  <2> QED BY <2>1 DEF IsJoin
<1>6. /\ mask \in Seq({0, 1}) /\ Len(mask) = n + l
      /\ \A k \in 1 .. n : mask[k] = seg.loss_mask[k]
      /\ \A k \in 1 .. l : mask[n + k] = 1
  <2> DEFINE x == seg.loss_mask
             y == Repeated(1, l)
             z == mask
             S == {0, 1}
  <2>1. x \in Seq(S) /\ y \in Seq(S) /\ z = x \o y /\ Len(x) = n /\ Len(y) = l
    BY <1>1, <1>3
  <2> HIDE DEF x, y, z, S, n, l
  <2>2. IsJoin(z, x, y, S)
    BY <2>1, Behind
  <2>3. /\ z \in Seq(S) /\ Len(z) = n + l
        /\ \A k \in 1 .. n : z[k] = x[k]
        /\ \A k \in 1 .. l : z[n + k] = y[k]
    BY <2>1, <2>2 DEF IsJoin
  <2> HIDE DEF mask, probs
  <2> QED BY <2>3, <1>3 DEF x, y, z, S
<1>7. /\ probs \in Seq(T \cup {NoProb}) /\ Len(probs) = n + l
      /\ \A k \in 1 .. n : probs[k] = seg.rollout_log_probs[k]
      /\ \A k \in 1 .. l : probs[n + k] = ids[k]
  <2> DEFINE x == seg.rollout_log_probs
             y == ids
             z == probs
             S == T \cup {NoProb}
  <2>1. x \in Seq(S) /\ y \in Seq(S) /\ z = x \o y /\ Len(x) = n /\ Len(y) = l
    BY <1>1, <1>4
  <2> HIDE DEF x, y, z, S, n, l
  <2>2. IsJoin(z, x, y, S)
    BY <2>1, Behind
  <2>3. /\ z \in Seq(S) /\ Len(z) = n + l
        /\ \A k \in 1 .. n : z[k] = x[k]
        /\ \A k \in 1 .. l : z[n + k] = y[k]
    BY <2>1, <2>2 DEF IsJoin
  <2> HIDE DEF mask, probs
  <2> QED BY <2>3, <1>4 DEF x, y, z, S
<1> HIDE DEF t, response, mask, probs, n, l
<1>8. \A span \in spans : span[1] <= span[2] /\ span[2] <= n + l
  BY <1>1
<1>81. spans \in SUBSET (Nat \X Nat)
  BY <1>1
<1> HIDE DEF spans
<1>9. t \in Replays(T)
  <2> DEFINE prompt == seg.prompt_ids
  <2>1. /\ prompt \in Seq(T) /\ response \in Seq(T) /\ mask \in Seq({0, 1})
        /\ probs \in Seq(T \cup {NoProb}) /\ spans \in SUBSET (Nat \X Nat)
        /\ Len(mask) = Len(response) /\ Len(probs) = Len(response)
    BY <1>1, <1>5, <1>6, <1>7, <1>81
  <2>2. \A span \in spans : span[1] <= span[2] /\ span[2] <= Len(response)
    BY <1>5, <1>8
  <2>3. t = [prompt_ids |-> prompt, response_ids |-> response, loss_mask |-> mask,
             rollout_log_probs |-> probs, output_spans |-> spans]
    BY <1>2
  <2> HIDE DEF prompt
  <2> QED BY <2>1, <2>2, <2>3, ReplayOf
<1>10. /\ t.prompt_ids = seg.prompt_ids /\ t.output_spans = spans
       /\ t.response_ids = response /\ t.loss_mask = mask /\ t.rollout_log_probs = probs
  BY <1>2
<1> QED BY <1>5, <1>6, <1>7, <1>9, <1>10 DEF t, n, l, spans

\* t is the first m tokens of the response of seg.
IsTruncated(t, seg, m, T) ==
  LET Blank(k) == \E span \in seg.output_spans : span[1] < m /\ m < span[2] /\ span[1] < k
  IN  /\ t \in Replays(T)
      /\ t.prompt_ids = seg.prompt_ids
      /\ t.output_spans = {<<span[1], IF span[2] < m THEN span[2] ELSE m>> :
                             span \in {s \in seg.output_spans : s[1] < m}}
      /\ Len(t.response_ids) = m
      /\ \A k \in 1 .. m :
           /\ t.response_ids[k] = seg.response_ids[k]
           /\ t.loss_mask[k] = IF Blank(k) THEN 0 ELSE seg.loss_mask[k]
           /\ t.rollout_log_probs[k] = IF Blank(k) THEN NoProb ELSE seg.rollout_log_probs[k]

\* and its first tokens.
LEMMA TruncatedFacts ==
  ASSUME NEW T, NEW seg \in Replays(T), NEW m \in 0 .. Len(seg.response_ids)
  PROVE  IsTruncated(Truncated(seg, m), seg, m, T)
<1>0. /\ seg.prompt_ids \in Seq(T) /\ seg.response_ids \in Seq(T)
      /\ seg.loss_mask \in Seq({0, 1}) /\ seg.rollout_log_probs \in Seq(T \cup {NoProb})
      /\ seg.output_spans \in SUBSET (Nat \X Nat)
      /\ Len(seg.prompt_ids) \in Nat /\ Len(seg.response_ids) \in Nat
      /\ Len(seg.loss_mask) = Len(seg.response_ids)
      /\ Len(seg.rollout_log_probs) = Len(seg.response_ids)
      /\ \A span \in seg.output_spans :
           /\ span = <<span[1], span[2]>> /\ span[1] \in Nat /\ span[2] \in Nat
           /\ span[1] <= span[2] /\ span[2] <= Len(seg.response_ids)
      /\ \A k \in 1 .. Len(seg.response_ids) :
           /\ seg.response_ids[k] \in T /\ seg.loss_mask[k] \in {0, 1}
           /\ seg.rollout_log_probs[k] \in T \cup {NoProb}
  BY ReplayFacts
<1> DEFINE t == Truncated(seg, m)
           n == Len(seg.response_ids)
           Blank(k) == \E span \in seg.output_spans :
                         span[1] < m /\ m < span[2] /\ span[1] < k
           Cut(k) == \E span \in CutSpans(seg, m) : span[1] < k
           response == SubSeq(seg.response_ids, 1, m)
           mask == [k \in 1 .. m |-> IF Cut(k) THEN 0 ELSE seg.loss_mask[k]]
           probs == [k \in 1 .. m |-> IF Cut(k) THEN NoProb ELSE seg.rollout_log_probs[k]]
           spans == {<<span[1], IF span[2] < m THEN span[2] ELSE m>> :
                       span \in {s \in seg.output_spans : s[1] < m}}
<1>1. /\ seg.prompt_ids \in Seq(T) /\ seg.response_ids \in Seq(T)
      /\ seg.loss_mask \in Seq({0, 1}) /\ seg.rollout_log_probs \in Seq(T \cup {NoProb})
      /\ seg.output_spans \in SUBSET (Nat \X Nat)
      /\ n \in Nat /\ Len(seg.loss_mask) = n /\ Len(seg.rollout_log_probs) = n
      /\ m \in Nat /\ m <= n
      /\ \A span \in seg.output_spans :
           span[1] \in Nat /\ span[2] \in Nat /\ span[1] <= span[2] /\ span[2] <= n
      /\ \A k \in 1 .. n :
           /\ seg.loss_mask[k] \in {0, 1} /\ seg.rollout_log_probs[k] \in T \cup {NoProb}
  BY <1>0
<1>2. t = [prompt_ids |-> seg.prompt_ids, response_ids |-> response, loss_mask |-> mask,
           rollout_log_probs |-> probs, output_spans |-> spans]
  <2>1. t = [seg EXCEPT !.response_ids = response, !.loss_mask = mask,
                        !.rollout_log_probs = probs, !.output_spans = spans]
    BY DEF Truncated
  <2> HIDE DEF t, response, mask, probs, spans
  <2>2. seg = [name \in Fields |-> seg[name]]
    BY FieldsOf
  <2>3. t = [name \in Fields |-> t[name]]
    BY <2>1, <2>2 DEF Fields
  <2>4. /\ t["prompt_ids"] = seg["prompt_ids"] /\ t["response_ids"] = response
        /\ t["loss_mask"] = mask /\ t["rollout_log_probs"] = probs
        /\ t["output_spans"] = spans
    BY <2>1, <2>2 DEF Fields
  <2> QED BY <2>3, <2>4 DEF Fields
<1>3. \A k : Cut(k) <=> Blank(k)
  BY DEF CutSpans
<1>5. /\ response \in Seq(T) /\ Len(response) = m
      /\ \A k \in 1 .. m : response[k] = seg.response_ids[k]
  BY <1>1
<1> HIDE DEF Cut, n
<1>6. /\ mask \in Seq({0, 1}) /\ Len(mask) = m
      /\ \A k \in 1 .. m : mask[k] = IF Cut(k) THEN 0 ELSE seg.loss_mask[k]
  <2>1. \A k \in 1 .. m : mask[k] \in {0, 1}
    BY <1>1
  <2>2. DOMAIN mask = 1 .. m /\ mask = [k \in 1 .. m |-> mask[k]]
    OBVIOUS
  <2>3. \A k \in 1 .. m : mask[k] = IF Cut(k) THEN 0 ELSE seg.loss_mask[k]
    OBVIOUS
  <2> HIDE DEF mask
  <2> QED BY <2>1, <2>2, <2>3, <1>1, SMTT(30)
<1>7. /\ probs \in Seq(T \cup {NoProb}) /\ Len(probs) = m
      /\ \A k \in 1 .. m : probs[k] = IF Cut(k) THEN NoProb ELSE seg.rollout_log_probs[k]
  <2>1. \A k \in 1 .. m : probs[k] \in T \cup {NoProb}
    BY <1>1
  <2>2. DOMAIN probs = 1 .. m /\ probs = [k \in 1 .. m |-> probs[k]]
    OBVIOUS
  <2>3. \A k \in 1 .. m : probs[k] = IF Cut(k) THEN NoProb ELSE seg.rollout_log_probs[k]
    OBVIOUS
  <2> HIDE DEF probs
  <2> QED BY <2>1, <2>2, <2>3, <1>1
<1> HIDE DEF t, response, mask, probs
<1>8. \A span \in spans : span[1] <= span[2] /\ span[2] <= m
  BY <1>1
<1>81. spans \in SUBSET (Nat \X Nat)
  BY <1>1
<1> HIDE DEF spans
<1>9. t \in Replays(T)
  <2> DEFINE prompt == seg.prompt_ids
  <2>1. /\ prompt \in Seq(T) /\ response \in Seq(T) /\ mask \in Seq({0, 1})
        /\ probs \in Seq(T \cup {NoProb}) /\ spans \in SUBSET (Nat \X Nat)
        /\ Len(mask) = Len(response) /\ Len(probs) = Len(response)
    BY <1>1, <1>5, <1>6, <1>7, <1>81
  <2>2. \A span \in spans : span[1] <= span[2] /\ span[2] <= Len(response)
    BY <1>5, <1>8
  <2>3. t = [prompt_ids |-> prompt, response_ids |-> response, loss_mask |-> mask,
             rollout_log_probs |-> probs, output_spans |-> spans]
    BY <1>2
  <2> HIDE DEF prompt
  <2> QED BY <2>1, <2>2, <2>3, ReplayOf
<1>10. /\ t.prompt_ids = seg.prompt_ids /\ t.output_spans = spans
       /\ t.response_ids = response /\ t.loss_mask = mask /\ t.rollout_log_probs = probs
  BY <1>2
<1> HIDE DEF Blank
<1>11. /\ t \in Replays(T) /\ t.prompt_ids = seg.prompt_ids /\ t.output_spans = spans
       /\ Len(t.response_ids) = m
       /\ \A k \in 1 .. m :
            /\ t.response_ids[k] = seg.response_ids[k]
            /\ t.loss_mask[k] = IF Blank(k) THEN 0 ELSE seg.loss_mask[k]
            /\ t.rollout_log_probs[k] = IF Blank(k) THEN NoProb ELSE seg.rollout_log_probs[k]
  BY <1>3, <1>5, <1>6, <1>7, <1>9, <1>10
<1> QED BY <1>11 DEF t, spans, Blank, IsTruncated

\* Context behind a segment is not trained on,
LEMMA ContextSound ==
  ASSUME NEW T, NEW seg, NEW ids, NEW whole, Sound(seg, ids, whole, T), NEW more \in Seq(T)
  PROVE  Sound(WithContext(seg, more), ids \o more, whole, T)
<1> DEFINE t == WithContext(seg, more)
           n == Len(seg.response_ids)
           p == Len(seg.prompt_ids)
           l == Len(more)
           read == ids \o more
<1>1. /\ seg \in Replays(T) /\ ids \in Seq(T) /\ whole \subseteq Nat \X Nat
      /\ Reads(seg, ids) /\ Masked(seg, whole) /\ Scored(seg)
      /\ Apart(seg.output_spans) /\ Covered(seg, whole)
  BY DEF Sound
<1>2. n \in Nat /\ p \in Nat /\ l \in Nat
  BY <1>1, ReplayFacts
<1>3. /\ t \in Replays(T)
      /\ t.prompt_ids = seg.prompt_ids /\ t.output_spans = seg.output_spans
      /\ Len(t.response_ids) = n + l
      /\ \A k \in 1 .. n :
           /\ t.response_ids[k] = seg.response_ids[k] /\ t.loss_mask[k] = seg.loss_mask[k]
           /\ t.rollout_log_probs[k] = seg.rollout_log_probs[k]
      /\ \A k \in 1 .. l :
           /\ t.response_ids[n + k] = more[k] /\ t.loss_mask[n + k] = 0
           /\ t.rollout_log_probs[n + k] = NoProb
  BY <1>1, ContextFacts
<1>4. IsJoin(read, ids, more, T)
  BY <1>1, Behind
<1>5. /\ read \in Seq(T) /\ Len(ids) = p + n /\ Len(read) = p + n + l
      /\ \A k \in 1 .. p : read[k] = seg.prompt_ids[k]
      /\ \A k \in 1 .. n : read[p + k] = seg.response_ids[k]
      /\ \A k \in 1 .. l : read[p + n + k] = more[k]
  <2> HIDE DEF read, l
  <2>1. /\ Len(ids) = p + n
        /\ \A k \in 1 .. p : ids[k] = seg.prompt_ids[k]
        /\ \A k \in 1 .. n : ids[p + k] = seg.response_ids[k]
    BY <1>1 DEF Reads
  <2>2. /\ read \in Seq(T) /\ Len(read) = p + n + l
        /\ \A k \in 1 .. p + n : read[k] = ids[k]
        /\ \A k \in 1 .. l : read[p + n + k] = more[k]
    BY <1>4, <2>1 DEF IsJoin, l
  <2> HIDE DEF p, n
  <2>3. \A k \in 1 .. p : k \in 1 .. p + n
    BY <1>2
  <2>4. \A k \in 1 .. n : p + k \in 1 .. p + n
    BY <1>2
  <2> QED BY <2>1, <2>2, <2>3, <2>4
<1>6. \A k \in 1 .. n + l : k \in 1 .. n \/ (k - n \in 1 .. l /\ n + (k - n) = k /\ k > n)
  <2> HIDE DEF n, l
  <2> QED BY <1>2
<1>7. ASSUME NEW out \in whole
      PROVE  out[1] \in Nat /\ out[2] \in Nat /\ out[2] <= p + n
  <2>1. <<out[1] - p, out[2] - p>> \in seg.output_spans /\ out[1] \in Nat /\ out[2] \in Nat
    BY <1>1 DEF Covered
  <2>2. out[2] - p <= n
    BY <2>1, <1>1, ReplayFacts
  <2> HIDE DEF p, n
  <2> QED BY <1>2, <2>1, <2>2
<1> HIDE DEF t, read, n, p, l
<1>8. ASSUME NEW k \in 1 .. n + l
      PROVE  t.response_ids[k] = read[p + k]
  <2>1. CASE k \in 1 .. n
    BY <2>1, <1>3, <1>5
  <2>2. CASE k - n \in 1 .. l /\ n + (k - n) = k
    <3>1. PICK j \in 1 .. l : k = n + j
      BY <2>2
    <3>2. p + (n + j) = p + n + j
      BY <1>2
    <3> QED BY <3>1, <3>2, <1>3, <1>5
  <2> QED BY <2>1, <2>2, <1>6
<1>9. Reads(t, read)
  <2>1. Len(read) = p + (n + l)
    BY <1>2, <1>5
  <2>2. Len(t.prompt_ids) = p
    BY <1>3 DEF p
  <2> QED BY <2>1, <2>2, <1>3, <1>5, <1>8 DEF Reads
<1>10. Masked(t, whole)
  <2> SUFFICES ASSUME NEW k \in 1 .. n + l
               PROVE  t.loss_mask[k] = 1 <=> \E out \in whole : out[1] < p + k /\ p + k <= out[2]
    BY <1>3 DEF Masked, p
  <2>1. CASE k \in 1 .. n
    BY <2>1, <1>1, <1>3 DEF Masked, n, p
  <2>2. CASE k - n \in 1 .. l /\ n + (k - n) = k /\ k > n
    <3>1. t.loss_mask[k] = 0
      BY <2>2, <1>3
    <3>2. \A out \in whole : ~(p + k <= out[2])
      BY <2>2, <1>2, <1>7
    <3> QED BY <3>1, <3>2
  <2> QED BY <2>1, <2>2, <1>6
<1>11. Scored(t)
  <2> SUFFICES ASSUME NEW k \in 1 .. n + l
               PROVE  t.rollout_log_probs[k] = IF t.loss_mask[k] = 1 THEN t.response_ids[k] ELSE NoProb
    BY <1>3 DEF Scored
  <2>1. CASE k \in 1 .. n
    BY <2>1, <1>1, <1>3 DEF Scored, n
  <2>2. CASE k - n \in 1 .. l /\ n + (k - n) = k
    <3>1. t.loss_mask[k] = 0 /\ t.rollout_log_probs[k] = NoProb
      BY <2>2, <1>3
    <3> QED BY <3>1
  <2> QED BY <2>1, <2>2, <1>6
<1>12. Apart(t.output_spans) /\ Covered(t, whole)
  BY <1>1, <1>3 DEF Covered
<1> QED BY <1>1, <1>3, <1>5, <1>9, <1>10, <1>11, <1>12 DEF Sound, t, read

\* an output behind it is.
LEMMA OutputSound ==
  ASSUME NEW T, NEW seg, NEW ids, NEW whole, Sound(seg, ids, whole, T), NEW more \in Seq(T)
  PROVE  Sound(WithOutput(seg, more), ids \o more,
               IF more = << >> THEN whole ELSE whole \cup {<<Len(ids), Len(ids) + Len(more)>>}, T)
<1> DEFINE t == WithOutput(seg, more)
           n == Len(seg.response_ids)
           p == Len(seg.prompt_ids)
           l == Len(more)
           read == ids \o more
           now == IF more = << >> THEN whole ELSE whole \cup {<<Len(ids), Len(ids) + Len(more)>>}
<1>1. /\ seg \in Replays(T) /\ ids \in Seq(T) /\ whole \subseteq Nat \X Nat
      /\ Reads(seg, ids) /\ Masked(seg, whole) /\ Scored(seg)
      /\ Apart(seg.output_spans) /\ Covered(seg, whole)
  BY DEF Sound
<1>2. n \in Nat /\ p \in Nat /\ l \in Nat /\ (more = << >> <=> l = 0)
  BY <1>1, ReplayFacts
<1>3. /\ t \in Replays(T)
      /\ t.prompt_ids = seg.prompt_ids /\ t.output_spans = seg.output_spans \cup {<<n, n + l>>}
      /\ Len(t.response_ids) = n + l
      /\ \A k \in 1 .. n :
           /\ t.response_ids[k] = seg.response_ids[k] /\ t.loss_mask[k] = seg.loss_mask[k]
           /\ t.rollout_log_probs[k] = seg.rollout_log_probs[k]
      /\ \A k \in 1 .. l :
           /\ t.response_ids[n + k] = more[k] /\ t.loss_mask[n + k] = 1
           /\ t.rollout_log_probs[n + k] = more[k]
  BY <1>1, WithOutputFacts
<1>4. IsJoin(read, ids, more, T)
  BY <1>1, Behind
<1>5. /\ read \in Seq(T) /\ Len(ids) = p + n /\ Len(read) = p + n + l
      /\ \A k \in 1 .. p : read[k] = seg.prompt_ids[k]
      /\ \A k \in 1 .. n : read[p + k] = seg.response_ids[k]
      /\ \A k \in 1 .. l : read[p + n + k] = more[k]
  <2> HIDE DEF read, l
  <2>1. /\ Len(ids) = p + n
        /\ \A k \in 1 .. p : ids[k] = seg.prompt_ids[k]
        /\ \A k \in 1 .. n : ids[p + k] = seg.response_ids[k]
    BY <1>1 DEF Reads
  <2>2. /\ read \in Seq(T) /\ Len(read) = p + n + l
        /\ \A k \in 1 .. p + n : read[k] = ids[k]
        /\ \A k \in 1 .. l : read[p + n + k] = more[k]
    BY <1>4, <2>1 DEF IsJoin, l
  <2> HIDE DEF p, n
  <2>3. \A k \in 1 .. p : k \in 1 .. p + n
    BY <1>2
  <2>4. \A k \in 1 .. n : p + k \in 1 .. p + n
    BY <1>2
  <2> QED BY <2>1, <2>2, <2>3, <2>4
<1>6. \A k \in 1 .. n + l : k \in 1 .. n \/ (k - n \in 1 .. l /\ n + (k - n) = k /\ k > n)
  <2> HIDE DEF n, l
  <2> QED BY <1>2
<1>7. ASSUME NEW out \in whole
      PROVE  out[1] \in Nat /\ out[2] \in Nat /\ out[2] <= p + n
  <2>1. <<out[1] - p, out[2] - p>> \in seg.output_spans /\ out[1] \in Nat /\ out[2] \in Nat
    BY <1>1 DEF Covered
  <2>2. out[2] - p <= n
    BY <2>1, <1>1, ReplayFacts
  <2> HIDE DEF p, n
  <2> QED BY <1>2, <2>1, <2>2
<1>70. now = IF l = 0 THEN whole ELSE whole \cup {<<p + n, p + n + l>>}
  BY <1>2, <1>5
<1>71. \A span \in seg.output_spans :
         span[1] \in Nat /\ span[2] \in Nat /\ span[1] <= span[2] /\ span[2] <= n
  BY <1>1, ReplayFacts
<1> HIDE DEF t, read, n, p, l, now
<1>8. ASSUME NEW k \in 1 .. n + l
      PROVE  t.response_ids[k] = read[p + k]
  <2>1. CASE k \in 1 .. n
    BY <2>1, <1>3, <1>5
  <2>2. CASE k - n \in 1 .. l /\ n + (k - n) = k
    <3>1. PICK j \in 1 .. l : k = n + j
      BY <2>2
    <3>2. p + (n + j) = p + n + j
      BY <1>2
    <3> QED BY <3>1, <3>2, <1>3, <1>5
  <2> QED BY <2>1, <2>2, <1>6
<1>9. Reads(t, read)
  <2>1. Len(read) = p + (n + l)
    BY <1>2, <1>5
  <2>2. Len(t.prompt_ids) = p
    BY <1>3 DEF p
  <2> QED BY <2>1, <2>2, <1>3, <1>5, <1>8 DEF Reads
<1>10. Masked(t, now)
  <2> SUFFICES ASSUME NEW k \in 1 .. n + l
               PROVE  t.loss_mask[k] = 1 <=> \E out \in now : out[1] < p + k /\ p + k <= out[2]
    BY <1>3 DEF Masked, p
  <2>1. CASE k \in 1 .. n
    <3>1. t.loss_mask[k] = 1 <=> \E out \in whole : out[1] < p + k /\ p + k <= out[2]
      BY <2>1, <1>1, <1>3 DEF Masked, n, p
    <3>2. ~(p + n < p + k)
      BY <2>1, <1>2
    <3> QED BY <3>1, <3>2, <1>70
  <2>2. CASE k - n \in 1 .. l /\ n + (k - n) = k /\ k > n
    <3>1. t.loss_mask[k] = 1
      BY <2>2, <1>3
    <3>2. p + n < p + k /\ p + k <= p + n + l /\ l # 0
      BY <2>2, <1>2
    <3>3. <<p + n, p + n + l>> \in now
      BY <3>2, <1>70
    <3> QED BY <3>1, <3>2, <3>3
  <2> QED BY <2>1, <2>2, <1>6
<1>11. Scored(t)
  <2> SUFFICES ASSUME NEW k \in 1 .. n + l
               PROVE  t.rollout_log_probs[k] = IF t.loss_mask[k] = 1 THEN t.response_ids[k] ELSE NoProb
    BY <1>3 DEF Scored
  <2>1. CASE k \in 1 .. n
    BY <2>1, <1>1, <1>3 DEF Scored, n
  <2>2. CASE k - n \in 1 .. l /\ n + (k - n) = k
    <3>1. PICK j \in 1 .. l : k = n + j
      BY <2>2
    <3> QED BY <3>1, <1>3
  <2> QED BY <2>1, <2>2, <1>6
<1>12. Apart(t.output_spans)
  <2> DEFINE new == <<n, n + l>>
  <2>1. new[1] = n /\ \A span \in seg.output_spans : span[2] <= new[1]
    BY <1>71
  <2> HIDE DEF new
  <2>2. t.output_spans = seg.output_spans \cup {new}
    BY <1>3 DEF new
  <2> QED BY <2>1, <2>2, <1>1 DEF Apart
<1>13. Covered(t, now)
  <2> SUFFICES ASSUME NEW out \in now
               PROVE  /\ p <= out[1] /\ out[1] < out[2]
                      /\ <<out[1] - p, out[2] - p>> \in t.output_spans
    BY <1>3 DEF Covered, p
  <2>1. CASE out \in whole
    BY <2>1, <1>1, <1>3 DEF Covered, p
  <2>2. CASE l # 0 /\ out = <<p + n, p + n + l>>
    <3>1. /\ out[1] = p + n /\ out[2] = p + n + l
          /\ out[1] - p = n /\ out[2] - p = n + l
      BY <2>2, <1>2
    <3>2. p <= p + n /\ p + n < p + n + l
      BY <2>2, <1>2
    <3> QED BY <3>1, <3>2, <1>3
  <2> QED BY <2>1, <2>2, <1>70
<1>14. now \subseteq Nat \X Nat
  BY <1>1, <1>2, <1>70
<1> QED BY <1>3, <1>5, <1>9, <1>10, <1>11, <1>12, <1>13, <1>14 DEF Sound, t, read, now

\* What is left of the outputs when a segment is cut.
Uncut(whole, end) == {out \in whole : out[2] <= end}

\* A segment that is cut has the outputs that are not.
LEMMA TruncatedSound ==
  ASSUME NEW T, NEW seg, NEW ids, NEW whole, Sound(seg, ids, whole, T),
         NEW m \in 0 .. Len(seg.response_ids)
  PROVE  Sound(Truncated(seg, m), SubSeq(ids, 1, Len(seg.prompt_ids) + m),
               Uncut(whole, Len(seg.prompt_ids) + m), T)
<1> DEFINE t == Truncated(seg, m)
           n == Len(seg.response_ids)
           p == Len(seg.prompt_ids)
           read == SubSeq(ids, 1, p + m)
           now == Uncut(whole, p + m)
           Blank(k) == \E span \in seg.output_spans :
                         span[1] < m /\ m < span[2] /\ span[1] < k
           Cut(span) == <<span[1], IF span[2] < m THEN span[2] ELSE m>>
           Begun == {s \in seg.output_spans : s[1] < m}
<1>1. /\ seg \in Replays(T) /\ ids \in Seq(T) /\ whole \subseteq Nat \X Nat
      /\ Reads(seg, ids) /\ Masked(seg, whole) /\ Scored(seg)
      /\ Apart(seg.output_spans) /\ Covered(seg, whole)
  BY DEF Sound
<1>2. n \in Nat /\ p \in Nat /\ m \in Nat /\ m <= n
  BY <1>1, ReplayFacts
<1>3. /\ t \in Replays(T)
      /\ t.prompt_ids = seg.prompt_ids
      /\ t.output_spans = {Cut(span) : span \in Begun}
      /\ Len(t.response_ids) = m
      /\ \A k \in 1 .. m :
           /\ t.response_ids[k] = seg.response_ids[k]
           /\ t.loss_mask[k] = IF Blank(k) THEN 0 ELSE seg.loss_mask[k]
           /\ t.rollout_log_probs[k] = IF Blank(k) THEN NoProb ELSE seg.rollout_log_probs[k]
  <2>1. seg \in Replays(T)
    BY <1>1
  <2> HIDE DEF t
  <2>2. IsTruncated(t, seg, m, T)
    BY ONLY <2>1, TruncatedFacts DEF t
  <2> QED BY <2>2 DEF IsTruncated
<1>4. \A span \in seg.output_spans :
        span[1] \in Nat /\ span[2] \in Nat /\ span[1] <= span[2] /\ span[2] <= n
  BY <1>1, ReplayFacts
<1>5. /\ Len(ids) = p + n
      /\ \A k \in 1 .. p : ids[k] = seg.prompt_ids[k]
      /\ \A k \in 1 .. n : ids[p + k] = seg.response_ids[k]
  BY <1>1 DEF Reads
<1>6. /\ \A k \in 1 .. n : seg.loss_mask[k] = 1 <=>
           \E out \in whole : out[1] < p + k /\ p + k <= out[2]
      /\ \A k \in 1 .. n :
           seg.rollout_log_probs[k] = IF seg.loss_mask[k] = 1 THEN seg.response_ids[k] ELSE NoProb
  BY <1>1 DEF Masked, Scored
<1>7. \A out \in whole :
        /\ p <= out[1] /\ out[1] < out[2] /\ out[1] \in Nat /\ out[2] \in Nat
        /\ <<out[1] - p, out[2] - p>> \in seg.output_spans
  BY <1>1 DEF Covered
<1>8. now \subseteq whole /\ \A out \in whole : out \in now <=> out[2] <= p + m
  BY DEF Uncut
<1> HIDE DEF n, p
<1>9. /\ read \in Seq(T) /\ Len(read) = p + m
      /\ \A k \in 1 .. p + m : read[k] = ids[k]
  BY <1>1, <1>2, <1>5
<1>90. \A k : Blank(k) <=> \E span \in seg.output_spans : span[1] < m /\ m < span[2] /\ span[1] < k
  OBVIOUS
<1> HIDE DEF t, read, now, Blank
<1>10. Reads(t, read)
  <2>1. \A k \in 1 .. p : k \in 1 .. p + m /\ k \in 1 .. p
    BY <1>2
  <2>2. \A k \in 1 .. m : p + k \in 1 .. p + m /\ k \in 1 .. n
    BY <1>2
  <2>3. Len(t.prompt_ids) = p /\ \A k \in 1 .. p : read[k] = t.prompt_ids[k]
    BY <2>1, <1>3, <1>5, <1>9 DEF p
  <2>4. \A k \in 1 .. m : read[p + k] = t.response_ids[k]
    BY <2>2, <1>3, <1>5, <1>9
  <2> QED BY <2>3, <2>4, <1>3, <1>9 DEF Reads
<1>11. ASSUME NEW k \in 1 .. m
       PROVE  t.loss_mask[k] = 1 <=> \E out \in now : out[1] < p + k /\ p + k <= out[2]
  <2>0. k \in Nat /\ k \in 1 .. n /\ k <= m
    BY <1>2
  <2>1. ASSUME NEW out \in now, out[1] < p + k, p + k <= out[2] PROVE t.loss_mask[k] = 1
    <3> DEFINE s == <<out[1] - p, out[2] - p>>
    <3>1. seg.loss_mask[k] = 1
      BY <2>0, <2>1, <1>6, <1>8
    <3>2. /\ s \in seg.output_spans /\ s[1] = out[1] - p /\ s[2] = out[2] - p
          /\ out[1] \in Nat /\ out[2] \in Nat /\ out[2] <= p + m
      BY <1>7, <1>8
    <3>3. s[1] < k /\ k <= s[2] /\ s[2] <= m
      BY <2>0, <2>1, <3>2, <1>2, SMTT(30)
    <3> HIDE DEF s
    <3>4. ~Blank(k)
      <4> SUFFICES ASSUME NEW c \in seg.output_spans, c[1] < m, m < c[2], c[1] < k PROVE FALSE
        BY <1>90
      <4>1. s = c \/ s[2] <= c[1] \/ c[2] <= s[1]
        BY <1>1, <3>2 DEF Apart
      <4>2. c[1] \in Nat /\ c[2] \in Nat /\ s[1] \in Nat /\ s[2] \in Nat
        BY <1>4, <3>2
      <4> QED BY <4>1, <4>2, <3>3, <2>0, <1>2
    <3> QED BY <3>1, <3>4, <1>3
  <2>2. ASSUME t.loss_mask[k] = 1 PROVE \E out \in now : out[1] < p + k /\ p + k <= out[2]
    <3>1. ~Blank(k) /\ seg.loss_mask[k] = 1
      BY <2>2, <1>3
    <3>2. PICK out \in whole : out[1] < p + k /\ p + k <= out[2]
      BY <3>1, <2>0, <1>6
    <3>3. out[2] <= p + m
      <4> SUFFICES ASSUME ~(out[2] <= p + m) PROVE FALSE
        OBVIOUS
      <4> DEFINE s == <<out[1] - p, out[2] - p>>
      <4>1. /\ s \in seg.output_spans /\ s[1] = out[1] - p /\ s[2] = out[2] - p
            /\ out[1] \in Nat /\ out[2] \in Nat
        BY <1>7
      <4> HIDE DEF s
      <4>2. s[1] < m /\ m < s[2] /\ s[1] < k
        BY <4>1, <3>2, <2>0, <1>2
      <4> QED BY <4>1, <4>2, <3>1, <1>90
    <3> QED BY <3>2, <3>3, <1>8
  <2> QED BY <2>1, <2>2
<1>12. Masked(t, now)
  BY <1>3, <1>11 DEF Masked, p
<1>13. Scored(t)
  <2> SUFFICES ASSUME NEW k \in 1 .. m
               PROVE  t.rollout_log_probs[k] = IF t.loss_mask[k] = 1 THEN t.response_ids[k] ELSE NoProb
    BY <1>3 DEF Scored
  <2>1. k \in 1 .. n
    BY <1>2
  <2> QED BY <2>1, <1>3, <1>6
<1>14. Apart(t.output_spans)
  <2> SUFFICES ASSUME NEW s \in seg.output_spans, NEW c \in seg.output_spans, s[1] < m, c[1] < m
               PROVE  Cut(s) = Cut(c) \/ Cut(s)[2] <= Cut(c)[1] \/ Cut(c)[2] <= Cut(s)[1]
    BY <1>3 DEF Apart
  <2>1. s = c \/ s[2] <= c[1] \/ c[2] <= s[1]
    BY <1>1 DEF Apart
  <2> QED BY <2>1, <1>2, <1>4
<1>15. Covered(t, now)
  <2> SUFFICES ASSUME NEW out \in now
               PROVE  /\ p <= out[1] /\ out[1] < out[2]
                      /\ <<out[1] - p, out[2] - p>> \in t.output_spans
    BY <1>3 DEF Covered, p
  <2> DEFINE s == <<out[1] - p, out[2] - p>>
  <2>1. /\ p <= out[1] /\ out[1] < out[2] /\ out[1] \in Nat /\ out[2] \in Nat
        /\ s \in seg.output_spans /\ s[1] = out[1] - p /\ s[2] = out[2] - p
        /\ out[2] <= p + m
    BY <1>7, <1>8
  <2>2. s[1] < m /\ s[2] <= m
    BY <2>1, <1>2
  <2>3. s[2] \in Nat
    BY <2>1, <1>4
  <2>4. Cut(s) = <<s[1], s[2]>>
    BY <2>2, <2>3, <1>2
  <2>5. <<s[1], s[2]>> = s
    OBVIOUS
  <2>6. Cut(s) \in t.output_spans
    BY <2>1, <2>2, <1>3
  <2> QED BY <2>1, <2>4, <2>5, <2>6
<1>16. now \subseteq Nat \X Nat
  BY <1>1, <1>8
<1> QED BY <1>3, <1>9, <1>10, <1>12, <1>13, <1>14, <1>15, <1>16 DEF Sound, t, read, now, p

\* Nothing is lost when a segment is cut behind its end.
LEMMA PrefixIs ==
  ASSUME NEW T, NEW a \in Seq(T), NEW b \in Seq(T)
  PROVE  IsPrefix(a, b) <=> Len(a) <= Len(b) /\ \A k \in 1 .. Len(a) : a[k] = b[k]
<1>1. /\ Len(a) \in Nat /\ DOMAIN a = 1 .. Len(a) /\ SubSeq(a, 1, Len(a)) = a
      /\ Len(b) \in Nat /\ DOMAIN b = 1 .. Len(b)
  OBVIOUS
<1>2. ASSUME Len(a) <= Len(b)
      PROVE  SubSeq(b, 1, Len(a)) = [k \in 1 .. Len(a) |-> b[k]]
  BY <1>1, <1>2
<1>3. a = [k \in 1 .. Len(a) |-> a[k]]
  BY <1>1
<1> QED BY <1>1, <1>2, <1>3 DEF IsPrefix


\* A set of numbers that is not empty has a least one.
LEMMA LeastNumber ==
  ASSUME NEW S, S \subseteq Nat, S # {}
  PROVE  \E n \in S : \A m \in S : n <= m
<1>1. \E n \in S : \A m \in S : ~(<<m, n>> \in OpToRel(<, Nat))
  BY NatLessThanWellFounded, WFMin
<1>2. PICK n \in S : \A m \in S : ~(<<m, n>> \in OpToRel(<, Nat))
  BY <1>1
<1>3. ASSUME NEW m \in S PROVE n <= m
  <2>1. m \in Nat /\ n \in Nat
    OBVIOUS
  <2>2. ~(m < n)
    BY <1>2, <2>1 DEF OpToRel
  <2> QED BY <2>1, <2>2
<1> QED BY <1>3

\* A set of numbers with a bound has a greatest.
LEMMA MaxIs ==
  ASSUME NEW S, S \subseteq Nat, S # {}, NEW m \in Nat, \A n \in S : n <= m
  PROVE  Max(S) \in S /\ Max(S) \in Nat /\ \A n \in S : n <= Max(S)
<1> DEFINE Bounds == {b \in Nat : \A n \in S : n <= b}
<1>1. Bounds \subseteq Nat /\ m \in Bounds
  OBVIOUS
<1>2. PICK b \in Bounds : \A c \in Bounds : b <= c
  <2> HIDE DEF Bounds
  <2> QED BY <1>1, LeastNumber
<1>3. b \in Nat /\ \A n \in S : n \in Nat /\ n <= b
  BY <1>2
<1>4. b \in S
  <2> SUFFICES ASSUME b \notin S PROVE FALSE
    OBVIOUS
  <2>1. \A n \in S : n <= b - 1
    BY <1>3
  <2>2. PICK n : n \in S
    OBVIOUS
  <2>3. b - 1 \in Nat
    BY <1>3, <2>1, <2>2
  <2>4. b - 1 \in Bounds
    BY <2>1, <2>3
  <2> HIDE DEF Bounds
  <2>5. b <= b - 1
    BY <1>2, <2>4
  <2> QED BY <1>3, <2>5
<1>5. \E x \in S : \A y \in S : x >= y
  BY <1>3, <1>4
<1>6. Max(S) \in S /\ \A y \in S : Max(S) >= y
  BY <1>5 DEF Max
<1> QED BY <1>3, <1>6

\* CommonPrefixLen is the length up to which the two agree.
LEMMA CommonFacts ==
  ASSUME NEW T, NEW a \in Seq(T), NEW b \in Seq(T)
  PROVE  LET c == CommonPrefixLen(a, b)
         IN  /\ c \in 0 .. Len(a) /\ c <= Len(b)
             /\ \A k \in 1 .. c : a[k] = b[k]
             /\ \A n \in 0 .. Len(a) : n <= Len(b) /\ (\A k \in 1 .. n : a[k] = b[k]) => n <= c
<1> DEFINE S == {n \in 0 .. Len(a) : IsPrefix(SubSeq(a, 1, n), b)}
           c == CommonPrefixLen(a, b)
<1>1. Len(a) \in Nat /\ Len(b) \in Nat
  OBVIOUS
<1>2. ASSUME NEW n \in 0 .. Len(a)
      PROVE  n \in S <=> n <= Len(b) /\ \A k \in 1 .. n : a[k] = b[k]
  <2> DEFINE d == SubSeq(a, 1, n)
  <2>1. d \in Seq(T) /\ Len(d) = n /\ \A k \in 1 .. n : d[k] = a[k]
    BY <1>1
  <2> HIDE DEF d
  <2>2. IsPrefix(d, b) <=> Len(d) <= Len(b) /\ \A k \in 1 .. Len(d) : d[k] = b[k]
    BY <2>1, PrefixIs
  <2>3. n \in S <=> IsPrefix(d, b)
    BY DEF d
  <2> HIDE DEF S
  <2> QED BY <2>1, <2>2, <2>3
<1>3. S \subseteq Nat /\ \A n \in S : n <= Len(a)
  BY <1>1
<1>4. 0 \in S
  BY <1>1, <1>2
<1>5. c = Max(S)
  BY DEF CommonPrefixLen
<1>6. S \subseteq 0 .. Len(a)
  OBVIOUS
<1> HIDE DEF S, c
<1>7. c \in S /\ c \in Nat /\ \A n \in S : n <= c
  BY <1>1, <1>3, <1>4, <1>5, MaxIs
<1>8. c \in 0 .. Len(a)
  BY <1>6, <1>7
<1>9. c <= Len(b) /\ \A k \in 1 .. c : a[k] = b[k]
  BY <1>2, <1>7, <1>8
<1>10. \A n \in 0 .. Len(a) : n <= Len(b) /\ (\A k \in 1 .. n : a[k] = b[k]) => n <= c
  BY <1>2, <1>7
<1> QED BY <1>8, <1>9, <1>10 DEF c

\* The outputs that a prompt contains, where they were generated.
Surviving(whole, ids, prompt) ==
  {out \in whole : out[2] <= Len(prompt) /\ \A k \in 1 .. out[2] : ids[k] = prompt[k]}

\* The next prompt stitched to a segment: what it contains survives.
LEMMA StitchedSound ==
  ASSUME NEW T, NEW seg, NEW ids, NEW whole, Sound(seg, ids, whole, T), NEW prompt \in Seq(T)
  PROVE  Sound(Stitched(seg, prompt), prompt, Surviving(whole, ids, prompt), T)
<1> DEFINE P == seg.prompt_ids
           R == seg.response_ids
           p == Len(P)
           n == Len(R)
           now == Surviving(whole, ids, prompt)
<1>1. /\ seg \in Replays(T) /\ ids \in Seq(T) /\ whole \subseteq Nat \X Nat
      /\ Reads(seg, ids) /\ Covered(seg, whole)
  BY DEF Sound
<1>2. P \in Seq(T) /\ R \in Seq(T) /\ p \in Nat /\ n \in Nat /\ Len(prompt) \in Nat
  <2>1. P \in Seq(T) /\ R \in Seq(T) /\ p \in Nat /\ n \in Nat
    BY <1>1, ReplayFacts
  <2>2. Len(prompt) \in Nat
    OBVIOUS
  <2> QED BY <2>1, <2>2
<1>3. /\ Len(ids) = p + n
      /\ \A k \in 1 .. p : ids[k] = P[k]
      /\ \A k \in 1 .. n : ids[p + k] = R[k]
  BY <1>1 DEF Reads
<1>4. ASSUME NEW out \in whole
      PROVE  out[1] \in Nat /\ out[2] \in Nat /\ p <= out[1] /\ out[1] < out[2] /\ out[2] <= p + n
  <2>1. /\ <<out[1] - p, out[2] - p>> \in seg.output_spans /\ out[1] \in Nat /\ out[2] \in Nat
        /\ p <= out[1] /\ out[1] < out[2]
    BY <1>1 DEF Covered
  <2>2. out[2] - p <= n
    BY <2>1, <1>1, ReplayFacts
  <2> HIDE DEF p, n
  <2> QED BY <1>2, <2>1, <2>2
<1>5. IsPrefix(P, prompt) <=> p <= Len(prompt) /\ \A k \in 1 .. p : P[k] = prompt[k]
  BY <1>2, PrefixIs
<1>6. \A out : out \in now <=>
        out \in whole /\ out[2] <= Len(prompt) /\ \A k \in 1 .. out[2] : ids[k] = prompt[k]
  BY DEF Surviving
<1>7. CASE ~IsPrefix(P, prompt)
  <2>1. Stitched(seg, prompt) = EmptySegment(prompt)
    BY <1>7 DEF Stitched
  <2> HIDE DEF p, n, P, R, now
  <2>2. now = {}
    <3> SUFFICES ASSUME NEW out \in now PROVE FALSE
      OBVIOUS
    <3>1. out[2] \in Nat /\ p <= out[2]
      BY <1>2, <1>4, <1>6
    <3>2. p <= Len(prompt)
      BY <3>1, <1>2, <1>6
    <3>3. \A k \in 1 .. p : k \in 1 .. out[2]
      BY <3>1, <1>2
    <3>4. \A k \in 1 .. p : P[k] = prompt[k]
      BY <3>3, <1>3, <1>6
    <3> QED BY <3>2, <3>4, <1>5, <1>7
  <2> QED BY <2>1, <2>2, FreshSound DEF now
<1>8. CASE IsPrefix(P, prompt)
  <2> DEFINE suffix == SubSeq(prompt, p + 1, Len(prompt))
             m == CommonPrefixLen(R, suffix)
             cut == Truncated(seg, m)
             more == SubSeq(suffix, m + 1, Len(suffix))
             before == SubSeq(ids, 1, p + m)
  <2>1. Stitched(seg, prompt) = WithContext(cut, more)
    BY <1>8 DEF Stitched
  <2> HIDE DEF P, R, p, n, now
  <2>2. p <= Len(prompt) /\ \A k \in 1 .. p : P[k] = prompt[k]
    BY <1>5, <1>8
  <2>3. /\ suffix \in Seq(T) /\ Len(suffix) = Len(prompt) - p
        /\ \A k \in 1 .. Len(suffix) : suffix[k] = prompt[p + k]
    BY <1>2, <2>2
  <2> HIDE DEF suffix
  <2>4. /\ m \in 0 .. n /\ m <= Len(suffix)
        /\ \A k \in 1 .. m : R[k] = suffix[k]
        /\ \A l \in 0 .. n : l <= Len(suffix) /\ (\A k \in 1 .. l : R[k] = suffix[k]) => l <= m
    BY <1>2, <2>3, CommonFacts DEF n
  <2>40. Len(suffix) \in Nat /\ m \in Nat
    BY <1>2, <2>2, <2>3, <2>4
  <2> HIDE DEF m
  <2>5. /\ more \in Seq(T) /\ Len(more) = Len(suffix) - m
        /\ \A k \in 1 .. Len(more) : more[k] = suffix[m + k]
    BY <2>3, <2>4, <2>40
  <2>6. Sound(cut, before, Uncut(whole, p + m), T)
    BY <2>4, TruncatedSound DEF p, n, R, P
  <2>7. /\ before \in Seq(T) /\ Len(before) = p + m
        /\ \A k \in 1 .. p + m : before[k] = ids[k]
    <3>1. p + m \in Nat /\ p + m <= Len(ids)
      BY <1>2, <1>3, <2>4
    <3> DEFINE end == p + m
    <3> HIDE DEF end
    <3>2. SubSeq(ids, 1, end) \in Seq(T) /\ Len(SubSeq(ids, 1, end)) = end
          /\ \A k \in 1 .. end : SubSeq(ids, 1, end)[k] = ids[k]
      BY <3>1, <1>1 DEF end
    <3> QED BY <3>2 DEF end
  <2> HIDE DEF cut, more, before
  <2>8. Sound(WithContext(cut, more), before \o more, Uncut(whole, p + m), T)
    BY <2>5, <2>6, ContextSound
  <2>9. before \o more = prompt
    <3> DEFINE z == before \o more
    <3>1. IsJoin(z, before, more, T)
      BY <2>5, <2>7, Behind
    <3> HIDE DEF z
    <3>2. /\ z \in Seq(T) /\ Len(z) = p + m + Len(more)
          /\ \A k \in 1 .. p + m : z[k] = before[k]
          /\ \A k \in 1 .. Len(more) : z[p + m + k] = more[k]
      BY <2>7, <3>1 DEF IsJoin
    <3>3. Len(z) = Len(prompt)
      BY <3>2, <2>3, <2>4, <2>5, <1>2
    <3>4. ASSUME NEW k \in 1 .. Len(prompt) PROVE z[k] = prompt[k]
      <4>1. CASE k \in 1 .. p
        <5>1. k \in 1 .. p + m
          BY <4>1, <1>2, <2>4
        <5> QED BY <5>1, <4>1, <3>2, <2>2, <2>7, <1>3
      <4>2. CASE k - p \in 1 .. m
        <5>1. PICK j \in 1 .. m : k = p + j
          <6>1. k - p \in 1 .. m /\ k = p + (k - p)
            BY <4>2, <1>2
          <6> QED BY <6>1
        <5>2. /\ p + j \in 1 .. p + m /\ j \in 1 .. n /\ j \in 1 .. Len(suffix)
          BY <1>2, <2>4, <2>40
        <5>3. z[p + j] = ids[p + j]
          BY <5>2, <3>2, <2>7
        <5>4. ids[p + j] = R[j] /\ R[j] = suffix[j] /\ suffix[j] = prompt[p + j]
          BY <5>2, <1>3, <2>3, <2>4
        <5> QED BY <5>1, <5>3, <5>4
      <4>3. CASE k > p + m
        <5>1. PICK j \in 1 .. Len(more) : k = p + m + j
          <6>1. k - (p + m) \in 1 .. Len(more) /\ k = p + m + (k - (p + m))
            BY <4>3, <1>2, <2>3, <2>4, <2>5
          <6> QED BY <6>1
        <5>2. m + j \in 1 .. Len(suffix) /\ p + (m + j) = p + m + j
          BY <1>2, <2>40, <2>4, <2>5
        <5>3. z[p + m + j] = suffix[m + j]
          BY <3>2, <2>5
        <5>4. suffix[m + j] = prompt[p + (m + j)]
          BY <5>2, <2>3
        <5> QED BY <5>1, <5>2, <5>3, <5>4
      <4> QED BY <4>1, <4>2, <4>3, <1>2, <2>4
    <3>5. z = prompt
      BY <3>2, <3>3, <3>4
    <3> QED BY <3>5 DEF z
  <2>10. Uncut(whole, p + m) = now
    <3>1. ASSUME NEW out \in whole, out[2] <= p + m PROVE out \in now
      <4>1. out[2] \in Nat /\ out[2] <= Len(prompt)
        BY <3>1, <1>2, <1>4, <2>3, <2>4, <2>40
      <4>2. ASSUME NEW k \in 1 .. out[2] PROVE ids[k] = prompt[k]
        <5>1. CASE k \in 1 .. p
          BY <5>1, <1>3, <2>2
        <5>2. CASE k > p
          <6>1. PICK j \in 1 .. m : k = p + j
            <7>1. k - p \in 1 .. m /\ k = p + (k - p)
              BY <5>2, <3>1, <4>1, <1>2, <2>40
            <7> QED BY <7>1
          <6>2. j \in 1 .. n /\ j \in 1 .. Len(suffix)
            BY <1>2, <2>4, <2>40
          <6> QED BY <6>1, <6>2, <1>3, <2>3, <2>4
        <5> QED BY <5>1, <5>2, <4>1, <1>2
      <4> QED BY <4>1, <4>2, <1>6
    <3>2. ASSUME NEW out \in now PROVE out \in whole /\ out[2] <= p + m
      <4>1. /\ out \in whole /\ out[2] \in Nat /\ p <= out[2] /\ out[2] <= p + n /\ out[2] <= Len(prompt)
            /\ \A k \in 1 .. out[2] : ids[k] = prompt[k]
        BY <1>2, <1>4, <1>6
      <4> DEFINE l == out[2] - p
      <4>2. l \in 0 .. n /\ l <= Len(suffix)
        BY <4>1, <1>2, <2>3
      <4>3. ASSUME NEW k \in 1 .. l PROVE R[k] = suffix[k]
        <5>1. p + k \in 1 .. out[2] /\ k \in 1 .. n /\ k \in 1 .. Len(suffix)
          BY <4>1, <4>2, <1>2, <2>40, SMTT(30)
        <5> QED BY <5>1, <4>1, <1>3, <2>3
      <4>4. l <= m
        <5> HIDE DEF l
        <5> QED BY <4>2, <4>3, <2>4
      <4> QED BY <4>1, <4>4, <1>2, <2>40
    <3> QED BY <3>1, <3>2 DEF Uncut
  <2> QED BY <2>1, <2>8, <2>9, <2>10 DEF now
<1> QED BY <1>7, <1>8

\* From a number and the value there, the next value.
Steps(D) == [Nat \X D -> D]
\* f starts with a and goes on by step.
Recurs(f, D, a, step) ==
  f \in [Nat -> D] /\ f[0] = a /\ \A n \in Nat : f[n + 1] = step[<<n, f[n]>>]

\* What is defined by its first value and a step exists.
LEMMA Recursion ==
  ASSUME NEW D, NEW a \in D, NEW step \in Steps(D)
  PROVE  \E f : Recurs(f, D, a, step)
<1> DEFINE Upto(n) == {f \in [0 .. n -> D] : f[0] = a /\ \A m \in 0 .. n - 1 : f[m + 1] = step[<<m, f[m]>>]}
<1>1. ASSUME NEW n \in Nat, NEW f \in Upto(n), NEW k \in Nat, NEW g \in Upto(k), NEW m \in 0 .. n, m <= k
      PROVE  f[m] = g[m]
  <2> DEFINE S == {l \in 0 .. n : l <= k /\ f[l] # g[l]}
  <2> SUFFICES ASSUME S # {} PROVE FALSE
    BY <1>1
  <2>0. S \subseteq Nat
    OBVIOUS
  <2>1. PICK l \in S : \A i \in S : l <= i
    <3> HIDE DEF S
    <3> QED BY <2>0, LeastNumber
  <2>2. l # 0
    BY <2>1
  <2>3. l - 1 \in 0 .. n - 1 /\ l - 1 \in 0 .. k - 1 /\ l - 1 \notin S
    BY <2>1, <2>2
  <2>4. f[l - 1] = g[l - 1]
    BY <2>3
  <2>5. f[l - 1 + 1] = step[<<l - 1, f[l - 1]>>] /\ g[l - 1 + 1] = step[<<l - 1, g[l - 1]>>]
    BY <2>3
  <2>6. l - 1 + 1 = l
    BY <2>1
  <2> QED BY <2>1, <2>4, <2>5, <2>6
<1>2. ASSUME NEW n \in Nat PROVE Upto(n) # {}
  <2> DEFINE S == {l \in Nat : Upto(l) = {}}
  <2> SUFFICES ASSUME S # {} PROVE FALSE
    BY <1>2
  <2>0. S \subseteq Nat
    OBVIOUS
  <2>1. PICK l \in S : \A i \in S : l <= i
    <3> HIDE DEF S
    <3> QED BY <2>0, LeastNumber
  <2>2. [m \in 0 .. 0 |-> a] \in Upto(0)
    OBVIOUS
  <2>3. l # 0
    BY <2>1, <2>2
  <2>4. l - 1 \in Nat /\ l - 1 \notin S
    <3> HIDE DEF S
    <3>1. l \in Nat /\ l # 0
      BY <2>0, <2>1, <2>3
    <3>2. l - 1 \in Nat /\ ~(l <= l - 1)
      BY <3>1
    <3> QED BY <2>1, <3>2
  <2>5. PICK f : f \in Upto(l - 1)
    BY <2>4
  <2> USE DEF Steps
  <2> DEFINE g == [m \in 0 .. l |-> IF m = l THEN step[<<l - 1, f[l - 1]>>] ELSE f[m]]
  <2>6. f[l - 1] \in D
    BY <2>4, <2>5
  <2>7. g \in [0 .. l -> D]
    BY <2>4, <2>5, <2>6
  <2>8. g[0] = a
    BY <2>3, <2>5
  <2>9. ASSUME NEW m \in 0 .. l - 1 PROVE g[m + 1] = step[<<m, g[m]>>]
    <3>1. CASE m = l - 1
      <4>1. g[m + 1] = step[<<l - 1, f[l - 1]>>]
        BY <3>1, <2>4
      <4>2. g[m] = f[m]
        BY <3>1, <2>4
      <4> QED BY <4>1, <4>2, <3>1
    <3>2. CASE m # l - 1
      <4>1. m \in 0 .. (l - 1) - 1
        BY <3>2, <2>4
      <4>2. f[m + 1] = step[<<m, f[m]>>]
        BY <4>1, <2>5
      <4>3. g[m + 1] = f[m + 1] /\ g[m] = f[m]
        BY <4>1, <2>4
      <4> QED BY <4>2, <4>3
    <3> QED BY <3>1, <3>2
  <2>10. g \in Upto(l)
    BY <2>7, <2>8, <2>9
  <2> QED BY <2>1, <2>10
<1> DEFINE Upon(n) == CHOOSE f \in Upto(n) : TRUE
           h == [n \in Nat |-> Upon(n)[n]]
<1>3. ASSUME NEW n \in Nat PROVE Upon(n) \in Upto(n)
  BY <1>2
<1> HIDE DEF Upon
<1>4. h \in [Nat -> D]
  <2>1. ASSUME NEW n \in Nat PROVE Upon(n)[n] \in D
    BY <1>3
  <2> QED BY <2>1
<1>5. h[0] = a
  BY <1>3
<1>6. ASSUME NEW n \in Nat PROVE h[n + 1] = step[<<n, h[n]>>]
  <2>1. Upon(n + 1) \in Upto(n + 1) /\ Upon(n) \in Upto(n)
    BY <1>3
  <2>2. Upon(n + 1)[n + 1] = step[<<n, Upon(n + 1)[n]>>]
    BY <2>1
  <2>3. Upon(n + 1)[n] = Upon(n)[n]
    <3>1. n + 1 \in Nat /\ n \in 0 .. n + 1 /\ n <= n
      OBVIOUS
    <3> HIDE DEF Upto
    <3> QED BY <1>1, <2>1, <3>1
  <2> QED BY <2>2, <2>3
<1> QED BY <1>4, <1>5, <1>6 DEF Recurs

\* A statement about numbers that holds of the first, and of the one behind each.
LEMMA Induction ==
  ASSUME NEW first \in Nat, NEW last \in Nat, NEW Holds, first \in Holds,
         \A n \in first .. last : n \in Holds /\ n < last => n + 1 \in Holds
  PROVE  \A n \in first .. last : n \in Holds
<1> DEFINE S == {n \in first .. last : n \notin Holds}
<1> SUFFICES ASSUME S # {} PROVE FALSE
  OBVIOUS
<1>1. S \subseteq Nat
  OBVIOUS
<1>2. PICK n \in S : \A m \in S : n <= m
  <2> HIDE DEF S
  <2> QED BY <1>1, LeastNumber
<1>3. n - 1 \in first .. last /\ n - 1 < last /\ n - 1 \notin S
  BY <1>2
<1>4. n - 1 \in Holds
  BY <1>3
<1>5. (n - 1) + 1 \in Holds
  BY <1>3, <1>4
<1> QED BY <1>2, <1>5

\* Whatever the prompt, what comes of stitching it is a segment.
LEMMA StitchedType ==
  ASSUME NEW T, NEW seg \in Replays(T), NEW prompt \in Seq(T)
  PROVE  Stitched(seg, prompt) \in Replays(T)
<1> DEFINE P == seg.prompt_ids
           R == seg.response_ids
           p == Len(P)
           n == Len(R)
<1>1. P \in Seq(T) /\ R \in Seq(T) /\ p \in Nat /\ n \in Nat
  BY ReplayFacts
<1>2. CASE ~IsPrefix(P, prompt)
  <2>1. Stitched(seg, prompt) = EmptySegment(prompt)
    BY <1>2 DEF Stitched
  <2> QED BY <2>1, FreshSound DEF Sound
<1>3. CASE IsPrefix(P, prompt)
  <2> DEFINE suffix == SubSeq(prompt, p + 1, Len(prompt))
             m == CommonPrefixLen(R, suffix)
             cut == Truncated(seg, m)
             more == SubSeq(suffix, m + 1, Len(suffix))
  <2>1. Stitched(seg, prompt) = WithContext(cut, more)
    BY <1>3 DEF Stitched
  <2> HIDE DEF P, R, p, n
  <2>2. suffix \in Seq(T) /\ Len(suffix) \in Nat
    BY <1>1
  <2> HIDE DEF suffix
  <2>3. m \in 0 .. n
    BY <1>1, <2>2, CommonFacts DEF n
  <2>4. m \in Nat
    BY <1>1, <2>3
  <2> HIDE DEF m
  <2>5. more \in Seq(T)
    BY <2>2, <2>4
  <2>6. cut \in Replays(T)
    BY <2>3, TruncatedFacts DEF n, R, IsTruncated
  <2> HIDE DEF cut, more
  <2> QED BY <2>1, <2>5, <2>6, ContextFacts
<1> QED BY <1>2, <1>3

-----------------------------------------------------------------------------
(* What merge_turns() makes of the turns. *)

\* Turns whose prompt and output are made of T.
TurnOf(T) == [prompt_ids : Seq(T), output_ids : Seq(T)]

\* Each turn is one of them.
LEMMA TurnFacts ==
  ASSUME NEW T, NEW turns \in Seq(TurnOf(T)), NEW n \in 1 .. Len(turns)
  PROVE  turns[n].prompt_ids \in Seq(T) /\ turns[n].output_ids \in Seq(T)
<1>1. turns[n] \in TurnOf(T)
  OBVIOUS
<1> QED BY <1>1 DEF TurnOf

\* The segment after the turn n, from the one before.
AfterTurn(turns, n, seg) ==
  WithOutput(IF n = 1 THEN EmptySegment(turns[1].prompt_ids)
             ELSE Stitched(seg, turns[n].prompt_ids),
             turns[n].output_ids)

\* It is a segment.
LEMMA AfterTurnType ==
  ASSUME NEW T, NEW turns \in Seq(TurnOf(T)), NEW n \in 1 .. Len(turns), NEW seg \in Replays(T)
  PROVE  AfterTurn(turns, n, seg) \in Replays(T)
<1>1. /\ turns[n].prompt_ids \in Seq(T) /\ turns[n].output_ids \in Seq(T)
      /\ turns[1].prompt_ids \in Seq(T)
  <2>1. 1 \in 1 .. Len(turns)
    OBVIOUS
  <2> QED BY <2>1, TurnFacts
<1> DEFINE before == IF n = 1 THEN EmptySegment(turns[1].prompt_ids)
                     ELSE Stitched(seg, turns[n].prompt_ids)
<1>2. before \in Replays(T)
  <2>1. EmptySegment(turns[1].prompt_ids) \in Replays(T)
    BY <1>1, FreshSound DEF Sound
  <2>2. Stitched(seg, turns[n].prompt_ids) \in Replays(T)
    BY <1>1, StitchedType
  <2> QED BY <2>1, <2>2
<1>3. AfterTurn(turns, n, seg) = WithOutput(before, turns[n].output_ids)
  BY DEF AfterTurn
<1> HIDE DEF before
<1> QED BY <1>1, <1>2, <1>3, WithOutputFacts

\* MergeTurns goes through the turns one by one.
LEMMA Replayed ==
  ASSUME NEW T, NEW turns \in Seq(TurnOf(T)), turns # << >>
  PROVE  \E h \in [0 .. Len(turns) -> Replays(T)] :
           /\ \A n \in 1 .. Len(turns) : h[n] = AfterTurn(turns, n, h[n - 1])
           /\ MergeTurns(turns) = h[Len(turns)]
<1> DEFINE N == Len(turns)
           D == Replays(T)
           first == EmptySegment(turns[1].prompt_ids)
           step == [q \in Nat \X D |-> IF q[1] + 1 \in 1 .. N THEN AfterTurn(turns, q[1] + 1, q[2])
                                       ELSE q[2]]
           Eq(f) == f = [n \in DOMAIN turns |->
                           WithOutput(IF n = 1 THEN EmptySegment(turns[1].prompt_ids)
                                      ELSE Stitched(f[n - 1], turns[n].prompt_ids),
                                      turns[n].output_ids)]
           merged == CHOOSE f : Eq(f)
<1>1. N \in Nat \ {0} /\ DOMAIN turns = 1 .. N /\ 1 \in 1 .. N
  OBVIOUS
<1>2. first \in D
  <2>1. turns[1].prompt_ids \in Seq(T)
    BY <1>1, TurnFacts
  <2> QED BY <2>1, FreshSound DEF Sound
<1>3. step \in Steps(D)
  <2>1. ASSUME NEW q \in Nat \X D PROVE step[q] \in D
    <3>1. CASE q[1] + 1 \in 1 .. N
      <4> DEFINE k == q[1] + 1
                 x == q[2]
      <4>1. k \in 1 .. Len(turns) /\ x \in Replays(T)
        BY <3>1
      <4>2. step[q] = AfterTurn(turns, k, x)
        BY <3>1
      <4> HIDE DEF k, x, step
      <4> QED BY <4>1, <4>2, AfterTurnType
    <3>2. CASE ~(q[1] + 1 \in 1 .. N)
      <4>1. q[2] \in D
        OBVIOUS
      <4> QED BY <3>2, <4>1
    <3> QED BY <3>1, <3>2
  <2>2. step = [q \in Nat \X D |-> step[q]]
    OBVIOUS
  <2> HIDE DEF step, D
  <2> QED BY <2>1, <2>2 DEF Steps
<1>4. PICK h : Recurs(h, D, first, step)
  <2> HIDE DEF step, D, first
  <2> QED BY <1>2, <1>3, Recursion
<1>5. h \in [Nat -> D] /\ h[0] = first /\ \A n \in Nat : h[n + 1] = step[<<n, h[n]>>]
  BY <1>4 DEF Recurs
<1>6. ASSUME NEW n \in 1 .. N PROVE h[n] = AfterTurn(turns, n, h[n - 1])
  <2>1. n - 1 \in Nat /\ (n - 1) + 1 = n /\ h[n - 1] \in D
    BY <1>1, <1>5
  <2>2. h[n] = step[<<n - 1, h[n - 1]>>]
    BY <2>1, <1>5
  <2>3. <<n - 1, h[n - 1]>> \in Nat \X D
    BY <2>1
  <2>4. step[<<n - 1, h[n - 1]>>] = AfterTurn(turns, n, h[n - 1])
    BY <2>1, <2>3
  <2> QED BY <2>2, <2>4
<1> HIDE DEF step, D
<1> DEFINE g == [n \in 1 .. N |-> h[n]]
<1>7. Eq(g)
  <2> DEFINE W(f, n) == WithOutput(IF n = 1 THEN EmptySegment(turns[1].prompt_ids)
                                   ELSE Stitched(f[n - 1], turns[n].prompt_ids),
                                   turns[n].output_ids)
  <2>1. ASSUME NEW n \in 1 .. N PROVE g[n] = W(g, n)
    <3>1. g[n] = h[n] /\ (n # 1 => g[n - 1] = h[n - 1])
      BY <1>1
    <3> HIDE DEF g
    <3>2. h[n] = W(h, n)
      BY <1>6 DEF AfterTurn
    <3>3. W(h, n) = W(g, n)
      BY <3>1
    <3> HIDE DEF W
    <3> QED BY <3>1, <3>2, <3>3
  <2>2. g = [n \in 1 .. N |-> g[n]]
    OBVIOUS
  <2> HIDE DEF g
  <2>3. [n \in 1 .. N |-> g[n]] = [n \in 1 .. N |-> W(g, n)]
    <3> HIDE DEF W
    <3> QED BY <2>1
  <2>4. g = [n \in DOMAIN turns |-> W(g, n)]
    BY <2>2, <2>3, <1>1
  <2> QED BY <2>4
<1>8. Eq(merged)
  <2> HIDE DEF Eq
  <2> QED BY <1>7
<1>9. MergeTurns(turns) = merged[N]
  BY DEF MergeTurns
<1> HIDE DEF merged, g
<1>10. ASSUME NEW n \in 1 .. N
       PROVE  merged[n] = WithOutput(IF n = 1 THEN EmptySegment(turns[1].prompt_ids)
                                     ELSE Stitched(merged[n - 1], turns[n].prompt_ids),
                                     turns[n].output_ids)
  <2> DEFINE W(f, k) == WithOutput(IF k = 1 THEN EmptySegment(turns[1].prompt_ids)
                                   ELSE Stitched(f[k - 1], turns[k].prompt_ids),
                                   turns[k].output_ids)
             F == [k \in DOMAIN turns |-> W(merged, k)]
  <2>1. merged = F
    BY <1>8
  <2>2. F[n] = W(merged, n)
    <3> HIDE DEF W
    <3> QED BY <1>1
  <2> HIDE DEF F
  <2> QED BY <2>1, <2>2
<1>11. \A n \in 1 .. N : merged[n] = h[n]
  <2> DEFINE Holds == {n \in 1 .. N : merged[n] = h[n]}
  <2>1. 1 \in Holds
    <3>1. merged[1] = AfterTurn(turns, 1, h[0])
      BY <1>1, <1>10 DEF AfterTurn
    <3>2. h[1] = AfterTurn(turns, 1, h[1 - 1])
      BY <1>1, <1>6
    <3>3. 1 - 1 = 0
      OBVIOUS
    <3> QED BY <1>1, <3>1, <3>2, <3>3
  <2>2. ASSUME NEW n \in 1 .. N, n \in Holds, n < N PROVE n + 1 \in Holds
    <3>1. n + 1 \in 1 .. N /\ n + 1 # 1 /\ (n + 1) - 1 = n /\ merged[n] = h[n]
      BY <1>1, <2>2
    <3>2. merged[n + 1] = WithOutput(Stitched(merged[n], turns[n + 1].prompt_ids), turns[n + 1].output_ids)
      BY <3>1, <1>10
    <3>3. h[n + 1] = AfterTurn(turns, n + 1, h[n])
      <4>1. h[n + 1] = AfterTurn(turns, n + 1, h[(n + 1) - 1])
        BY <3>1, <1>6
      <4> QED BY <3>1, <4>1
    <3>4. AfterTurn(turns, n + 1, h[n])
            = WithOutput(Stitched(h[n], turns[n + 1].prompt_ids), turns[n + 1].output_ids)
      BY <3>1 DEF AfterTurn
    <3> QED BY <3>1, <3>2, <3>3, <3>4
  <2> HIDE DEF Holds
  <2>3. \A n \in 1 .. N : n \in Holds
    <3>1. 1 \in Nat /\ N \in Nat
      BY <1>1
    <3> HIDE DEF N
    <3> QED BY <2>1, <2>2, <3>1, Induction
  <2> QED BY <2>3 DEF Holds
<1> DEFINE r == [n \in 0 .. N |-> h[n]]
<1>12. r \in [0 .. N -> D] /\ \A n \in 0 .. N : r[n] = h[n]
  BY <1>1, <1>5
<1> HIDE DEF r
<1>13. \A n \in 1 .. N : n \in 0 .. N /\ n - 1 \in 0 .. N
  BY <1>1
<1>14. \A n \in 1 .. N : r[n] = AfterTurn(turns, n, r[n - 1])
  BY <1>6, <1>12, <1>13
<1>15. MergeTurns(turns) = r[N]
  BY <1>1, <1>9, <1>11, <1>12, <1>13
<1> QED BY <1>12, <1>14, <1>15 DEF D

\* A turn with its output, and where that is.
Text(turn) == turn.prompt_ids \o turn.output_ids
Interval(turn) == <<Len(turn.prompt_ids), Len(turn.prompt_ids) + Len(turn.output_ids)>>

\* The outputs among the first n turns that the later ones of these contain.
KeptUpto(turns, n) ==
  {i \in 1 .. n : \A j \in i + 1 .. n : IsPrefix(Text(turns[i]), turns[j].prompt_ids)}
Intervals(turns, n) ==
  {Interval(turns[i]) : i \in {j \in KeptUpto(turns, n) : turns[j].output_ids # << >>}}

\* A turn reads as its prompt, and behind it its output.
LEMMA WholeFacts ==
  ASSUME NEW T, NEW turns \in Seq(TurnOf(T)), NEW i \in 1 .. Len(turns)
  PROVE  /\ turns[i].prompt_ids \in Seq(T) /\ turns[i].output_ids \in Seq(T)
         /\ Len(turns[i].prompt_ids) \in Nat /\ Len(turns[i].output_ids) \in Nat
         /\ Text(turns[i]) \in Seq(T)
         /\ Len(Text(turns[i])) = Interval(turns[i])[2]
         /\ Interval(turns[i])[1] = Len(turns[i].prompt_ids)
         /\ Interval(turns[i])[2] = Len(turns[i].prompt_ids) + Len(turns[i].output_ids)
         /\ turns[i].output_ids = << >> <=> Len(turns[i].output_ids) = 0
<1>1. turns[i].prompt_ids \in Seq(T) /\ turns[i].output_ids \in Seq(T)
  BY TurnFacts
<1> DEFINE a == turns[i].prompt_ids
           b == turns[i].output_ids
           w == Text(turns[i])
<1>2. w = a \o b /\ a \in Seq(T) /\ b \in Seq(T)
  BY <1>1 DEF Text
<1>3. Interval(turns[i])[1] = Len(a) /\ Interval(turns[i])[2] = Len(a) + Len(b)
  BY DEF Interval
<1> HIDE DEF a, b, w
<1>4. IsJoin(w, a, b, T)
  BY <1>2, Behind
<1>5. b = << >> <=> Len(b) = 0
  BY <1>2
<1> QED BY <1>2, <1>3, <1>4, <1>5 DEF IsJoin, a, b, w

\* The next turn: what its prompt contains is kept, and its own output comes to it.
LEMMA KeptByNext ==
  ASSUME NEW T, NEW turns \in Seq(TurnOf(T)), NEW n \in 1 .. Len(turns) - 1
  PROVE  KeptUpto(turns, n + 1)
           = {i \in KeptUpto(turns, n) : IsPrefix(Text(turns[i]), turns[n + 1].prompt_ids)}
               \cup {n + 1}
<1>1. n \in Nat /\ 1 .. n + 1 = 1 .. n \cup {n + 1}
  OBVIOUS
<1>2. \A i \in 1 .. n : i + 1 .. n + 1 = (i + 1 .. n) \cup {n + 1}
  BY <1>1
<1>3. (n + 1) + 1 .. n + 1 = {}
  BY <1>1
<1> DEFINE A(i) == {j \in i + 1 .. n : ~IsPrefix(Text(turns[i]), turns[j].prompt_ids)}
           B(i) == {j \in i + 1 .. n + 1 : ~IsPrefix(Text(turns[i]), turns[j].prompt_ids)}
<1>4. \A i \in 1 .. n : B(i) = {} <=> A(i) = {} /\ IsPrefix(Text(turns[i]), turns[n + 1].prompt_ids)
  BY <1>2
<1>5. B(n + 1) = {}
  BY <1>3
<1>6. KeptUpto(turns, n) = {i \in 1 .. n : A(i) = {}}
  BY DEF KeptUpto
<1>7. KeptUpto(turns, n + 1) = {i \in 1 .. n + 1 : B(i) = {}}
  BY DEF KeptUpto
<1> HIDE DEF A, B
<1> QED BY <1>1, <1>4, <1>5, <1>6, <1>7

\* Which are those that survive in the segment.
LEMMA IntervalsNext ==
  ASSUME NEW T, NEW turns \in Seq(TurnOf(T)), NEW n \in 1 .. Len(turns) - 1
  PROVE  LET prompt == turns[n + 1].prompt_ids
             output == turns[n + 1].output_ids
             before == Surviving(Intervals(turns, n), Text(turns[n]), prompt)
         IN  Intervals(turns, n + 1)
               = IF output = << >> THEN before
                 ELSE before \cup {<<Len(prompt), Len(prompt) + Len(output)>>}
<1> DEFINE prompt == turns[n + 1].prompt_ids
           output == turns[n + 1].output_ids
           ids == Text(turns[n])
           old == Intervals(turns, n)
           before == Surviving(old, ids, prompt)
           Has(i) == IsPrefix(Text(turns[i]), prompt)
           K == KeptUpto(turns, n)
<1>1. /\ n \in Nat /\ n + 1 \in 1 .. Len(turns) /\ n \in 1 .. Len(turns)
      /\ \A i \in 1 .. n : i \in 1 .. Len(turns)
  OBVIOUS
<1>2. /\ prompt \in Seq(T) /\ Len(prompt) \in Nat
      /\ Interval(turns[n + 1]) = <<Len(prompt), Len(prompt) + Len(output)>>
  BY <1>1, TurnFacts DEF Interval
<1>3. KeptUpto(turns, n + 1) = {i \in K : Has(i)} \cup {n + 1}
  BY KeptByNext
<1>4. K \subseteq 1 .. n
  BY DEF KeptUpto
\* A turn that is kept is in the segment, as it reads.
<1>5. ASSUME NEW i \in K
      PROVE  /\ Interval(turns[i])[2] \in Nat
             /\ \A k \in 1 .. Interval(turns[i])[2] : Text(turns[i])[k] = ids[k]
  <2> DEFINE w == Text(turns[i])
             p == turns[n].prompt_ids
             o == turns[n].output_ids
             e == Interval(turns[i])[2]
  <2>1. w \in Seq(T) /\ Len(w) = e /\ e \in Nat
    <3>1. i \in 1 .. Len(turns)
      BY <1>1, <1>4
    <3>2. w \in Seq(T) /\ Len(w) = e
      BY <3>1, WholeFacts
    <3> HIDE DEF w, e
    <3> QED BY <3>2
  <2>2. CASE i = n
    BY <2>1, <2>2
  <2>3. CASE i # n
    <3>1. n \in i + 1 .. n
      BY <2>3, <1>1, <1>4
    <3>2. IsPrefix(w, p)
      BY <3>1 DEF KeptUpto
    <3>3. p \in Seq(T) /\ o \in Seq(T) /\ ids = p \o o
      BY <1>1, TurnFacts DEF Text
    <3> HIDE DEF w, p, o, ids, e
    <3>4. Len(w) <= Len(p) /\ \A k \in 1 .. Len(w) : w[k] = p[k]
      BY <2>1, <3>2, <3>3, PrefixIs, SMTT(30)
    <3>5. IsJoin(ids, p, o, T)
      BY <3>3, Behind
    <3>6. \A k \in 1 .. e : w[k] = ids[k]
      <4>1. \A k \in 1 .. e : k \in 1 .. Len(p)
        BY <2>1, <3>4, <3>5 DEF IsJoin
      <4> QED BY <4>1, <2>1, <3>4, <3>5 DEF IsJoin
    <3> QED BY <2>1, <3>6 DEF e, w
  <2> QED BY <2>2, <2>3
<1>6. ASSUME NEW i \in K
      PROVE  Has(i) <=> /\ Interval(turns[i])[2] <= Len(prompt)
                        /\ \A k \in 1 .. Interval(turns[i])[2] : ids[k] = prompt[k]
  <2> DEFINE w == Text(turns[i])
             e == Interval(turns[i])[2]
  <2>1. w \in Seq(T) /\ Len(w) = e
    BY <1>1, <1>4, WholeFacts
  <2>2. \A k \in 1 .. e : w[k] = ids[k]
    BY <1>5
  <2>3. (Has(i) <=> IsPrefix(w, prompt)) /\ prompt \in Seq(T)
    BY <1>2
  <2> HIDE DEF w, e, ids, prompt, Has
  <2>4. IsPrefix(w, prompt) <=> Len(w) <= Len(prompt) /\ \A k \in 1 .. Len(w) : w[k] = prompt[k]
    BY ONLY <2>1, <2>3, PrefixIs
  <2>5. Has(i) <=> e <= Len(prompt) /\ \A k \in 1 .. e : ids[k] = prompt[k]
    BY <2>1, <2>2, <2>3, <2>4
  <2> QED BY <2>5 DEF e
<1> DEFINE In(out) == out[2] <= Len(prompt) /\ \A k \in 1 .. out[2] : ids[k] = prompt[k]
<1>7. before = {out \in old : In(out)}
  BY DEF Surviving
<1>8. \A i \in K : Has(i) <=> In(Interval(turns[i]))
  BY <1>6
<1>9. old = {Interval(turns[i]) : i \in {j \in K : turns[j].output_ids # << >>}}
  BY DEF Intervals
<1>10. Intervals(turns, n + 1)
         = {Interval(turns[i]) : i \in {j \in {i \in K : Has(i)} \cup {n + 1} : turns[j].output_ids # << >>}}
  BY <1>3 DEF Intervals
<1> HIDE DEF In, Has, K, old, before, ids
<1>11. before = {Interval(turns[i]) : i \in {j \in {i \in K : Has(i)} : turns[j].output_ids # << >>}}
  BY <1>7, <1>8, <1>9
<1>12. CASE output = << >>
  <2>1. Intervals(turns, n + 1)
          = {Interval(turns[i]) : i \in {j \in {i \in K : Has(i)} : turns[j].output_ids # << >>}}
    BY <1>10, <1>12
  <2> QED BY <2>1, <1>11, <1>12 DEF before, old, ids
<1>13. CASE output # << >>
  <2>1. Intervals(turns, n + 1)
          = {Interval(turns[i]) : i \in {j \in {i \in K : Has(i)} : turns[j].output_ids # << >>}}
              \cup {Interval(turns[n + 1])}
    BY <1>10, <1>13
  <2> QED BY <2>1, <1>2, <1>11, <1>13 DEF before, old, ids
<1> QED BY <1>12, <1>13

\* The segment of the turns is sound.
LEMMA MergedSound ==
  ASSUME NEW T, NEW turns \in Seq(TurnOf(T)), turns # << >>
  PROVE  Sound(MergeTurns(turns), Text(turns[Len(turns)]), Intervals(turns, Len(turns)), T)
<1> DEFINE N == Len(turns)
<1>1. PICK h \in [0 .. N -> Replays(T)] :
        /\ \A n \in 1 .. N : h[n] = AfterTurn(turns, n, h[n - 1])
        /\ MergeTurns(turns) = h[N]
  BY Replayed
<1>2. N \in Nat \ {0} /\ 1 \in 1 .. N /\ N \in 1 .. N
  OBVIOUS
<1> DEFINE S(n) == Sound(h[n], Text(turns[n]), Intervals(turns, n), T)
           Holds == {n \in 1 .. N : S(n)}
<1>3. 1 \in Holds
  <2> DEFINE prompt == turns[1].prompt_ids
             output == turns[1].output_ids
             none == {}
             fresh == EmptySegment(prompt)
             now == IF output = << >> THEN none ELSE none \cup {<<Len(prompt), Len(prompt) + Len(output)>>}
  <2>1. prompt \in Seq(T) /\ output \in Seq(T)
    BY <1>2, TurnFacts
  <2>2. h[1] = WithOutput(fresh, output)
    BY <1>1, <1>2 DEF AfterTurn
  <2>3. Sound(fresh, prompt, none, T)
    BY <2>1, FreshSound
  <2>4. Intervals(turns, 1) = now
    <3>1. KeptUpto(turns, 1) = {1}
      BY DEF KeptUpto
    <3> QED BY <3>1 DEF Intervals, Interval
  <2>5. Text(turns[1]) = prompt \o output
    BY DEF Text
  <2> HIDE DEF fresh, none
  <2>6. Sound(WithOutput(fresh, output), prompt \o output, now, T)
    BY <2>1, <2>3, OutputSound
  <2> QED BY <1>2, <2>2, <2>4, <2>5, <2>6
<1>4. ASSUME NEW n \in 1 .. N, n \in Holds, n < N PROVE n + 1 \in Holds
  <2> DEFINE prompt == turns[n + 1].prompt_ids
             output == turns[n + 1].output_ids
             ids == Text(turns[n])
             old == Intervals(turns, n)
             before == Surviving(old, ids, prompt)
             now == IF output = << >> THEN before ELSE before \cup {<<Len(prompt), Len(prompt) + Len(output)>>}
             seg == h[n]
             cut == Stitched(seg, prompt)
  <2>1. n + 1 \in 1 .. N /\ n + 1 # 1 /\ (n + 1) - 1 = n /\ n \in 1 .. Len(turns) - 1
    BY <1>2, <1>4
  <2>2. prompt \in Seq(T) /\ output \in Seq(T)
    BY <2>1, TurnFacts
  <2>3. Sound(seg, ids, old, T)
    BY <1>4
  <2>4. h[n + 1] = WithOutput(cut, output)
    <3>1. h[n + 1] = AfterTurn(turns, n + 1, h[(n + 1) - 1])
      BY <2>1, <1>1
    <3> QED BY <3>1, <2>1 DEF AfterTurn
  <2>5. Intervals(turns, n + 1) = now
    BY <2>1, IntervalsNext
  <2>6. Text(turns[n + 1]) = prompt \o output
    BY DEF Text
  <2> HIDE DEF seg, ids, old, prompt, output
  <2>7. Sound(cut, prompt, before, T)
    BY <2>2, <2>3, StitchedSound
  <2> HIDE DEF cut, before
  <2>8. Sound(WithOutput(cut, output), prompt \o output, now, T)
    BY <2>2, <2>7, OutputSound
  <2> QED BY <2>1, <2>4, <2>5, <2>6, <2>8
<1> HIDE DEF Holds
<1>5. \A n \in 1 .. N : n \in Holds
  <2>1. 1 \in Nat /\ N \in Nat
    BY <1>2
  <2> HIDE DEF N
  <2> QED BY <1>3, <1>4, <2>1, Induction
<1>6. S(N)
  BY <1>2, <1>5 DEF Holds
<1> QED BY <1>1, <1>6

\* A sound segment is what the turns ask for.
LEMMA SoundIsFaithful ==
  ASSUME NEW T, NEW turns \in Seq(TurnOf(T)), turns # << >>, NEW seg,
         Sound(seg, Text(turns[Len(turns)]), Intervals(turns, Len(turns)), T)
  PROVE  Faithful(seg, turns)
<1> DEFINE N == Len(turns)
           last == turns[N]
           whole == Intervals(turns, N)
           p == Len(seg.prompt_ids)
           n == Len(seg.response_ids)
           ids == seg.prompt_ids \o seg.response_ids
           Positions(i) == Len(turns[i].prompt_ids) + 1
                          .. Len(turns[i].prompt_ids) + Len(turns[i].output_ids)
           kept == {j \in DOMAIN turns : Kept(turns, j)}
           masked == {k \in DOMAIN ids : k > p /\ seg.loss_mask[k - p] = 1}
<1>1. /\ seg \in Replays(T) /\ Text(last) \in Seq(T) /\ whole \subseteq Nat \X Nat
      /\ Reads(seg, Text(last)) /\ Masked(seg, whole) /\ Scored(seg) /\ Covered(seg, whole)
  BY DEF Sound
<1>2. /\ seg.prompt_ids \in Seq(T) /\ seg.response_ids \in Seq(T) /\ p \in Nat /\ n \in Nat
      /\ Len(seg.loss_mask) = n
  BY <1>1, ReplayFacts
<1>3. N \in Nat \ {0} /\ DOMAIN turns = 1 .. N /\ N \in 1 .. N
  OBVIOUS
<1>4. IsJoin(ids, seg.prompt_ids, seg.response_ids, T)
  BY <1>2, Behind
<1>5. ids = Text(last) /\ DOMAIN ids = 1 .. p + n
  <2> DEFINE read == Text(last)
  <2>1. /\ Len(read) = p + n
        /\ \A k \in 1 .. p : read[k] = seg.prompt_ids[k]
        /\ \A k \in 1 .. n : read[p + k] = seg.response_ids[k]
    BY <1>1 DEF Reads
  <2>2. /\ ids \in Seq(T) /\ Len(ids) = p + n
        /\ \A k \in 1 .. p : ids[k] = seg.prompt_ids[k]
        /\ \A k \in 1 .. n : ids[p + k] = seg.response_ids[k]
    BY <1>4 DEF IsJoin
  <2>3. read \in Seq(T)
    BY <1>1
  <2> HIDE DEF read, ids, p, n
  <2>4. ASSUME NEW k \in 1 .. p + n PROVE ids[k] = read[k]
    <3>1. CASE k \in 1 .. p
      BY <3>1, <2>1, <2>2
    <3>2. CASE k - p \in 1 .. n
      <4>1. PICK j \in 1 .. n : k = p + j
        <5>1. k - p \in 1 .. n /\ k = p + (k - p)
          BY <3>2, <1>2
        <5> QED BY <5>1
      <4> QED BY <4>1, <2>1, <2>2
    <3> QED BY <3>1, <3>2, <1>2
  <2>5. ids = read
    BY <2>1, <2>2, <2>3, <2>4
  <2>6. DOMAIN ids = 1 .. p + n
    BY <2>2
  <2> QED BY <2>5, <2>6 DEF read
<1>6. ids = last.prompt_ids \o last.output_ids
  BY <1>5 DEF Text
<1>7. whole = {Interval(turns[i]) : i \in {j \in kept : turns[j].output_ids # << >>}}
  <2>1. kept = KeptUpto(turns, N)
    BY <1>3 DEF Kept, KeptUpto, Text
  <2> QED BY <2>1 DEF Intervals
<1>8. kept \subseteq 1 .. N
  BY <1>3
<1>9. ASSUME NEW out \in whole
      PROVE  out[1] \in Nat /\ out[2] \in Nat /\ p <= out[1] /\ out[2] <= p + n
  <2>1. /\ <<out[1] - p, out[2] - p>> \in seg.output_spans /\ out[1] \in Nat /\ out[2] \in Nat
        /\ p <= out[1]
    BY <1>1 DEF Covered
  <2>2. out[2] - p <= n
    BY <2>1, <1>1, ReplayFacts
  <2> HIDE DEF p, n, whole
  <2> QED BY <1>2, <2>1, <2>2
<1>10. \A k \in 1 .. n : seg.loss_mask[k] = 1 <=>
         \E out \in whole : out[1] < p + k /\ p + k <= out[2]
  BY <1>1 DEF Masked
<1> HIDE DEF whole, p, n, ids, kept
<1>11. ASSUME NEW k \in masked PROVE k \in UNION {Positions(i) : i \in kept}
  <2>1. k \in 1 .. p + n /\ k > p /\ seg.loss_mask[k - p] = 1
    BY <1>5
  <2>2. k - p \in 1 .. n /\ p + (k - p) = k
    BY <2>1, <1>2
  <2>3. PICK out \in whole : out[1] < p + (k - p) /\ p + (k - p) <= out[2]
    BY <2>1, <2>2, <1>10
  <2>4. PICK i \in kept : out = Interval(turns[i])
    BY <1>7
  <2>5. /\ Len(turns[i].prompt_ids) \in Nat /\ Len(turns[i].output_ids) \in Nat
        /\ out[1] = Len(turns[i].prompt_ids)
        /\ out[2] = Len(turns[i].prompt_ids) + Len(turns[i].output_ids)
    BY <2>4, <1>8, WholeFacts
  <2>6. PICK a \in Nat, b \in Nat : a = Len(turns[i].prompt_ids) /\ b = Len(turns[i].output_ids)
    BY <2>5
  <2>7. k \in Nat /\ a < k /\ k <= a + b
    <3>1. k \in Nat
      BY <2>1, <1>2
    <3>2. out[1] < k /\ k <= out[2]
      BY <2>2, <2>3
    <3>3. a = out[1] /\ a + b = out[2]
      BY <2>5, <2>6
    <3> QED BY <3>1, <3>2, <3>3
  <2>8. k \in a + 1 .. a + b
    BY <2>7
  <2>9. k \in Positions(i)
    BY <2>6, <2>8
  <2> QED BY <2>9
<1>12. ASSUME NEW k \in UNION {Positions(i) : i \in kept} PROVE k \in masked
  <2>1. PICK i \in kept : k \in Positions(i)
    BY <1>12
  <2>2. i \in 1 .. N
    BY <1>8
  <2>3. /\ Len(turns[i].prompt_ids) \in Nat /\ Len(turns[i].output_ids) \in Nat
        /\ Interval(turns[i])[1] = Len(turns[i].prompt_ids)
        /\ Interval(turns[i])[2] = Len(turns[i].prompt_ids) + Len(turns[i].output_ids)
        /\ turns[i].output_ids = << >> <=> Len(turns[i].output_ids) = 0
    BY <2>2, WholeFacts
  <2> DEFINE a == Len(turns[i].prompt_ids)
             b == Len(turns[i].output_ids)
             lo == Interval(turns[i])[1]
             hi == Interval(turns[i])[2]
  <2>9. a \in Nat /\ b \in Nat /\ k \in a + 1 .. a + b /\ lo = a /\ hi = a + b
    BY <2>1, <2>3
  <2>4. k \in Nat /\ lo < k /\ k <= hi /\ b # 0
    <3> HIDE DEF a, b, lo, hi
    <3> QED BY <2>9
  <2>5. Interval(turns[i]) \in whole
    BY <2>3, <2>4, <1>7
  <2>6. p <= Interval(turns[i])[1] /\ Interval(turns[i])[2] <= p + n
    BY <2>5, <1>9
  <2>7. k \in 1 .. p + n /\ k > p /\ k - p \in 1 .. n /\ p + (k - p) = k
    <3> HIDE DEF a, b, lo, hi
    <3>1. p <= lo /\ hi <= p + n
      BY <2>6 DEF lo, hi
    <3>2. lo \in Nat /\ hi \in Nat
      BY <2>9
    <3> QED BY <3>1, <3>2, <2>4, <1>2
  <2>8. seg.loss_mask[k - p] = 1
    BY <2>4, <2>5, <2>7, <1>10
  <2> QED BY <2>7, <2>8, <1>5
<1>13. masked = UNION {Positions(i) : i \in kept}
  <2> HIDE DEF masked, Positions
  <2> QED BY <1>11, <1>12
<1>14. \A k \in DOMAIN seg.response_ids :
         seg.rollout_log_probs[k] = IF seg.loss_mask[k] = 1 THEN seg.response_ids[k] ELSE NoProb
  <2>1. DOMAIN seg.response_ids = 1 .. Len(seg.response_ids)
    BY <1>2
  <2> QED BY <2>1, <1>1 DEF Scored
<1>15. Len(seg.loss_mask) = Len(seg.response_ids)
  BY <1>2 DEF n
<1> QED BY <1>6, <1>13, <1>14, <1>15 DEF Faithful, ids, p, kept

\* A segment that was merged.
Piece(segments, i) ==
  [kind |-> segments[i].kind, turns |-> segments[i].turns, tokens |-> MergeTurns(segments[i].turns)]

\* What is said of the first n segments and what came of them.
OutFrom(segments, n, out) ==
  /\ \A k \in 1 .. Len(out) : \E i \in 1 .. n : out[k] = Piece(segments, i)
  /\ \A i \in 1 .. n : Piece(segments, i).tokens.response_ids # << >> =>
       \E k \in 1 .. Len(out) : out[k] = Piece(segments, i)

\* MergeTurnSegments goes through the segments one by one, and leaves out those
\* without a response.
LEMMA OutIs ==
  ASSUME NEW segments, Len(segments) \in Nat
  PROVE  /\ DOMAIN MergeTurnSegments(segments) = 1 .. Len(MergeTurnSegments(segments))
         /\ OutFrom(segments, Len(segments), MergeTurnSegments(segments))
<1> DEFINE N == Len(segments)
           Pieces == {Piece(segments, i) : i \in 1 .. N}
           D == Seq(Pieces)
           Next1(n, x) == IF Piece(segments, n).tokens.response_ids = << >> THEN x
                          ELSE Append(x, Piece(segments, n))
           step == [q \in Nat \X D |-> IF q[1] + 1 \in 1 .. N THEN Next1(q[1] + 1, q[2]) ELSE q[2]]
           Entry(f, n) == IF n = 0 THEN << >>
                         ELSE LET tokens == MergeTurns(segments[n].turns)
                              IN  IF tokens.response_ids = << >> THEN f[n - 1]
                                  ELSE Append(f[n - 1], [kind |-> segments[n].kind,
                                                         turns |-> segments[n].turns,
                                                         tokens |-> tokens])
           Eq(f) == f = [n \in 0 .. N |-> Entry(f, n)]
           out == CHOOSE f : Eq(f)
<1>1. \A f : \A n \in 1 .. N : Entry(f, n) = Next1(n, f[n - 1])
  BY DEF Piece
<1>2. \A f : Entry(f, 0) = << >>
  OBVIOUS
<1>3. \A n \in 1 .. N : \A x \in D : Next1(n, x) \in D
  <2> TAKE n \in 1 .. N
  <2> TAKE x \in D
  <2>1. Piece(segments, n) \in Pieces
    OBVIOUS
  <2> HIDE DEF Pieces
  <2>2. Append(x, Piece(segments, n)) \in D
    BY <2>1
  <2> QED BY <2>2
<1>4. MergeTurnSegments(segments) = out[N]
  BY DEF MergeTurnSegments
<1> HIDE DEF Entry, Next1
<1>5. step \in Steps(D)
  <2>1. ASSUME NEW q \in Nat \X D PROVE step[q] \in D
    <3>1. q[1] \in Nat /\ q[2] \in D
      OBVIOUS
    <3> HIDE DEF D
    <3> QED BY <3>1, <1>3
  <2>2. step = [q \in Nat \X D |-> step[q]]
    OBVIOUS
  <2> HIDE DEF step, D
  <2> QED BY <2>1, <2>2 DEF Steps
<1>6. << >> \in D
  OBVIOUS
<1>7. PICK h : Recurs(h, D, << >>, step)
  <2> HIDE DEF step, D
  <2> QED BY <1>5, <1>6, Recursion
<1>8. h \in [Nat -> D] /\ h[0] = << >> /\ \A n \in Nat : h[n + 1] = step[<<n, h[n]>>]
  BY <1>7 DEF Recurs
<1>9. ASSUME NEW n \in 1 .. N PROVE h[n] = Next1(n, h[n - 1]) /\ n - 1 \in Nat /\ h[n - 1] \in D
  <2>0. n - 1 \in Nat /\ (n - 1) + 1 = n
    OBVIOUS
  <2>1. n - 1 \in Nat /\ (n - 1) + 1 = n /\ h[n - 1] \in D
    <3> HIDE DEF D
    <3> QED BY <2>0, <1>8
  <2>2. h[n] = step[<<n - 1, h[n - 1]>>]
    <3> HIDE DEF D, step, N
    <3> DEFINE m == n - 1
    <3>1. m \in Nat /\ m + 1 = n
      BY <2>0
    <3> HIDE DEF m
    <3>2. h[m + 1] = step[<<m, h[m]>>]
      BY <3>1, <1>8
    <3> QED BY <3>1, <3>2 DEF m
  <2>3. <<n - 1, h[n - 1]>> \in Nat \X D
    BY <2>1
  <2> HIDE DEF D
  <2>4. step[<<n - 1, h[n - 1]>>] = Next1(n, h[n - 1])
    BY <2>1, <2>3
  <2> QED BY <2>1, <2>2, <2>4
<1> HIDE DEF step, D, Pieces
<1> DEFINE g == [n \in 0 .. N |-> h[n]]
<1>10. ASSUME NEW n \in 0 .. N PROVE g[n] = Entry(g, n)
  <2>1. CASE n = 0
    BY <2>1, <1>2, <1>8
  <2>2. CASE n # 0
    <3>1. n \in 1 .. N /\ g[n] = h[n] /\ g[n - 1] = h[n - 1]
      BY <2>2
    <3> HIDE DEF g
    <3> QED BY <3>1, <1>1, <1>9
  <2> QED BY <2>1, <2>2
<1>11. Eq(g)
  <2>1. g = [n \in 0 .. N |-> g[n]]
    OBVIOUS
  <2> HIDE DEF g
  <2>2. [n \in 0 .. N |-> g[n]] = [n \in 0 .. N |-> Entry(g, n)]
    BY <1>10
  <2> QED BY <2>1, <2>2
<1>12. Eq(out)
  <2> HIDE DEF Eq
  <2> QED BY <1>11
<1> HIDE DEF out, g
<1>13. \A n \in 0 .. N : out[n] = Entry(out, n)
  <2> DEFINE F == [n \in 0 .. N |-> Entry(out, n)]
  <2>1. out = F
    BY <1>12
  <2>2. \A n \in 0 .. N : F[n] = Entry(out, n)
    OBVIOUS
  <2> HIDE DEF F
  <2> QED BY <2>1, <2>2
<1> DEFINE S(n) == out[n] \in D /\ OutFrom(segments, n, out[n])
           Holds == {n \in 0 .. N : S(n)}
<1>14. 0 \in Holds
  <2>1. 0 \in 0 .. N /\ out[0] = << >>
    BY <1>2, <1>13
  <2>2. S(0)
    BY <2>1, <1>6 DEF OutFrom
  <2> QED BY <2>1, <2>2
<1>15. ASSUME NEW n \in 0 .. N, n \in Holds, n < N PROVE n + 1 \in Holds
  <2> DEFINE x == out[n]
             y == out[n + 1]
             piece == Piece(segments, n + 1)
  <2>1. n + 1 \in 1 .. N /\ n + 1 \in 0 .. N /\ (n + 1) - 1 = n /\ n \in Nat
    BY <1>15
  <2>2. y = Next1(n + 1, x)
    <3>1. out[n + 1] = Next1(n + 1, out[(n + 1) - 1])
      BY <2>1, <1>1, <1>13
    <3> QED BY <3>1, <2>1
  <2>3. x \in D /\ OutFrom(segments, n, x)
    BY <1>15
  <2>4. y \in D
    BY <2>1, <2>2, <2>3, <1>3
  <2>5. y = IF piece.tokens.response_ids = << >> THEN x ELSE Append(x, piece)
    BY <2>2 DEF Next1
  <2>6. 1 .. n + 1 = 1 .. n \cup {n + 1}
    BY <2>1
  <2>7. OutFrom(segments, n + 1, y)
    <3> HIDE DEF x, y, piece
    <3>1. /\ \A k \in 1 .. Len(x) : \E i \in 1 .. n : x[k] = Piece(segments, i)
          /\ \A i \in 1 .. n : Piece(segments, i).tokens.response_ids # << >> =>
               \E k \in 1 .. Len(x) : x[k] = Piece(segments, i)
      BY <2>3 DEF OutFrom
    <3>2. CASE piece.tokens.response_ids = << >>
      BY <3>1, <3>2, <2>5, <2>6 DEF OutFrom, piece
    <3>3. CASE piece.tokens.response_ids # << >>
      <4>1. y = Append(x, piece)
        BY <2>5, <3>3
      <4>2. /\ Len(x) \in Nat /\ Len(y) = Len(x) + 1 /\ y[Len(x) + 1] = piece
            /\ \A k \in 1 .. Len(x) : y[k] = x[k]
        BY <4>1, <2>3 DEF D
      <4>3. 1 .. Len(y) = 1 .. Len(x) \cup {Len(x) + 1}
        BY <4>2
      <4> QED BY <3>1, <4>2, <4>3, <2>6 DEF OutFrom, piece
    <3> QED BY <3>2, <3>3
  <2> QED BY <2>1, <2>4, <2>7
<1> HIDE DEF Holds
<1>16. \A n \in 0 .. N : n \in Holds
  <2>1. 0 \in Nat /\ N \in Nat
    OBVIOUS
  <2> HIDE DEF N
  <2> QED BY <1>14, <1>15, <2>1, Induction
<1>17. out[N] \in D /\ OutFrom(segments, N, out[N])
  BY <1>16 DEF Holds
<1>18. DOMAIN out[N] = 1 .. Len(out[N])
  BY <1>17 DEF D
<1> QED BY <1>4, <1>17, <1>18

-----------------------------------------------------------------------------
(* The tokens of the turns. *)

\* Tokens: what they are of, and which ones they are.
Token == ({"gen", "changed", "tools", "out"} \cup {"system", "question", "tool", "assistant"})
           \X (Conversations \cup {"schema"} \cup Nat) \X Nat

\* Sequences behind each other are a sequence.
LEMMA FlattenedType ==
  ASSUME NEW T, NEW s \in Seq(Seq(T))
  PROVE  FlattenSeq(s) \in Seq(T)
<1>1. CASE Len(s) = 0
  BY <1>1 DEF FlattenSeq
<1>2. CASE Len(s) # 0
  <2> DEFINE N == Len(s)
             Eq(f) == f = [i \in 1 .. N |-> IF i = 1 THEN s[i] ELSE f[i - 1] \o s[i]]
             flat == CHOOSE f : Eq(f)
  <2>1. \E f : Eq(f)
    <3> DEFINE step == [p \in Nat \X Seq(T) |-> IF p[1] + 1 \in 1 .. N THEN p[2] \o s[p[1] + 1] ELSE p[2]]
    <3>1. step \in [Nat \X Seq(T) -> Seq(T)]
      OBVIOUS
    <3>2. << >> \in Seq(T)
      OBVIOUS
    <3>3. step \in Steps(Seq(T))
      BY <3>1 DEF Steps
    <3>4. PICK h : Recurs(h, Seq(T), << >>, step)
      <4> HIDE DEF step, N, Eq, flat
      <4> QED BY <3>2, <3>3, Recursion
    <3>5. h \in [Nat -> Seq(T)] /\ h[0] = << >> /\ \A n \in Nat : h[n + 1] = step[<<n, h[n]>>]
      BY <3>4 DEF Recurs
    <3>6. ASSUME NEW n \in 1 .. N PROVE h[n] = h[n - 1] \o s[n]
      <4>1. n - 1 \in Nat /\ (n - 1) + 1 = n /\ h[n - 1] \in Seq(T)
        <5>1. n - 1 \in Nat /\ (n - 1) + 1 = n
          BY <1>2
        <5> HIDE DEF step, Eq, flat, N
        <5> QED BY <5>1, <3>5
      <4>2. h[n] = step[<<n - 1, h[n - 1]>>]
        BY <3>5, <4>1
      <4>3. step[<<n - 1, h[n - 1]>>] = h[n - 1] \o s[n]
        BY <4>1
      <4> QED BY <4>2, <4>3
    <3>7. 1 \in 1 .. N /\ s[1] \in Seq(T)
      BY <1>2
    <3>8. h[1] = s[1]
      <4>1. h[1] = h[0] \o s[1]
        <5> HIDE DEF N, step
        <5>1. h[1] = h[1 - 1] \o s[1]
          BY <3>6, <3>7
        <5>2. 1 - 1 = 0
          OBVIOUS
        <5> QED BY <5>1, <5>2
      <4> QED BY <4>1, <3>5, <3>7
    <3> DEFINE f == [n \in 1 .. N |-> h[n]]
    <3>9. ASSUME NEW i \in 1 .. N PROVE f[i] = IF i = 1 THEN s[i] ELSE f[i - 1] \o s[i]
      <4>1. CASE i = 1
        BY <4>1, <3>8
      <4>2. CASE i # 1
        <5>1. i - 1 \in 1 .. N
          BY <4>2
        <5>2. f[i] = h[i] /\ f[i - 1] = h[i - 1]
          BY <5>1
        <5> HIDE DEF f
        <5> QED BY <4>2, <5>2, <3>6
      <4> QED BY <4>1, <4>2
    <3>10. f = [i \in 1 .. N |-> f[i]]
      OBVIOUS
    <3> HIDE DEF f
    <3>11. [i \in 1 .. N |-> f[i]] = [i \in 1 .. N |-> IF i = 1 THEN s[i] ELSE f[i - 1] \o s[i]]
      BY <3>9
    <3>12. Eq(f)
      BY <3>10, <3>11
    <3> QED BY <3>12
  <2>2. Eq(flat)
    BY <2>1
  <2>3. FlattenSeq(s) = flat[N]
    BY <1>2 DEF FlattenSeq
  <2>4. N \in Nat \ {0} /\ \A i \in 1 .. N : s[i] \in Seq(T)
    BY <1>2
  <2> HIDE DEF flat
  <2>5. \A i \in 1 .. N : flat[i] = IF i = 1 THEN s[i] ELSE flat[i - 1] \o s[i]
    <3> DEFINE F == [i \in 1 .. N |-> IF i = 1 THEN s[i] ELSE flat[i - 1] \o s[i]]
    <3>1. flat = F
      BY <2>2
    <3>2. \A i \in 1 .. N : F[i] = IF i = 1 THEN s[i] ELSE flat[i - 1] \o s[i]
      OBVIOUS
    <3> HIDE DEF F
    <3> QED BY <3>1, <3>2
  <2> DEFINE typed == {i \in 1 .. N : flat[i] \in Seq(T)}
  <2> HIDE DEF N
  <2>6. 1 \in typed
    BY <2>4, <2>5
  <2>7. ASSUME NEW n \in 1 .. N, n \in typed, n < N PROVE n + 1 \in typed
    <3> DEFINE m == n + 1
    <3>1. m \in 1 .. N /\ m # 1 /\ m - 1 = n
      BY <2>4, <2>7
    <3>2. flat[n] \in Seq(T)
      BY <2>7
    <3> HIDE DEF m
    <3>3. flat[m] = flat[n] \o s[m] /\ s[m] \in Seq(T)
      BY <3>1, <2>4, <2>5
    <3>4. flat[m] \in Seq(T)
      BY <3>2, <3>3
    <3> QED BY <3>1, <3>4 DEF m
  <2>8. \A i \in 1 .. N : i \in typed
    <3>1. 1 \in Nat /\ N \in Nat /\ 1 \in typed
      BY <2>4, <2>6
    <3> HIDE DEF typed
    <3> QED BY <2>7, <3>1, Induction
  <2>9. flat[N] \in Seq(T)
    BY <2>4, <2>8
  <2> QED BY <2>3, <2>9
<1> QED BY <1>1, <1>2

\* An output of the engine is made of tokens.
LEMMA TextType == \A text \in Texts : text \in Seq(Token)
<1> SUFFICES ASSUME NEW n \in Nat, NEW length \in Nat PROVE Output(n, length) \in Seq(Token)
  BY DEF Texts
<1>1. \A k \in 1 .. length : <<"out", n, k>> \in Token
  BY DEF Token
<1> HIDE DEF Token
<1> QED BY <1>1 DEF Output

\* A message is rendered as tokens.
LEMMA RenderedType ==
  ASSUME NEW messages \in History, NEW i \in DOMAIN messages
  PROVE  Rendered(messages, i) \in Seq(Token)
<1> DEFINE m == messages[i]
           output == Output(m.id, m.length)
<1>1. m \in Message
  BY DEF History
<1>2. /\ m.role \in {"system", "question", "tool", "assistant"} /\ m.of \in Conversations
      /\ m.id \in Nat /\ m.length \in Nat
  BY <1>1 DEF Message
<1>3. output \in Seq(Token)
  BY <1>2, TextType DEF Texts
<1>4. <<m.role, m.of, m.id>> \in Token /\ GenerationPrompt \in Token /\ <<"changed", m.id, 0>> \in Token
  BY <1>2 DEF Token, GenerationPrompt
<1> HIDE DEF m, output, Token
<1>5. output # << >> => Front(output) \in Seq(Token) /\ Tail(output) \in Seq(Token)
  BY <1>3 DEF Front
<1>6. output # << >> => Append(Front(output), <<"changed", m.id, 0>>) \in Seq(Token)
  BY <1>4, <1>5
<1> DEFINE asked == \E j \in i + 1 .. Len(messages) : messages[j].role = "question"
           said == CASE m.form = "changed" /\ output # << >> -> Append(Front(output), <<"changed", m.id, 0>>)
                     [] m.form = "thinks" /\ output # << >> /\ asked -> Tail(output)
                     [] OTHER -> output
<1>7. said \in Seq(Token)
  <2> HIDE DEF asked
  <2> QED BY <1>3, <1>5, <1>6
<1>8. Rendered(messages, i) = IF m.role # "assistant" THEN <<<<m.role, m.of, m.id>>>>
                              ELSE <<GenerationPrompt>> \o said
  BY DEF Rendered, m, output
<1> HIDE DEF said
<1>9. <<<<m.role, m.of, m.id>>>> \in Seq(Token) /\ <<GenerationPrompt>> \in Seq(Token)
  BY <1>4
<1> QED BY <1>7, <1>8, <1>9

\* A prompt is made of tokens.
LEMMA PromptTokens == \A prompt \in Prompts : prompt \in Seq(Token)
<1>1. << >> \in Seq(Token)
  OBVIOUS
<1>2. ASSUME NEW tools \in Nat, NEW chat \in History PROVE RenderTokenIds(tools, chat) \in Seq(Token)
  <2> DEFINE pieces == [i \in DOMAIN chat |-> Rendered(chat, i)]
  <2>1. pieces \in Seq(Seq(Token))
    <3>1. DOMAIN chat = 1 .. Len(chat) /\ Len(chat) \in Nat
      BY DEF History
    <3>2. \A i \in 1 .. Len(chat) : Rendered(chat, i) \in Seq(Token)
      BY <3>1, RenderedType
    <3> HIDE DEF Token
    <3> QED BY <3>1, <3>2
  <2>2. FlattenSeq(pieces) \in Seq(Token)
    <3> HIDE DEF pieces
    <3> QED BY <2>1, FlattenedType
  <2>3. <<"tools", "schema", tools>> \in Token /\ GenerationPrompt \in Token
    BY DEF Token, GenerationPrompt
  <2> HIDE DEF pieces, Token
  <2>4. <<<<"tools", "schema", tools>>>> \in Seq(Token) /\ <<GenerationPrompt>> \in Seq(Token)
    BY <2>3
  <2>5. RenderTokenIds(tools, chat) = <<<<"tools", "schema", tools>>>> \o FlattenSeq(pieces) \o <<GenerationPrompt>>
    BY DEF RenderTokenIds, pieces
  <2> QED BY <2>2, <2>4, <2>5
<1> SUFFICES ASSUME NEW prompt \in Prompts PROVE prompt \in Seq(Token)
  OBVIOUS
<1>3. prompt = << >> \/ \E tools \in Nat, chat \in History : prompt = RenderTokenIds(tools, chat)
  BY DEF Prompts
<1> QED BY <1>1, <1>2, <1>3

\* The turns of the session are turns of tokens.
LEMMA TurnTokens == \A turns \in Seq(Turn) : turns \in Seq(TurnOf(Token))
<1>1. \A turn \in Turn : turn \in TurnOf(Token)
  BY TextType, PromptTokens DEF Turn, TurnOf
<1> QED BY <1>1

\* A merged segment is faithful to its turns, and holds the last output.
LEMMA PieceFacts ==
  ASSUME NEW segments \in Seq(Segment), NEW i \in 1 .. Len(segments)
  PROVE  /\ Faithful(Piece(segments, i).tokens, Piece(segments, i).turns)
         /\ Piece(segments, i).turns = segments[i].turns
         /\ Len(segments[i].turns) \in Answered(segments[i].turns) =>
              Piece(segments, i).tokens.response_ids # << >>
<1> DEFINE turns == segments[i].turns
           N == Len(turns)
           seg == MergeTurns(turns)
           last == Interval(turns[N])
<1>1. Piece(segments, i).tokens = seg /\ Piece(segments, i).turns = turns
  BY DEF Piece
<1>2. turns \in Seq(Turn) /\ turns # << >>
  <2>1. segments[i] \in Segment
    OBVIOUS
  <2> QED BY <2>1 DEF Segment
<1>3. turns \in Seq(TurnOf(Token)) /\ N \in Nat \ {0} /\ N \in 1 .. N
  BY <1>2, TurnTokens
<1> HIDE DEF turns
<1>4. Sound(seg, Text(turns[N]), Intervals(turns, N), Token)
  BY <1>2, <1>3, MergedSound
<1>5. Faithful(seg, turns)
  BY <1>2, <1>3, <1>4, SoundIsFaithful
<1>6. ASSUME N \in Answered(turns) PROVE seg.response_ids # << >>
  <2>1. turns[N].output_ids # << >>
    BY <1>6 DEF Answered
  <2>2. N \in KeptUpto(turns, N)
    BY <1>3 DEF KeptUpto
  <2>3. last \in Intervals(turns, N)
    BY <2>1, <2>2 DEF Intervals
  <2> DEFINE p == Len(seg.prompt_ids)
             start == last[1] - p
             end == last[2] - p
  <2>4. /\ seg \in Replays(Token) /\ Intervals(turns, N) \subseteq Nat \X Nat
        /\ p <= last[1] /\ last[1] < last[2] /\ <<start, end>> \in seg.output_spans
    BY <1>4, <2>3 DEF Sound, Covered
  <2>5. p \in Nat /\ Len(seg.response_ids) \in Nat
    BY <2>4, ReplayFacts
  <2>6. end <= Len(seg.response_ids)
    BY <2>4, ReplayFacts
  <2>7. last[1] \in Nat /\ last[2] \in Nat
    BY <2>3, <2>4
  <2> HIDE DEF p, last, seg
  <2>8. 0 < end
    BY <2>4, <2>5, <2>7
  <2>9. Len(seg.response_ids) # 0
    BY <2>5, <2>6, <2>7, <2>8
  <2> QED BY <2>9
<1> QED BY <1>1, <1>5, <1>6 DEF turns

\* What is trained on is what was generated, after the text it was generated from:
\* merge_turns() covers with the mask the outputs that all later prompts of their
\* segment contain, and no part of any other, for any number of turns, any prompts
\* and any outputs; and finish_session() leaves out no segment that ends in an output.
THEOREM SegmentsFaithfulCorrect == Spec => []SegmentsFaithful
<1>1. TypeOK => SegmentsFaithful
  <2> SUFFICES ASSUME TypeOK PROVE SegmentsFaithful
    OBVIOUS
  <2> DEFINE N == Len(frozen)
             merged == MergeTurnSegments(frozen)
  <2>1. frozen \in Seq(Segment) /\ N \in Nat /\ DOMAIN frozen = 1 .. N
    BY DEF TypeOK
  <2>2. DOMAIN merged = 1 .. Len(merged) /\ OutFrom(frozen, N, merged)
    BY <2>1, OutIs
  <2> HIDE DEF merged, N
  <2>3. ASSUME NEW k \in DOMAIN merged PROVE Faithful(merged[k].tokens, merged[k].turns)
    <3>1. PICK i \in 1 .. N : merged[k] = Piece(frozen, i)
      BY <2>2 DEF OutFrom
    <3> QED BY <2>1, <3>1, PieceFacts DEF N
  <2>4. ASSUME NEW i \in DOMAIN frozen, Len(frozen[i].turns) \in Answered(frozen[i].turns)
        PROVE  \E k \in DOMAIN merged : merged[k].turns = frozen[i].turns
    <3>1. Piece(frozen, i).tokens.response_ids # << >> /\ Piece(frozen, i).turns = frozen[i].turns
      BY <2>1, <2>4, PieceFacts DEF N
    <3>2. PICK k \in 1 .. Len(merged) : merged[k] = Piece(frozen, i)
      BY <2>1, <2>2, <3>1 DEF OutFrom
    <3> QED BY <2>2, <3>1, <3>2
  <2>5. Result = merged
    BY DEF Result, merged
  <2> QED BY <2>3, <2>4, <2>5 DEF SegmentsFaithful
<1> QED BY <1>1, TypeCorrect, PTL
=============================================================================
