---------------------------- MODULE AgentSession ----------------------------
(***************************************************************************)
(* slime/agent/adapters: one session of an adapter.  An agent program that *)
(* runs in a sandbox talks to the adapter as to a chat API; the adapter    *)
(* renders each history, calls the engine and records the tokens.  At the  *)
(* end of the trajectory finish_session() closes the session and returns   *)
(* the recorded turns as segments to train on.                             *)
(*                                                                         *)
(* The session has one lock, so its requests are handled one at a time, in *)
(* the order they came in; a request is known by its position in           *)
(* `requests', and the turn it leads to by the same number.                *)
(*                                                                         *)
(* The handlers run on the adapter's event loop, in a thread of its own;   *)
(* generate() calls finish_session() on the loop of the rollout.  Between  *)
(* two awaits the handlers are alone on their loop, and generate() on its  *)
(* own, but the two threads interleave: a handler may have found the       *)
(* session open and not yet be among its tasks when the session is closed. *)
(*                                                                         *)
(* The agent program (`client') is not part of the repository.  It keeps a *)
(* main conversation, at most one sub-agent's, and sends single requests   *)
(* of its own (`side'); it retries, disconnects and compacts its history.  *)
(***************************************************************************)
EXTENDS Naturals, Sequences, FiniteSets, SequencesExt, TurnMerge

CONSTANTS
  MaxRequests,   \* bound: requests of the session
  Outputs,       \* what the engine may answer: <<number of tokens, form>>
  MaxContext     \* max_context_tokens

ASSUME BoundsAssumption ==
  /\ {MaxRequests, MaxContext} \subseteq Nat \ {0}
  /\ Outputs \subseteq (Nat \ {0}) \X {"exact", "changed", "thinks"}

VARIABLES
  protocol,  \* which adapter: "anthropic" or "openai"
  session,   \* the Session object
  requests,  \* the requests received, each with its handler
  closed,    \* sid \in adapter.closed
  finish,    \* where each call of finish_session is: "no", "waiting", "done",
             \* "raised" or, when the time of its caller is up, "given_up"
  awaited,   \* the tasks that each of them took out of adapter.inflight
  frozen,    \* the segments that the first of them merges and returns
  client     \* the agent program

vars == <<protocol, session, requests, closed, finish, awaited, frozen, client>>

\* generate() calls finish_session in its try block, and in its finally clause.
Calls == {"try", "finally"}

Conversations == {"main", "sub", "side"}

-----------------------------------------------------------------------------
(* Messages and tokens.                                                    *)

NoDispatch == 0

\* A message of the user; a tool message may hold the result of a dispatch.
User(role, conversation, n, dispatch) ==
  [role |-> role, of |-> conversation, id |-> n, length |-> 0, form |-> "exact",
   result |-> dispatch]

\* What the agent sends back of the turn n: its parsed output.
Assistant(n, length, form) ==
  [role |-> "assistant", of |-> "main", id |-> n, length |-> length, form |-> form,
   result |-> NoDispatch]

Output(n, length) == [k \in 1 .. length |-> <<"out", n, k>>]

GenerationPrompt == <<"gen", 0, 0>>

\* The chat template.  An output that was parsed and rendered again may come out
\* with another last token, and what it begins with (its reasoning) is left out
\* once the user has asked something new.
Rendered(messages, i) ==
  LET m == messages[i]
      output == Output(m.id, m.length)
      asked == \E j \in i + 1 .. Len(messages) : messages[j].role = "question"
  IN  IF m.role # "assistant" THEN <<<<m.role, m.of, m.id>>>>
      ELSE <<GenerationPrompt>> \o
           (CASE m.form = "changed" /\ output # << >> -> Append(Front(output), <<"changed", m.id, 0>>)
              [] m.form = "thinks" /\ output # << >> /\ asked -> Tail(output)
              [] OTHER -> output)

RenderTokenIds(tools, chat) ==
  <<<<"tools", "schema", tools>>>>
    \o FlattenSeq([i \in DOMAIN chat |-> Rendered(chat, i)]) \o <<GenerationPrompt>>

-----------------------------------------------------------------------------
(* The Session object.                                                     *)

NewChain == [system |-> "none", chat |-> << >>, seen |-> << >>, tools |-> 0, turns |-> << >>]

\* active_sub is None when no sub-agent is armed.
NewSession == [main |-> NewChain, sub |-> NewChain, armed |-> FALSE,
               pending |-> NoDispatch, segments |-> << >>]

SystemMessage(system) == IF system = "none" THEN << >> ELSE <<User("system", system, 0, NoDispatch)>>

\* Nothing is frozen of a chain without turns.
Frozen(s, turns, kind) ==
  IF turns = << >> THEN s
  ELSE [s EXCEPT !.segments = Append(@, [kind |-> kind, turns |-> turns])]

\* The sub-agent is done when main holds the result of its dispatch.
SubClosed(s, body) ==
  IF s.armed /\ \E i \in DOMAIN body.messages : body.messages[i].result = s.pending
    THEN [Frozen(s, s.sub.turns, "subagent")
            EXCEPT !.sub = NewChain, !.armed = FALSE, !.pending = NoDispatch]
    ELSE s

Continues(chain, body) ==
  body.system = chain.system /\ IsPrefix(chain.seen, body.messages)

Routed(s, body) == IF s.armed /\ ~Continues(s.main, body) THEN "sub" ELSE "main"

\* Anthropic: the first tools a chain is given stay.
Tools(chain, body) ==
  IF protocol = "anthropic" /\ chain.tools # 0 THEN chain.tools ELSE body.tools

ExtendedUnseen(chain, body) ==
  [chain EXCEPT !.chat = @ \o SubSeq(body.messages, Len(chain.seen) + 1, Len(body.messages)),
                !.tools = Tools(chain, body)]

Extended(chain, body) ==
  [chain EXCEPT !.chat = @ \o SubSeq(body.messages, Len(chain.seen) + 1, Len(body.messages)),
                !.seen = body.messages,
                !.tools = Tools(chain, body)]

Replaced(chain, body) ==
  [system |-> body.system, chat |-> SystemMessage(body.system) \o body.messages,
   seen |-> body.messages, tools |-> Tools(chain, body), turns |-> << >>]

\* The chain `who' takes the request on, or is wiped for it.
Prepared(s, who, body) ==
  LET chain == s[who]
  IN  IF chain.seen # << >> /\ Continues(chain, body)
        THEN [s EXCEPT ![who] = Extended(chain, body)]
        ELSE [Frozen(s, chain.turns, "wipe") EXCEPT ![who] = Replaced(chain, body)]

WithTurn(s, who, prompt, output) ==
  [s EXCEPT ![who].turns = Append(@, [prompt_ids |-> prompt, output_ids |-> output])]

\* _start_sub_chain; a sub-agent does not nest.
Dispatched(s, who, dispatch) ==
  IF dispatch = NoDispatch \/ who = "sub" THEN s
  ELSE [s EXCEPT !.pending = dispatch, !.armed = TRUE,
                 !.sub = IF s.armed THEN @ ELSE NewChain]

\* The end of finish_session: what is left of the chains, behind the segments.
Drained(s) == Frozen(Frozen(s, s.sub.turns, "subagent"), s.main.turns, "final").segments

-----------------------------------------------------------------------------
(* The requests.                                                           *)

Ids == DOMAIN requests
At(r, pcs) == requests[r].pc \in pcs
\* A task that is "astray" works on a Session that the store does not have any more.
Busy == {"lock", "generating", "aborting", "replied", "astray"}

\* The handlers that found the session open and did not yet register.
Entering == {r \in Ids : At(r, {"arriving"})}

\* The tasks that hold the lock.
Holding == {r \in Ids : At(r, {"generating", "aborting"}) /\ requests[r].locked}

Waits(conversation) ==
  \E r \in Ids : requests[r].body.conversation = conversation /\ At(r, Busy \cup {"arriving"}) /\ ~At(r, {"aborting"})

\* `late' is kept for the properties: it registered when the session was closed.
NewRequest(body) ==
  [pc |-> "arriving", body |-> body, who |-> "main", prompt |-> << >>, output |-> << >>,
   form |-> "exact", dispatch |-> NoDispatch, locked |-> FALSE, cancelled |-> FALSE,
   late |-> FALSE]

System(conversation) == IF protocol = "openai" THEN "none" ELSE conversation

Body(conversation) ==
  [conversation |-> conversation, system |-> System(conversation),
   messages |-> IF conversation = "side" THEN <<User("question", "side", 0, NoDispatch)>>
                ELSE client[conversation],
   tools |-> client.tools]

\* A request comes in.  Its handler finds the session open; a session that is closed
\* refuses it (503).
Arrive(conversation) ==
  /\ ~closed
  /\ Entering = {}
  /\ Len(requests) < MaxRequests
  /\ conversation # "side" => client[conversation] # << >>
  /\ conversation = "main" => client.dispatch = NoDispatch
  /\ ~Waits(conversation)
  /\ requests' = Append(requests, NewRequest(Body(conversation)))
  /\ UNCHANGED <<protocol, session, closed, finish, awaited, frozen, client>>

\* The store has the Session until a finish_session pops it at its end.
Stored == \A call \in Calls : finish[call] # "done"

\* The handler looks the Session up, joins the tasks in flight and goes as far as the
\* lock.  When the Session is popped meanwhile, it has it already or makes a new one.
Register(r) ==
  /\ At(r, {"arriving"})
  /\ \E pc \in IF Stored THEN {"lock"} ELSE {"lock", "astray"} :
       requests' = [requests EXCEPT ![r].pc = pc, ![r].late = closed]
  /\ UNCHANGED <<protocol, session, closed, finish, awaited, frozen, client>>

\* Under the lock: select the chain, build the prompt, call the engine; a prompt
\* that fills the context is answered with nothing.
Acquire(r) ==
  /\ At(r, {"lock"})
  /\ Holding = {}
  /\ \A q \in 1 .. r - 1 : ~At(q, {"lock"})
  /\ \E open \in {SubClosed(session, requests[r].body)} :
     \E who \in {Routed(open, requests[r].body)} :
     \E s \in {Prepared(open, who, requests[r].body)} :
     \E prompt \in {RenderTokenIds(s[who].tools, s[who].chat)} :
       IF Len(prompt) >= MaxContext
         THEN /\ session' = WithTurn(s, who, prompt, << >>)
              /\ requests' = [requests EXCEPT ![r].pc = "replied", ![r].who = who,
                                              ![r].prompt = prompt]
         ELSE /\ session' = s
              /\ requests' = [requests EXCEPT ![r].pc = "generating", ![r].who = who,
                                              ![r].prompt = prompt, ![r].locked = TRUE]
  /\ UNCHANGED <<protocol, closed, finish, awaited, frozen, client>>

\* The engine answers, with a tool call that dispatches a sub-agent or without.
Answer(r) ==
  /\ At(r, {"generating"})
  /\ \E answer \in {o \in Outputs : Len(requests[r].prompt) + o[1] <= MaxContext},
        dispatch \in IF protocol = "openai" \/ requests[r].body.conversation = "side"
                       THEN {NoDispatch} ELSE {NoDispatch, r} :
       /\ session' = Dispatched(WithTurn(session, requests[r].who, requests[r].prompt,
                                         Output(r, answer[1])),
                                requests[r].who, dispatch)
       /\ requests' = [requests EXCEPT ![r].pc = "replied", ![r].output = Output(r, answer[1]),
                                       ![r].form = answer[2], ![r].dispatch = dispatch,
                                       ![r].locked = FALSE]
  /\ UNCHANGED <<protocol, closed, finish, awaited, frozen, client>>

\* The engine is out of reach, or answers with an error.
Fail(r) ==
  /\ At(r, {"generating"})
  /\ \/ requests' = [requests EXCEPT ![r].pc = "aborting"]
     \/ requests' = [requests EXCEPT ![r].pc = "over", ![r].locked = FALSE]
  /\ UNCHANGED <<protocol, session, closed, finish, awaited, frozen, client>>

\* A handler that is cancelled: while it calls the engine it first asks it to abort.
Cancelled(request) ==
  IF request.pc = "generating" THEN [request EXCEPT !.pc = "aborting"]
  ELSE [request EXCEPT !.pc = "over", !.locked = FALSE]

\* The agent gives up on a request; handler_cancellation passes that on.
Disconnect(r) ==
  /\ At(r, {"lock", "generating", "replied"})
  /\ requests' = [requests EXCEPT ![r] = Cancelled(@)]
  /\ UNCHANGED <<protocol, session, closed, finish, awaited, frozen, client>>

\* A cancel from the other thread reaches a task at its next await, when its loop
\* wakes up; the step the task is in it ends first.
CancelArrives(r) ==
  /\ At(r, Busy)
  /\ requests[r].cancelled
  /\ requests' = [requests EXCEPT ![r] = Cancelled(@)]
  /\ UNCHANGED <<protocol, session, closed, finish, awaited, frozen, client>>

\* What a task does with a Session that nobody will read: it ends.
StrayEnds(r) ==
  /\ At(r, {"astray"})
  /\ requests' = [requests EXCEPT ![r].pc = "over"]
  /\ UNCHANGED <<protocol, session, closed, finish, awaited, frozen, client>>

\* The request to abort was answered, or failed, or took five seconds.
AbortPosted(r) ==
  /\ At(r, {"aborting"})
  /\ requests' = [requests EXCEPT ![r].pc = "over", ![r].locked = FALSE]
  /\ UNCHANGED <<protocol, session, closed, finish, awaited, frozen, client>>

-----------------------------------------------------------------------------
(* The agent program.  It is not followed any more once the session is     *)
(* closed, since all it asks for then is refused.                          *)

\* It goes on with what it was told: with the result of a tool, with a new
\* question, or with a sub-agent while main waits.
Deliver(r) ==
  LET b == requests[r].body
      said == Append(b.messages, Assistant(r, Len(requests[r].output), requests[r].form))
  IN  /\ At(r, {"replied"})
      /\ requests' = [requests EXCEPT ![r].pc = "over"]
      /\ \/ closed /\ UNCHANGED client
         \/ /\ ~closed /\ b.conversation = "main" /\ requests[r].dispatch # NoDispatch
            /\ client' = [client EXCEPT !.main = said, !.dispatch = requests[r].dispatch,
                                        !.sub = <<User("question", "sub", r, NoDispatch)>>]
         \/ /\ ~closed /\ b.conversation # "side"
            /\ b.conversation = "main" => requests[r].dispatch = NoDispatch
            /\ \E role \in {"tool", "question"} :
                 client' = [client EXCEPT ![b.conversation] =
                                            Append(said, User(role, b.conversation, r, NoDispatch))]
         \/ ~closed /\ b.conversation = "side" /\ UNCHANGED client
      /\ UNCHANGED <<protocol, session, closed, finish, awaited, frozen>>

\* The sub-agent is done.
EndSub ==
  /\ ~closed
  /\ client.dispatch # NoDispatch
  /\ ~Waits("sub")
  /\ client' = [client EXCEPT !.dispatch = NoDispatch, !.sub = << >>,
                  !.main = Append(@, User("tool", "main", client.dispatch, client.dispatch))]
  /\ UNCHANGED <<protocol, session, requests, closed, finish, awaited, frozen>>

\* The history is replaced by its summary, and the tools are others from here on.
Compact ==
  /\ ~closed
  /\ ~Waits("main")
  /\ client.dispatch = NoDispatch
  /\ client.tools = 1
  /\ Len(client.main) > 1
  /\ client' = [client EXCEPT !.main = <<User("question", "main", Len(requests), NoDispatch)>>,
                              !.tools = 2]
  /\ UNCHANGED <<protocol, session, requests, closed, finish, awaited, frozen>>

-----------------------------------------------------------------------------
(* generate() and finish_session(), in the other thread.                   *)

\* adapter.inflight[sid]; an OpenAI handler leaves it before its reply is written.
Inflight ==
  {r \in Ids : At(r, IF protocol = "openai" THEN Busy \ {"replied"} ELSE Busy)}
    \ UNION {awaited[call] : call \in Calls}

\* The tasks a call is waiting for.
Left(call) == {r \in awaited[call] : At(r, Busy)}

\* The Session is popped and drained; what the second call returns is dropped.
DrainAll(call) ==
  /\ finish' = [finish EXCEPT ![call] = "done"]
  /\ frozen' = IF call = "try" THEN Drained(session) ELSE frozen

NeverClosed(call) ==
  /\ finish[call] = "no"
  /\ call = "finally" => finish["try"] \notin {"no", "waiting"}
  /\ awaited' = [awaited EXCEPT ![call] = Inflight]
  /\ IF Inflight = {} THEN DrainAll(call)
       ELSE finish' = [finish EXCEPT ![call] = "waiting"] /\ UNCHANGED frozen
  /\ UNCHANGED <<protocol, session, requests, closed, client>>

\* The session is closed and its tasks are taken out of inflight; then they are
\* awaited.  The finally clause is reached when the first call is over, however it
\* ended; when the trajectory fails before it, the second call is the first.
BeginFinish(call) ==
  /\ finish[call] = "no"
  /\ call = "finally" => finish["try"] \notin {"no", "waiting"}
  /\ closed' = TRUE
  /\ awaited' = [awaited EXCEPT ![call] = Inflight]
  /\ IF Inflight = {} THEN DrainAll(call)
       ELSE finish' = [finish EXCEPT ![call] = "waiting"] /\ UNCHANGED frozen
  /\ UNCHANGED <<protocol, session, requests, client>>

WaitOver(call) ==
  /\ finish[call] = "waiting"
  /\ Left(call) = {}
  /\ DrainAll(call)
  /\ UNCHANGED <<protocol, session, requests, closed, awaited, client>>

NoneCancelled(call) ==
  /\ finish[call] = "waiting"
  /\ Left(call) # {}
  /\ finish' = [finish EXCEPT ![call] = "raised"]
  /\ UNCHANGED <<protocol, session, requests, closed, awaited, frozen, client>>

\* After wait_timeout the tasks that are left are cancelled.  They are tasks of another
\* loop, so that the gather that should await them raises.
TimeOut(call) ==
  /\ finish[call] = "waiting"
  /\ Left(call) # {}
  /\ requests' = [r \in Ids |-> IF r \in Left(call) THEN [requests[r] EXCEPT !.cancelled = TRUE]
                                ELSE requests[r]]
  /\ finish' = [finish EXCEPT ![call] = "raised"]
  /\ UNCHANGED <<protocol, session, closed, awaited, frozen, client>>

\* The guard around the try block expires while it waits in finish_session.
GuardExpires ==
  /\ finish["try"] = "waiting"
  /\ finish' = [finish EXCEPT !["try"] = "given_up"]
  /\ UNCHANGED <<protocol, session, requests, closed, awaited, frozen, client>>

\* What finish_session returns; segments without a response are left out.
Result == MergeTurnSegments(frozen)

-----------------------------------------------------------------------------
Init ==
  /\ protocol \in {"anthropic", "openai"}
  /\ session = NewSession
  /\ requests = << >>
  /\ closed = FALSE
  /\ finish = [call \in Calls |-> "no"]
  /\ awaited = [call \in Calls |-> {}]
  /\ frozen = << >>
  /\ client = [main |-> <<User("question", "main", 0, NoDispatch)>>, sub |-> << >>,
               dispatch |-> NoDispatch, tools |-> 1]

\* From the closed check to its registration a handler is alone on its loop.
Handler(r) ==
  \/ Register(r)
  \/ /\ Entering = {}
     /\ \/ Acquire(r) \/ Answer(r) \/ Fail(r) \/ Disconnect(r) \/ CancelArrives(r)
        \/ AbortPosted(r) \/ StrayEnds(r) \/ Deliver(r)

Next ==
  \/ \E conversation \in Conversations : Arrive(conversation)
  \/ \E r \in Ids : Handler(r)
  \/ EndSub
  \/ Compact
  \/ \E call \in Calls : BeginFinish(call) \/ WaitOver(call) \/ TimeOut(call)
  \/ GuardExpires

Spec == Init /\ [][Next]_vars

\* Both threads run, timers fire, a cancel arrives and an abort comes to an end, and a
\* generate() that has called finish_session gets to its finally clause; the engine
\* need not answer, and the agent need not do anything.
FairSpec ==
  /\ Spec
  /\ WF_vars(\E r \in Ids : Register(r))
  /\ WF_vars(Entering = {} /\ \E r \in Ids : CancelArrives(r) \/ AbortPosted(r))
  /\ WF_vars(\E call \in Calls : WaitOver(call) \/ TimeOut(call))
  /\ WF_vars(BeginFinish("finally"))

-----------------------------------------------------------------------------
\* What is frozen, and what is still on the chains.
AllSegments == Drained(session)

Recorded == {r \in Ids : requests[r].output # << >>}

\* The turns of a segment that have an output, and the request each answered.
Answered(turns) == {k \in DOMAIN turns : turns[k].output_ids # << >>}
Request(turn) == turn.output_ids[1][2]

Places(segments) == UNION {{i} \X Answered(segments[i].turns) : i \in DOMAIN segments}

Answers(segments) == [p \in Places(segments) |-> Request(segments[p[1]].turns[p[2]])]

IsWhole(segments) == IsInjective(Answers(segments)) /\ Range(Answers(segments)) = Recorded

\* The handlers that found the session open and were no task of it when it was closed.
Stragglers == {r \in Ids : requests[r].late \/ (closed /\ At(r, {"arriving"}))}

\* The pcs from which a handler may use the engine or record a turn.
Working == {"lock", "generating", "aborting", "astray"}

\* What is trained on is what was generated, after the text it was generated
\* from: in a segment the mask covers the outputs that all later prompts of the
\* segment contain unchanged, and no part of any other, whatever the template did
\* to them.  merge_turns() masks an output that is cut in its middle.  And no segment
\* that ends in an output is left out.
SegmentsFaithful ==
  \A segments \in {Result} :
    /\ \A i \in DOMAIN segments : Faithful(segments[i].tokens, segments[i].turns)
    /\ \A i \in DOMAIN frozen : Len(frozen[i].turns) \in Answered(frozen[i].turns) =>
         \E j \in DOMAIN segments : segments[j].turns = frozen[i].turns

\* "session drained; refuse stragglers": when finish_session has drained the session,
\* no handler is left that could keep the engine busy or record a turn.  Not so: a
\* handler that had passed that check when the session was closed registers later.
NoStragglers == finish["try"] = "done" => \A r \in Ids : ~At(r, Working)

\* When generate() is out of its finally clause, the handlers it has waited for are
\* cancelled at least.  Not so when the guard expired in the first call: the second one
\* does not know the tasks that the first one took out of inflight.
NoneForgotten ==
  finish["finally"] \in {"done", "raised"} =>
    \A call \in Calls : \A r \in Left(call) : requests[r].cancelled

\* Every turn that was generated is in exactly one segment, through wipes,
\* sub-agents, retries and failures.  One handler at most escapes the closing of its
\* session; when finish_session has drained the session, that one alone may be at work
\* and its turn alone may be lost, and without it what is merged is whole.
DrainedWhole ==
  /\ IsWhole(AllSegments)
  /\ \A q, r \in Stragglers : q = r
  /\ finish["try"] = "done" =>
       /\ \A r \in Ids : At(r, Working) => r \in Stragglers
       /\ Recorded \ Range(Answers(frozen)) \subseteq Stragglers
       /\ Stragglers = {} => IsWhole(frozen)

\* "keep every non-empty output": it is also in what finish_session returns.  Not so
\* when the last prompt of its segment fills the context, so that it has no output,
\* and the template has changed what the segment began with.
ReturnedWhole == finish["try"] = "done" /\ Stragglers = {} => IsWhole(Result)

\* The turns of a segment are one conversation: each prompt shows the history of
\* its request, whole and in its order, though it was rendered in pieces, and
\* continues the history of every turn before it in the segment.
OneConversation ==
  \A segments \in {AllSegments} : \A i \in DOMAIN segments :
    LET turns == segments[i].turns
        Asked(k) == requests[Request(turns[k])].body
    IN  \A k \in Answered(turns) :
          /\ \E tools \in {1, 2} :
               turns[k].prompt_ids =
                 RenderTokenIds(tools, SystemMessage(Asked(k).system) \o Asked(k).messages)
          /\ \A j \in Answered(turns) : j < k =>
               /\ Asked(j).system = Asked(k).system
               /\ IsPrefix(Asked(j).messages, Asked(k).messages)

\* Once finish_session is called, generate() comes out of its finally clause though the
\* engine never answers, and every handler that was awaited there or before comes to
\* its end, the ones that were cancelled from the other thread too; but for those
\* that a guard that expired in the first call left behind.
FinishReturns ==
  finish["try"] # "no" ~>
    /\ finish["finally"] \in {"done", "raised"}
    /\ \A call \in Calls : finish[call] # "given_up" => Left(call) = {}
=============================================================================
