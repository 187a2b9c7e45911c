---------------------------- MODULE AgentSession ----------------------------
(***************************************************************************)
(* A gateway session and the agent that works in it.  The ReAct agent      *)
(* (ReActAgent) sends its transcript as a request, sends it again when the *)
(* connection fails or the gateway answers 429 or 5xx, and goes on with    *)
(* the first answer that reaches it (src/uni_agent/agents/react/model.py). *)
(* The gateway does not know that the agent has given a request up: it     *)
(* goes on and commits.  Any other agent may send what it likes.           *)
(*                                                                         *)
(* When the agent is done the task posts the reward and the framework      *)
(* finalizes the session (framework/task_runner.py, framework.py 675-697). *)
(* A session may be aborted at any moment.                                 *)
(***************************************************************************)
EXTENDS ReActAgent, GatewaySessionProps

CONSTANTS
  Agents,     \* which agents to look at: "react", "other"
  Others,     \* the requests that the other kind of agent sends
  ToolsOf,    \* the tools that each output calls
  Said,       \* the message of each role in what is sent: [role -> message]
  Empty       \* the empty answer of a session at its capacity

ASSUME AgentSessionAssumption ==
  /\ Agents \subseteq {"react", "other"} /\ Others \subseteq Requests
  /\ DOMAIN ToolsOf = Outputs
  /\ Said.user \in User /\ Said.tool \in Messages \ (User \cup Assistant)
  /\ Prompt # << >>
  /\ \A i \in DOMAIN Prompt : Said[Prompt[i].role] \in Messages \ Assistant

VARIABLES
  agent,     \* which kind of agent works in the session
  awaited,   \* the request whose answer the agent waits for; Nobody
  heard      \* history: the requests whose answers it got, in order

gatewayVars == vars                  \* those of GatewaySession

conversationVars == <<agentVars, gatewayVars, agent, awaited, heard>>

-----------------------------------------------------------------------------
(* OpenAICompatibleChatModel._post_chat_completion.                        *)

Slip_Wire(m) ==                                \* says what it did not hear
  IF m.role = "assistant" THEN CHOOSE x \in Assistant \ Outputs : TRUE ELSE Said[m.role]

\* _normalize_messages_for_api, and the gateway's canonical form of it.
Wire(m) == IF m.role = "assistant" THEN m.content ELSE Said[m.role]

AgentCall ==
  [messages |-> [i \in DOMAIN transcript |-> Wire(transcript[i])],
   tools    |-> CHOOSE t \in Tools : TRUE]

\* The attempts of an agent are requests like any other; which one is next
\* makes no difference.
Unused == {r \in Requests : pc[r] = "idle"}

Sends(r) ==
  \/ RefuseClosed(r) \/ StartChain(r, AgentCall)
  \/ ContinueChain(r, AgentCall) \/ RollbackChain(r, AgentCall)

AgentPosts ==
  /\ agent = "react" /\ Post /\ Unused # {}
  /\ awaited' = CHOOSE r \in Unused : TRUE
  /\ Sends(awaited')
  /\ UNCHANGED <<agent, heard>>

\* The connection fails, before or after the request got through.
Disconnected ==
  /\ agent = "react" /\ PostFailed /\ awaited' = Nobody
  /\ UNCHANGED <<gatewayVars, agent, heard>>

\* The request ended without an answer of the policy: an empty one at the
\* capacity, 500 (the history cannot be encoded, or the backend raised), 400
\* (the backend raised ValueError) or 409 (the session is closed).
Outcome ==
  /\ awaited # Nobody
  /\ \/ pc[awaited] = "length" /\ ModelAnswers(Empty, << >>, TRUE)
     \/ pc[awaited] = "rejected" /\ PostFailed
     \/ pc[awaited] = "failed" /\ (PostFailed \/ PostRefused)
  /\ awaited' = Nobody /\ UNCHANGED <<gatewayVars, agent, heard>>

\* The answer is committed, and reaches the agent if it still waits for it
\* and the connection holds.
Answer(r, o) ==
  /\ Commit(r, o)
  /\ \/ r # awaited /\ UNCHANGED <<agentVars, awaited, heard>>
     \/ /\ r = awaited /\ awaited' = Nobody /\ heard' = Append(heard, r)
        /\ \E cut \in BOOLEAN : ModelAnswers(o, ToolsOf[o], cut)
     \/ r = awaited /\ awaited' = Nobody /\ PostFailed /\ UNCHANGED heard
  /\ UNCHANGED agent

BackendReturns(r) ==
  \/ \E o \in Outputs : Answer(r, o)
  \/ Fail(r) /\ UNCHANGED <<agentVars, agent, awaited, heard>>

-----------------------------------------------------------------------------
(* The rest of the episode.                                                *)

WithinAgent ==
  /\ agent = "react"
  /\ \/ ToolboxStarted \/ ToolboxFailed \/ CallRaises \/ AgentClosed
     \/ \E status \in Statuses : CallReturns("said", status)
  /\ UNCHANGED <<gatewayVars, agent, awaited, heard>>

\* What any other agent does, and the HTTP server.
OtherAgent(r) == agent = "other" /\ r \in Others /\ (RefuseClosed(r) \/ Prepare(r))

\* run_task posts the reward when its task has ended; other tasks may post
\* at any time.  The framework finalizes when the runner has returned.
Runner ==
  /\ agent = "react" => at = "over"
  /\ Finalize \/ \E w \in Rewards : SetReward(w)

Driven ==
  /\ Runner \/ Abort \/ \E r \in Requests : OtherAgent(r) \/ Release(r)
  /\ UNCHANGED <<agentVars, agent, awaited, heard>>

-----------------------------------------------------------------------------
ConversationInit ==
  Init /\ AgentInit /\ agent \in Agents /\ awaited = Nobody /\ heard = << >>

\* The session is closed and the agent is done.  What becomes of requests
\* still in flight is for RequestAnswered to say.
Ended == phase # "ACTIVE" /\ (agent = "react" => at = "over")

ConversationNext ==
  \/ AgentPosts \/ Disconnected \/ Outcome \/ WithinAgent \/ Driven
  \/ \E r \in Requests : BackendReturns(r)
  \/ Ended /\ UNCHANGED conversationVars

ConversationSpec == ConversationInit /\ [][ConversationNext]_conversationVars

\* As in GatewaySession: the backend answers or raises, and whoever waits for
\* the lock gets it.
FairConversation ==
  /\ ConversationSpec
  /\ \A r \in Requests :
       /\ WF_conversationVars(BackendReturns(r))
       /\ WF_conversationVars(Release(r) /\ Driven)

-----------------------------------------------------------------------------
(* Properties.                                                             *)

\* Every answer that reached the agent stays in the training data, whatever
\* became of the requests it gave up: a retry may branch off or replace an
\* answer that got lost, never one the agent went on with.  And the
\* trajectory that finalize puts last, whose score all the others share, ends
\* in the agent's last turn, unless an answer came after it that the agent
\* never got, or the session closed that trajectory for its length when a
\* retry fell back on it (session.py 228-230, 532-584, 674-747; framework.py
\* 811-864).
HeardAnswersSurvive ==
  /\ phase # "ABORTED" =>
       \A i \in DOMAIN heard : Surviving(heard[i]) = completion[heard[i]]
  /\ returned # << >> =>
       LET final == Last(returned)
           ends  == Last(final.buffer.generation_versions)
       IN  ends \in Range(heard) =>
             ends = Last(heard) \/ final.reason = "max_trajectory_length"
=============================================================================
