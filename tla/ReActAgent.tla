----------------------------- MODULE ReActAgent -----------------------------
(***************************************************************************)
(* The ReAct agent (src/uni_agent/agents/react): it starts its toolbox,    *)
(* asks the policy for the next turn, makes the tool calls of the answer   *)
(* one after the other, records what came of each, and goes on until the   *)
(* policy finishes or a budget is spent.                                   *)
(*                                                                         *)
(* The module has the agent's own state and steps, without a next-state    *)
(* relation: AgentSession lets the gateway answer its requests, AgentShell *)
(* lets the tmux shell answer its tool calls.  What a message says is a    *)
(* parameter of the steps.  Token counts are left out: an answer is cut    *)
(* (max_total_tokens reached, or finish_reason "length") or it is not.     *)
(***************************************************************************)
EXTENDS Integers, Sequences

CONSTANTS
  Prompt,         \* the messages an episode starts with
  MaxSteps,       \* max_steps: turns of an episode
  TimeoutBudget,  \* timeout_budget: tool timeouts it outlives
  MaxRetries,     \* max_retries of a chat completion
  StartAttempts   \* retry of toolbox.entered()

ASSUME AgentAssumption ==
  /\ Prompt \in Seq([role : {"system", "user"}, content : STRING])
  /\ MaxSteps \in Nat \ {0} /\ StartAttempts \in Nat \ {0}
  /\ TimeoutBudget \in Nat /\ MaxRetries \in Nat

VARIABLES
  at,          \* where run() stands
  attempt,     \* failed attempts at the toolbox's start, or at this request
  steps,       \* info["steps"]
  timeouts,    \* info["timeouts"]
  transcript,  \* the conversation
  calls,       \* the tools that the last answer calls
  made,        \* how many of them have their answer in the transcript
  finishing,   \* saw_finish
  reason       \* termination_reason

agentVars == <<at, attempt, steps, timeouts, transcript, calls, made, finishing, reason>>

FinishTools == {"submit", "finish"}

Reasons == {"unknown", "finished", "max_steps", "token_limit", "timeout_limit",
            "unknown_error", "cancelled"}

AgentTypeOK ==
  /\ at \in {"starting", "asking", "waiting", "acting", "closing", "over"}
  /\ attempt \in Nat /\ attempt <= MaxRetries + StartAttempts
  /\ steps \in 0..MaxSteps /\ timeouts \in 0..(TimeoutBudget + 1)
  /\ made \in 0..Len(calls) /\ finishing \in BOOLEAN /\ reason \in Reasons

-----------------------------------------------------------------------------
(* Messages.                                                               *)

AssistantMessage(content, cs) == [role |-> "assistant", content |-> content, calls |-> cs]

\* The answer to the k-th call (tool_call_id k); a skipped call has no outcome.
ToolMessage(k, outcome) ==
  [role |-> "tool", call |-> k, name |-> calls[k], outcome |-> outcome]

Slip_Skipped(k) == << >>                       \* leaves the calls unanswered

\* "Skipped: timeout budget exhausted." for every call after the k-th.
Skipped(k) == [i \in 1..(Len(calls) - k) |-> ToolMessage(k + i, << >>)]

-----------------------------------------------------------------------------
(* run() outside of its turns.                                             *)

AgentInit ==
  /\ at = "starting" /\ attempt = 0 /\ steps = 0 /\ timeouts = 0
  /\ transcript = Prompt /\ calls = << >> /\ made = 0
  /\ finishing = FALSE /\ reason = "unknown"

StopWith(why) == at' = "closing" /\ reason' = why

\* toolbox.entered(): every tool is ready.
ToolboxStarted ==
  /\ at = "starting" /\ at' = "asking" /\ steps' = 1 /\ attempt' = 0
  /\ UNCHANGED <<timeouts, transcript, calls, made, finishing, reason>>

\* _start_tool: an attempt raised, timed out, or a dependency cancelled it.
\* After the last one that error propagates, and run() does not catch a
\* CancelledError.
ToolboxFailed ==
  /\ at = "starting" /\ attempt' = attempt + 1
  /\ \/ attempt' < StartAttempts /\ UNCHANGED <<at, reason>>
     \/ /\ attempt' = StartAttempts
        /\ \E why \in {"unknown_error", "cancelled"} : StopWith(why)
  /\ UNCHANGED <<steps, timeouts, transcript, calls, made, finishing>>

NextTurn ==
  \/ /\ steps < MaxSteps
     /\ at' = "asking" /\ steps' = steps + 1 /\ UNCHANGED reason
  \/ steps = MaxSteps /\ StopWith("max_steps") /\ UNCHANGED steps

\* Whoever runs the agent cancels it; the toolbox is closed all the same.
Cancelled ==
  /\ at \notin {"closing", "over"} /\ StopWith("cancelled")
  /\ UNCHANGED <<attempt, steps, timeouts, transcript, calls, made, finishing>>

\* toolbox.close() is done: it never raises.
AgentClosed ==
  /\ at = "closing" /\ at' = "over"
  /\ UNCHANGED <<attempt, steps, timeouts, transcript, calls, made, finishing, reason>>

-----------------------------------------------------------------------------
(* step(): the request ...                                                 *)

Post ==
  /\ at = "asking" /\ at' = "waiting"
  /\ UNCHANGED <<attempt, steps, timeouts, transcript, calls, made, finishing, reason>>

GivesUp == attempt = MaxRetries

\* Connection error, 429 or 5xx: the same request again, or give up.
PostFailed ==
  /\ at \in {"asking", "waiting"}
  /\ \/ ~GivesUp /\ attempt' = attempt + 1 /\ at' = "asking" /\ UNCHANGED reason
     \/ GivesUp /\ StopWith("unknown_error") /\ UNCHANGED attempt
  /\ UNCHANGED <<steps, timeouts, transcript, calls, made, finishing>>

\* Any other 4xx.
PostRefused ==
  /\ at = "waiting" /\ StopWith("unknown_error")
  /\ UNCHANGED <<attempt, steps, timeouts, transcript, calls, made, finishing>>

\* The policy's turn, with its tool calls; cut short or not.
ModelAnswers(content, cs, cut) ==
  /\ at = "waiting"
  /\ transcript' = Append(transcript, AssistantMessage(content, cs))
  /\ calls' = cs /\ made' = 0 /\ finishing' = FALSE /\ attempt' = 0
  /\ \/ cut /\ StopWith("token_limit")
     \/ ~cut /\ cs = << >> /\ StopWith("finished")
     \/ ~cut /\ cs # << >> /\ at' = "acting" /\ UNCHANGED reason
  /\ UNCHANGED <<steps, timeouts>>

-----------------------------------------------------------------------------
(* ... and its tool calls.                                                 *)

Statuses == {"ok", "error", "timeout"}         \* format_error counts as error

NextCall == calls[made + 1]

OverBudget == timeouts' > TimeoutBudget

\* toolbox.call returned: record it, and go on with the next call or turn.
CallReturns(outcome, status) ==
  /\ at = "acting"
  /\ timeouts' = timeouts + IF status = "timeout" THEN 1 ELSE 0
  /\ \/ /\ OverBudget /\ made' = Len(calls)
        /\ transcript' = Append(transcript, ToolMessage(made + 1, <<outcome>>))
                           \o Skipped(made + 1)
        /\ StopWith("timeout_limit") /\ UNCHANGED <<finishing, steps>>
     \/ /\ ~OverBudget /\ made' = made + 1
        /\ transcript' = Append(transcript, ToolMessage(made + 1, <<outcome>>))
        /\ finishing' = (finishing \/ (NextCall \in FinishTools /\ status = "ok"))
        /\ \/ made' < Len(calls) /\ UNCHANGED <<at, steps, reason>>
           \/ made' = Len(calls) /\ ~finishing' /\ NextTurn
           \/ /\ made' = Len(calls) /\ finishing'
              /\ StopWith("finished") /\ UNCHANGED steps
  /\ UNCHANGED <<attempt, calls>>

\* A tool raised something else than ToolError: the loop's except clause.
CallRaises ==
  /\ at = "acting" /\ StopWith("unknown_error")
  /\ UNCHANGED <<attempt, steps, timeouts, transcript, calls, made, finishing>>
=============================================================================
