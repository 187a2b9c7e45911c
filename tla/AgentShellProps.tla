-------------------------- MODULE AgentShellProps --------------------------
(***************************************************************************)
(* What an episode over the shell promises (the specification is           *)
(* AgentShell), beside what TmuxShell promises by itself.                  *)
(***************************************************************************)
EXTENDS AgentShell

\* Message i + k of the transcript answers the k-th of the calls cs.
AnswersCall(i, k, cs) ==
  /\ i + k <= Len(transcript)
  /\ transcript[i + k].role = "tool"
  /\ transcript[i + k].call = k /\ transcript[i + k].name = cs[k]

\* The calls of a turn are being made, or the episode broke off.
Open(i) ==
  /\ \A j \in (i + 1)..Len(transcript) : transcript[j].role = "tool"
  /\ at = "acting" \/ reason \in {"token_limit", "unknown_error", "cancelled"}

\* Every call is answered, in the order of the calls and before the next turn.
CallsAnswered ==
  \A i \in DOMAIN transcript : transcript[i].role = "assistant" =>
    LET cs == transcript[i].calls
    IN  \/ Open(i) /\ i + Len(cs) > Len(transcript)
        \/ /\ \A k \in DOMAIN cs : AnswersCall(i, k, cs)
           /\ i + Len(cs) < Len(transcript) =>
                transcript[i + Len(cs) + 1].role = "assistant"

\* Where the transcript has the outcome of a command.
ShellAnswers ==
  {i \in DOMAIN transcript :
     /\ transcript[i].role = "tool"
     /\ transcript[i].name = "shell" /\ transcript[i].outcome # << >>}

OutcomeAt(i) == transcript[i].outcome[1]

\* The outcomes are those of the commands typed, each once and in order,
\* except the last one's while run() has not returned, if it ever does.
CommandsAnswered ==
  /\ \A i \in ShellAnswers :
       /\ OutcomeAt(i).id \in 1..counter
       /\ OutcomeAt(i).timedOut \/ OutcomeAt(i).code = "ended"
  /\ \A i, j \in ShellAnswers : i < j => OutcomeAt(i).id < OutcomeAt(j).id
  /\ \A id \in 1..counter :
       (\E i \in ShellAnswers : OutcomeAt(i).id = id) \/ (id = counter /\ pc # "idle")

\* Every tool call has its answer, in the order of the calls and before the
\* next turn, also when the timeout budget is spent in the middle of a turn
\* (react/agent.py 162-200: a request with a call left open is refused); and a
\* shell call is answered with the outcome of its own command, which ended if
\* the answer does not say that it timed out (tools/shell.py 271-307).
TranscriptAnswered ==
  CallsAnswered /\ CommandsAnswered /\ (at = "waiting" => made = Len(calls))

\* While it works the agent has one session, which exists; a session it does
\* not hold is left over from a start or a kill that did not complete
\* (tools/base.py 318-346, tools/shell.py 433-441 and 466-469: a retried start
\* opens another session, close() kills the one that is held).
SessionsAccounted ==
  /\ alive \subseteq lost \cup {shell}
  /\ at \in {"asking", "waiting", "acting"} => shell \in alive
  /\ at = "over" => alive \subseteq lost

\* An episode ends, whatever the policy and the programs it starts do: with
\* steps, retries, timeouts and the polling of run() all bounded
\* (react/agent.py 88-103, tools/shell.py 279-295).
EpisodeEnds == <>(at = "over")
=============================================================================
