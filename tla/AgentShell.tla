----------------------------- MODULE AgentShell -----------------------------
(***************************************************************************)
(* The ReAct agent over its toolbox (src/uni_agent/tools/base.py) and the  *)
(* shell tool (src/uni_agent/tools/shell.py): an episode from the opening  *)
(* of the tmux session to its end.                                         *)
(*                                                                         *)
(* The policy's turns come from Turns.  "shell" is the stateful shell, a   *)
(* finish tool returns at once, and any other name stands for a call that  *)
(* is malformed or fails in a way the tool reports (ToolError).            *)
(***************************************************************************)
EXTENDS ReActAgent, TmuxShell

CONSTANT Turns      \* what the policy may call in one turn

ASSUME TurnsAssumption == Turns \subseteq Seq(STRING)

VARIABLES
  opened,   \* tmux sessions ever created, numbered in order
  alive,    \* those that exist
  shell,    \* ShellTool._shell, the session that the tool holds; 0 for None
  lost      \* history: sessions whose creation or kill did not complete

sessionVars == <<opened, alive, shell, lost>>

paneVars == vars                \* those of TmuxShell

episodeVars == <<agentVars, paneVars, sessionVars>>

EpisodeTypeOK ==
  /\ TypeOK /\ AgentTypeOK
  /\ opened \in 0..StartAttempts
  /\ alive \subseteq 1..opened /\ lost \subseteq 1..opened /\ shell \in 0..opened

-----------------------------------------------------------------------------
(* ShellTool.start and close.                                              *)

\* Each attempt makes a TmuxShell with a session id of its own.
Opens == opened' = opened + 1 /\ alive' = alive \cup {opened + 1}

ShellStarted ==
  /\ ToolboxStarted /\ Opens /\ shell' = opened + 1
  /\ UNCHANGED <<paneVars, lost>>

\* The attempt failed before new-session, or with or after it.
StartIncomplete ==
  \/ UNCHANGED sessionVars
  \/ Opens /\ lost' = lost \cup {opened + 1} /\ UNCHANGED shell

ShellNotStarted == ToolboxFailed /\ StartIncomplete /\ UNCHANGED paneVars

Slip_Kills == shell' = 0 /\ UNCHANGED alive     \* forgets it, does not kill it

Kills == shell' = 0 /\ alive' = alive \ {shell}

\* kill-session and rm; the tool forgets the shell only after both.
ShellClosed ==
  /\ AgentClosed
  /\ \/ shell = 0 /\ UNCHANGED <<paneVars, sessionVars>>
     \/ shell # 0 /\ Kills /\ Close /\ UNCHANGED <<opened, lost>>

\* One of them raised, or was cancelled: with or without effect.
CloseFailed ==
  /\ AgentClosed /\ shell # 0
  /\ lost' = lost \cup {shell}
  /\ \/ UNCHANGED <<paneVars, alive>>
     \/ alive' = alive \ {shell} /\ Close
  /\ UNCHANGED <<opened, shell>>

CancelAgent ==
  /\ Cancelled
  /\ \/ UNCHANGED <<paneVars, sessionVars>>
     \/ at = "starting" /\ StartIncomplete /\ UNCHANGED paneVars

-----------------------------------------------------------------------------
(* Toolbox.call.                                                           *)

CallsShell == at = "acting" /\ NextCall = "shell"

\* ShellTool.run types the command ...
ShellCommand(k) ==
  CallsShell /\ StartCommand(k) /\ UNCHANGED <<agentVars, sessionVars>>

\* ... and TmuxShell.run goes on: a step within it, or its return.
ShellGoesOn ==
  /\ CallsShell /\ Caller /\ pc' # "idle" /\ UNCHANGED <<agentVars, sessionVars>>

ShellReturns ==
  /\ CallsShell /\ Caller /\ pc' = "idle"
  /\ CallReturns(result', IF result'.timedOut THEN "timeout" ELSE "ok")
  /\ UNCHANGED sessionVars

\* One of run()'s execs raised.
ShellRaises == CallsShell /\ CallRaises /\ UNCHANGED <<paneVars, sessionVars>>

OtherCall ==
  /\ at = "acting" /\ NextCall # "shell"
  /\ CallReturns("done", IF NextCall \in FinishTools THEN "ok" ELSE "error")
  /\ UNCHANGED <<paneVars, sessionVars>>

-----------------------------------------------------------------------------
(* The policy answers, in time or not at all.                              *)

Ask == (Post \/ PostFailed \/ PostRefused) /\ UNCHANGED <<paneVars, sessionVars>>

Answer ==
  /\ \E cs \in Turns, cut \in BOOLEAN : ModelAnswers("turn", cs, cut)
  /\ UNCHANGED <<paneVars, sessionVars>>

-----------------------------------------------------------------------------
EpisodeInit ==
  Init /\ AgentInit /\ opened = 0 /\ alive = {} /\ shell = 0 /\ lost = {}

AgentStep ==
  \/ ShellStarted \/ ShellNotStarted \/ Ask \/ Answer
  \/ \E k \in Kinds : ShellCommand(k)
  \/ ShellGoesOn \/ ShellReturns \/ OtherCall
  \/ ShellClosed \/ CloseFailed

PaneStep == (Reader \/ Finish \/ Swallow) /\ UNCHANGED <<agentVars, sessionVars>>

EpisodeNext ==
  \/ AgentStep \/ ShellRaises \/ CancelAgent \/ PaneStep
  \/ at = "over" /\ UNCHANGED episodeVars

EpisodeSpec == EpisodeInit /\ [][EpisodeNext]_episodeVars

\* The agent's coroutine goes on: whatever it awaits (an exec, an answer of
\* the policy) comes to an end.  bash reads its lines; no program ends.
FairEpisode ==
  /\ EpisodeSpec /\ WF_episodeVars(AgentStep)
  /\ WF_episodeVars(Reader /\ UNCHANGED <<agentVars, sessionVars>>)
=============================================================================
