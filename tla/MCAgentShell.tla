---------------------------- MODULE MCAgentShell ----------------------------
(***************************************************************************)
(* The model values of the AgentShell run.                                 *)
(***************************************************************************)
EXTENDS AgentShellProps

MCPrompt == <<[role |-> "user", content |-> "task"]>>

\* Plain text, one command, and a command between a call that fails and the
\* one that finishes: at most three commands in three turns.
MCTurns == {<< >>, <<"shell">>, <<"nosuch", "shell", "submit">>}
=============================================================================
