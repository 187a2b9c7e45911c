--------------------------- MODULE MCAgentSession ---------------------------
(***************************************************************************)
(* The model values of the AgentSession run: those of GatewaySession, and  *)
(* an agent that calls a tool after "a" and submits with "b".              *)
(***************************************************************************)
EXTENDS AgentSession, MCGatewaySession

MCPrompt == <<[role |-> "user", content |-> "u"]>>

MCToolsOf == [o \in MCOutputs |-> IF o = "a" THEN <<"shell">> ELSE <<"submit">>]

MCSaid == [user |-> "u", tool |-> "t"]
=============================================================================
