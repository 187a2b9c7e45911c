SPECIFICATION Spec
CONSTANTS
  Prompts = {"p", "q", "r"}
  Sessions <- MCLoners
  RolloutN = 1
  GatewayCount = 2
  Runners <- MCRunners
  AgentName <- MCAgentName
  Cap <- MCCap
  Selection <- MCSelection
  Inline = {"inline"}
  MaxTrajectories = 2
  MaxDown = 1
INVARIANTS
  BurstSpread
  VerdictIsSound
