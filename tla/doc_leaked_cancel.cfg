SPECIFICATION Spec
CONSTANTS
  Prompts = {"p"}
  Sessions <- MCSiblings
  RolloutN = 3
  GatewayCount = 2
  Runners <- MCRunners
  AgentName <- MCAgentName
  Cap <- MCCap
  Selection <- MCSelection
  Inline = {"inline"}
  MaxTrajectories = 2
  MaxDown = 0
INVARIANTS
  SiblingsSurvive
