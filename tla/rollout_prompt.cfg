SPECIFICATION FairSpec
CONSTANTS
  Prompts = {"p"}
  Sessions <- MCSiblings
  RolloutN = 3
  GatewayCount = 2
  Runners <- MCRunners
  AgentName <- MCAgentName
  Cap <- MCCap
  Selection <- MCSelection
  Inline = {"inline"}
  MaxTrajectories = 2
  MaxDown = 1
INVARIANTS
  TypeOK
  LoadMatchesRoutes
  NothingLeaks
  RecordsAreFinal
  TagsAreTrue
PROPERTIES
  TagIsLast
  BatchEnds
