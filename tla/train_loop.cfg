SPECIFICATION FairSpec
CONSTANTS
  MaxRow = 12
  MaxFaults = 2
  Configurations <- MCConfigurations
INVARIANTS
  TypeOK
  EachPromptOnce
  EnoughPrompts
  StalenessBounded
  TrajectoriesAccounted
PROPERTIES
  TrainingEnds
