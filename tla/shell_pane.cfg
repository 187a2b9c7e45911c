SPECIFICATION FairEpisode
CONSTANTS
  MaxCommands = 3
  MaxSteps = 3
  TimeoutBudget = 2
  MaxRetries = 1
  StartAttempts = 2
  Prompt <- MCPrompt
  Turns <- MCTurns
INVARIANTS
  EpisodeTypeOK
  TranscriptAnswered
  SessionsAccounted
  ResultIsOwn
  PaneIsFree
  NoStoppedJobs
PROPERTIES
  EpisodeEnds
