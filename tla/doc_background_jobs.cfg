SPECIFICATION FairSpec
CONSTANT MaxCommands = 2
PROPERTIES
  BackgroundJobsSurvive
