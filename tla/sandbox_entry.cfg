SPECIFICATION FairSpec
CONSTANTS
  Sandboxes <- MCSandboxes
  Provider <- MCProvider
  Attempts = 3
  Slots = 1
INVARIANTS
  TypeOK
  SlotsAccounted
  BodyHasItsInstance
  LeaksAreLost
PROPERTIES
  EntryEnds
