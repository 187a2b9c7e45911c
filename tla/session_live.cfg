SPECIFICATION FairConversation
CONSTANTS
  Requests = {r1, r2, r3, r4, r5}
  Others = {r1, r2, r3}
  Agents = {"react", "other"}
  Messages <- MCMessages
  Assistant <- MCAssistant
  User <- MCUser
  Outputs <- MCOutputs
  OutLen <- MCOutLen
  Tools = {"none"}
  Calls <- MCCalls
  Rewards = {"w"}
  NoReward = "noreward"
  Capacity = 8
  Rollback = TRUE
  Logprobs = TRUE
  GenPrompt = "GP"
  Pad = "pad"
  Nobody = Nobody
  Prompt <- MCPrompt
  MaxSteps = 3
  TimeoutBudget = 0
  MaxRetries = 1
  StartAttempts = 1
  ToolsOf <- MCToolsOf
  Said <- MCSaid
  Empty = "empty"
INVARIANTS
  HeardAnswersSurvive
PROPERTIES
  RequestAnswered
  ImplementsTurnLedger
