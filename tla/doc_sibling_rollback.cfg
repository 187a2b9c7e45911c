SPECIFICATION Spec
CONSTANTS
  Requests = {r1, r2, r3, r4}
  Messages <- MCMessages
  Assistant <- MCAssistant
  User <- MCUser
  Outputs <- MCOutputs
  OutLen <- MCOutLen
  Tools = {"none"}
  Calls <- MCSiblingCalls
  Rewards = {}
  NoReward = "noreward"
  Capacity = 7
  Rollback = TRUE
  Logprobs = TRUE
  GenPrompt = "GP"
  Pad = "pad"
  Nobody = Nobody
PROPERTIES
  OnlyRewritesRollBack
