SPECIFICATION Spec
CONSTANTS
  Requests = {r1, r2, r3}
  Messages <- MCMessages
  Assistant <- MCAssistant
  User <- MCUser
  Outputs <- MCOutputs
  OutLen <- MCOutLen
  Tools = {"none"}
  Calls <- MCEchoCalls
  Rewards = {}
  NoReward = "noreward"
  Capacity = 7
  Rollback = TRUE
  Logprobs = TRUE
  GenPrompt = "GP"
  Pad = "pad"
  Nobody = Nobody
INVARIANTS
  LatestRewriteRollsBack
