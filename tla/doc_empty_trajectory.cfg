SPECIFICATION Spec
CONSTANTS
  Requests = {r1, r2, r3}
  Messages <- MCMessages
  Assistant <- MCAssistant
  User <- MCUser
  Outputs <- MCOutputs
  OutLen <- MCOutLen
  Tools = {"none"}
  Calls <- MCRewriteCalls
  Rewards = {}
  NoReward = "noreward"
  Capacity = 4
  Rollback = TRUE
  Logprobs = TRUE
  GenPrompt = "GP"
  Pad = "pad"
  Nobody = Nobody
INVARIANTS
  ClosedTrajectoriesTrainable
