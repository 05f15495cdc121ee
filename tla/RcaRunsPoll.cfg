SPECIFICATION FairSpec
CONSTANTS
  Agents <- OneAgent
  NRuns = 2
  Slots = {1, 2}
  Requests = {}
  PollLimit = 1
  PollEnabled = TRUE
  TriggerEnabled = TRUE
  MaxFaults = 1
  MaxCrashes = 1
  MaxMessages = 0
PROPERTIES
  PendingLeaves
  RunsSettle
