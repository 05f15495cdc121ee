SPECIFICATION Spec
CONSTANTS
  Agents <- TwoAgents
  NRuns = 1
  Slots = {1}
  Requests = {1}
  PollLimit = 3
  PollEnabled = TRUE
  TriggerEnabled = TRUE
  MaxFaults = 2
  MaxCrashes = 1
  MaxMessages = 2
INVARIANTS
  TypeOK
  OneHolder
  HolderInv
  RecordFollowsStatus
  ThreadRaceIsChat
  AnswersFollowQuestions
PROPERTIES
  
  ImplementsLifecycle
