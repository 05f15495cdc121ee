SPECIFICATION FairSpec
CONSTANTS
  TicksPerSecond = 2
  Lookback = 4
  Lookahead = 2
  MaxLogLines = 2
  MaxSamples = 2
  TokenLife = 8
  LlmTimeout = 2
  HttpTimeout = 1
  MaxFaults = 1
  MaxLater = 1
  Retention = 4
  Replicas <- MCReplicas
  PodLists <- MCPodLists
  EventTypes <- MCEventTypes
  LogLines <- MCLogLines
  Series <- MCSeries
  Durations <- MCDurations
  Changes <- MCChanges
  SampleData <- MCSampleData
INVARIANTS
  TypeOK
  ReportIsComplete
  ReportFollowsEvidence
  PromptRunSucceeds
PROPERTIES
  TriggerSampleSeen
  RunEnds
CHECK_DEADLOCK FALSE
