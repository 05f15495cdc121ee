SPECIFICATION Spec
CONSTANTS
  Requests = {1}
  Pods = {"p"}
  EventNames = {"e"}
  TicksPerSecond = 2
  TicksPerMinute = 1
  DefaultLookback = 2
  DefaultLookahead = 1
  TailLines = 1
  Triggers <- MCTriggers
  Minutes = {0, 3}
  MaxTime = 4
  MaxLog = 2
INVARIANTS
  TypeOK
  EvidenceShowsWindow
CHECK_DEADLOCK FALSE
