SPECIFICATION Spec
CONSTANTS
  x1 = x1
  x2 = x2
  Handlers <- Two
  MaxReplicas = 2
  Exposed = TRUE
  MaxFaults = 0
  MaxCrashes = 0
INVARIANTS
  DeleteRemovesAll
