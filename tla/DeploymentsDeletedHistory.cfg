SPECIFICATION Spec
CONSTANTS
  x1 = x1
  x2 = x2
  Handlers <- Two
  MaxReplicas = 2
  Exposed = FALSE
  MaxFaults = 0
  MaxCrashes = 0
PROPERTIES
  DeletedIsHistory
