SPECIFICATION Spec
CONSTANTS
  x1 = x1
  x2 = x2
  b1 = b1
  b2 = b2
  Handlers <- TwoHandlers
  BuildIds <- TwoBuilds
  NumPolicies = 3
  Isolation = TRUE
  Gateway = TRUE
  MaxFaults = 2
  MaxStops = 1
SYMMETRY HandlersSymmetry
INVARIANTS
  TypeOK
  DeployedIsBuilt
  IsolatedBeforeUse
  PendingIsCreated
  SerialBuildsStart
  EndIsRecorded
