SPECIFICATION Spec
CONSTANTS
  x1 = x1
  x2 = x2
  Handlers <- Two
  Attempts = {"a"}
  Limit = 3
  Orgs = {"acme"}
  Idle = 1
  Life = 2
  MaxRotations = 1
  MaxFaults = 1
  MaxStops = 1
SYMMETRY HandlersSymmetry
INVARIANTS
  TypeOK
  AttemptUsedOnce
  PredecessorIsGone
  SerialSession
  TokensFollow
CHECK_DEADLOCK FALSE
