SPECIFICATION Spec
CONSTANTS
  x1 = x1
  x2 = x2
  Handlers <- Two
  MaxReplicas = 2
  Exposed = TRUE
  MaxFaults = 1
  MaxCrashes = 1
SYMMETRY HandlersSymmetry
INVARIANTS
  TypeOK
  SerialAgreement
  NoLeftovers
  RoutesTakenBack
PROPERTIES
  LoneRequestRepairs
