SPECIFICATION Spec
CONSTANTS
  Managers = {m, n}
  Lives <- AlwaysShort
  Stored <- Running
  Slots = {1}
  AutoRca = TRUE
  MaxResolves = 1
  MaxManual = 1
  MaxFaults = 1
  MaxCrashes = 0
SYMMETRY ManagersAlike
INVARIANTS
  OpenBounded
  RunFollows
