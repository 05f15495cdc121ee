SPECIFICATION FairSpec
CONSTANTS
  Managers <- OneManager
  Lives <- HealthyShort
  Stored <- Live
  Slots = {1}
  AutoRca = TRUE
  MaxResolves = 1
  MaxManual = 0
  MaxFaults = 1
  MaxCrashes = 1
INVARIANTS
  TypeOK
PROPERTIES
  ResolvedStays
  LastingProblemIsOpen
  DeletedFallsSilent
