SPECIFICATION MCSpec
CONSTANTS
  Ids = {1, 2}
  Expired = {1}
  Straddling = {}
  Clients = {c1}
  Readers = {}
  Faults = {}
  PartialStop = TRUE
  MaxSeq = 2
  MaxHandle = 3
  MaxPart = 2
  MaxMaintenance = 2
  MaxMishaps = 1
INVARIANTS EngineOpens
CHECK_DEADLOCK FALSE
