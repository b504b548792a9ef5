SPECIFICATION MCSpec
CONSTANTS
  Ids = {1, 2}
  Expired = {1}
  Straddling = {2}
  Clients = {c1, c2}
  Readers = {r1}
  Faults = {"append", "flush", "close", "remove", "limit"}
  PartialStop = TRUE
  MaxSeq = 2
  MaxHandle = 3
  MaxPart = 2
  MaxMaintenance = 2
  MaxMishaps = 1
SYMMETRY Symmetry
INVARIANTS TypeOK AckedWritesKept DeleteReachesEarlierWrites OpenShardOwnsDir NumbersFresh
CHECK_DEADLOCK FALSE
