SPECIFICATION MCSpec
CONSTANTS
  Keys = {k1, k2}
  Scopes = {{k1}}
  Clients = {c1}
  Readers = {}
  CompactionEnabled = TRUE
  MaxCascadeSteps = 1
  ExplicitCompact = FALSE
  UnsequencedDeletes = FALSE
  Faults = {}
  MaxSeq = 3
  MaxPart = 5
  MaxLevel = 3
  MaxWal = 3
  MaxMishaps = 0
SYMMETRY Symmetry
INVARIANTS QueryHidesDeleted
CHECK_DEADLOCK FALSE
