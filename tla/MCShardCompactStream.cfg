SPECIFICATION MCSpec
CONSTANTS
  Keys = {k1}
  Scopes = {}
  Clients = {c1}
  Readers = {r1}
  CompactionEnabled = FALSE
  MaxCascadeSteps = 0
  ExplicitCompact = TRUE
  UnsequencedDeletes = FALSE
  Faults = {}
  MaxSeq = 2
  MaxPart = 5
  MaxLevel = 2
  MaxWal = 2
  MaxMishaps = 0
SYMMETRY Symmetry
INVARIANTS StreamPartsReadable
CHECK_DEADLOCK FALSE
