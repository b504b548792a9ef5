SPECIFICATION MCSpec
CONSTANTS
  Keys = {k1}
  Scopes = {}
  Clients = {c1}
  Readers = {}
  CompactionEnabled = FALSE
  MaxCascadeSteps = 0
  ExplicitCompact = FALSE
  UnsequencedDeletes = FALSE
  Faults = {"dirsync"}
  MaxSeq = 1
  MaxPart = 2
  MaxLevel = 1
  MaxWal = 1
  MaxMishaps = 1
SYMMETRY Symmetry
INVARIANTS ManifestPartsExist
CHECK_DEADLOCK FALSE
