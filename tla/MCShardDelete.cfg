SPECIFICATION MCSpec
CONSTANTS
  Keys = {k1, k2}
  Scopes = {{k1}}
  Clients = {c1, c2}
  Readers = {}
  CompactionEnabled = FALSE
  MaxCascadeSteps = 0
  ExplicitCompact = TRUE
  UnsequencedDeletes = FALSE
  Faults = {"append", "apply", "part", "manifest", "checkpoint", "close", "remove"}
  MaxSeq = 3
  MaxPart = 4
  MaxLevel = 2
  MaxWal = 3
  MaxMishaps = 1
SYMMETRY Symmetry
INVARIANTS TypeOK CrashKeepsWrites CrashKeepsDeletes QuerySeesWrites QueryHidesDeleted ManifestPartsExist
CHECK_DEADLOCK FALSE
