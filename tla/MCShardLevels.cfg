SPECIFICATION MCSpec
CONSTANTS
  Keys = {k1}
  Scopes = {}
  Clients = {c1, c2}
  Readers = {r1}
  CompactionEnabled = TRUE
  MaxCascadeSteps = 2
  ExplicitCompact = FALSE
  UnsequencedDeletes = FALSE
  Faults = {"append", "apply", "part", "manifest", "checkpoint", "close", "remove"}
  MaxSeq = 3
  MaxPart = 5
  MaxLevel = 3
  MaxWal = 3
  MaxMishaps = 2
SYMMETRY Symmetry
INVARIANTS  CrashKeepsWrites QuerySeesWrites ManifestPartsExist StreamPartsReadable
CHECK_DEADLOCK FALSE
