SPECIFICATION Spec
CONSTANTS
  Sync = FALSE
  BatchRecords = 2
  MayRoll = TRUE
  Stops = {"process"}
  Tears = {}
  Faults = {"sync", "open", "remove"}
  MaxRecord = 4
  MaxSegment = 4
INVARIANTS TypeOK PromisedReplayed
PROPERTY ImplementsLog
