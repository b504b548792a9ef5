SPECIFICATION Spec
CONSTANTS
  Sync = FALSE
  BatchRecords = 2
  MayRoll = FALSE
  Stops = {"power"}
  Tears = {"partial"}
  Faults = {"write", "sync", "open", "remove"}
  MaxRecord = 3
  MaxSegment = 3
INVARIANTS  PromisedReplayed  
CHECK_DEADLOCK FALSE
