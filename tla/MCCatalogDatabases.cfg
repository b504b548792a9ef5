SPECIFICATION MCSpec
CONSTANTS
  MaxEvents = 3
  Points <- MCPoints
  MaxBatch = 2
  Durations = {1}
  Threshold = 2
  MaxSeries = 2
  MaxFields = 1
  MaxTagValuesPerKey = 1
  Faults = {}
  Stops = {}
INVARIANTS DatabasesSurvive
CHECK_DEADLOCK FALSE
