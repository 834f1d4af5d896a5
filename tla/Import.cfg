SPECIFICATION ImportSpec
CONSTANTS
  j1 = j1
  Job <- Jobs
  Doc <- Document
  MaxCancel = 2
  MaxFault = 2
INVARIANTS CompletedMeansComplete
PROPERTIES CancelledStops JobEnds
CHECK_DEADLOCK FALSE
