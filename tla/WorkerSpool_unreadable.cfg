CONSTANTS
  MaxRecords = 4
  MaxBatch = 1
  MaxBytes = 0
  RotateThreshold = 1
  MaxRetries = 2
  MaxSegments = 2
  MaxCrashes = 1
  Faults = {"unreadable"}
SPECIFICATION Spec
INVARIANTS KeptUntilHandled
