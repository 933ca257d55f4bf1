CONSTANTS
  MaxRecords = 3
  MaxBatch = 2
  MaxBytes = 0
  RotateThreshold = 1
  MaxRetries = 2
  MaxSegments = 2
  MaxCrashes = 2
  Faults = {"transient", "cursorwrite", "commit", "delete", "rename", "reopen", "unreadable", "stat", "oscrash"}
SPECIFICATION Spec
INVARIANTS StoredOncePerLife
