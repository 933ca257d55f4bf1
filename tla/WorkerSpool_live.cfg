CONSTANTS
  MaxRecords = 3
  MaxBatch = 2
  MaxBytes = 2
  RotateThreshold = 1
  MaxRetries = 2
  MaxSegments = 2
  MaxCrashes = 1
  Faults = {"transient", "badrecord", "deadletter", "commit", "rename", "oscrash"}
SPECIFICATION FairSpec
INVARIANTS NothingLost
PROPERTIES ImplementsQueue SpoolKeepsMoving
