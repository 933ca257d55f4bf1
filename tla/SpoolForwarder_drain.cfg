CONSTANTS
  MaxRecords = 3
  RotateBytes = 0
  Answers = {"ok", "rejected", "error", "lost"}
  Faults = {"crash", "stop", "sync", "cursor"}
  MaxFaults = 2
SPECIFICATION FairSpec
INVARIANTS ForwarderSafe
PROPERTIES ImplementsFairQueue
