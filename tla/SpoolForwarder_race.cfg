CONSTANTS
  MaxRecords = 3
  RotateBytes = 2
  Answers = {"ok"}
  Faults = {}
  MaxFaults = 0
SPECIFICATION Spec
INVARIANTS NothingLost
