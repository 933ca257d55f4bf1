CONSTANTS
  MaxRecords = 4
  RotateBytes = 2
  Answers = {"ok", "rejected", "error", "lost"}
  Faults = {"crash", "stop", "cursor", "remove", "reset", "reopen"}
  MaxFaults = 2
SPECIFICATION Spec
PROPERTIES LostOnlyInRotationWindow
