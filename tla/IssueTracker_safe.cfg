CONSTANTS
  Issues = {f1}
  MaxEvents = 2
  MaxRequests = 2
  Faults = {"busy", "crash", "apply", "remove", "reopen"}
  MaxFaults = 2
SPECIFICATION FairSpec
INVARIANTS IssuesSafe
PROPERTIES EveryQueuedApplied
