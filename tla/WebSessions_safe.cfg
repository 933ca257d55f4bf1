CONSTANTS
  Requests = {q1, q2}
  Readers = {q2}
  TTL = 2
  Skew = 1
  Grace = 1
  Lifetime = 4
  MaxTime = 5
  Faults = {"outage", "lost", "db", "unreachable", "crash"}
  MaxFaults = 1
SPECIFICATION Spec
INVARIANTS SessionsSafe
CHECK_DEADLOCK FALSE
