SPECIFICATION ApprovalsSpec
CONSTANTS
  \* ProjectApproval
  Slugs = {"a", "b"}
  Logs = {2}
  MaxRecords = 2
  Approvals = {"p", "q"}
  MaxApprovals = 2
  Ops = {"create", "delete", "rename", "merge"}
  MaxOps = 1
  MaxProjects = 3
  MaxRows = 2
  AutoApprove = FALSE
  Faults = {"crash", "busy", "resolve", "cancel", "timeout"}
  MaxFaults = 1
  MaxAttempts = 2
  \* KeyTouch
  TouchReaders = {"r", "s"}
  TouchKeys = {"k", "l"}
  MaxPending = 1
  TouchFreshFor = 1
  KtMaxTime = 2
  KtMaxTouches = 3
  KtMaxFaults = 1
  \* KeyRequests
  Agents = {"a", "b"}
  Polls = {1, 2}
  MaxPendingPerProject = 1
  RequestTTL = 2
  PurgeAfter = 0
  KrMaxTime = 4
  KrMaxFaults = 1
  \* SetupKeys
  KeySlugs = {"s", "t"}
  KeyNames = {"k"}
  KeyScopes = {"full", "read"}
  KeyRoutes = {"ingest", "marker", "read", "other"}
  KeyChecks = {1}
  SkMaxSteps = 5
  SkMaxFaults = 1
INVARIANTS
  ApprovalSafe
  OneKeyAndItArrives
  EndedKeysStayDead
  UseReachesTheRow
CHECK_DEADLOCK FALSE
