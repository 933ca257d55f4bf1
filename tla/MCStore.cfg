SPECIFICATION StoreSpec
CONSTANTS
  \* Retention
  RtProjects = {"p"}
  RetentionDays = 2
  Overrides = {0, 1}
  BatchSize = 1
  MaxDeletes = 2
  SweepBudget = 1
  ReleasesKept = 1
  MaxReleaseBatches = 1
  RtMaxTime = 3
  RtMaxEvents = 2
  RtMaxReleases = 2
  RtMaxFaults = 1
  \* Checkpoint
  CkReaders = {"r", "s"}
  CkInterval = 2
  TickBudget = 2
  RetryEvery = 1
  TruncateEvery = 2
  BackstopAfter = 2
  BackstopFrames = 1
  BackstopWait = 3
  SnapshotMax = 1
  RecoveryTries = 2
  CkMaxTime = 10
  CkMaxFaults = 1
  \* Releases
  ReleaseVersions = {"1"}
  ReleaseEnvs = {"", "prod"}
  ReleaseCallers = {"c", "h"}
  SeenReleasesCap = 1
  ReMaxTime = 1
  ReMaxRows = 2
  ReMaxFaults = 1
  \* IssueListing
  LiIssues = {1, 2, 3}
  LiFirst = {1, 2}
  LiFilters = {"open", "regressed"}
  LiSorts = {"last_seen", "event_count"}
  LiPageSize = 1
  LiCap = 3
  LiMaxTime = 3
  LiMaxChanges = 2
  LiMaxFaults = 1
  \* IssueCounts
  IcIssues = {1, 2}
  IcScopes = {{1, 2}, {1}}
  CountsTTL = 2
  CountsMaxScopes = 1
  IcMaxTime = 4
  IcMaxChanges = 2
  IcMaxFaults = 1
  \* EventFeed
  FeedLimit = 2
  FeedLookback = 1
  EventPage = 1
  Skews = {0, 2}
  Delays = {0, 1}
  EfMaxTime = 2
  EfMaxEvents = 3
  EfMaxFaults = 1
  \* LogStream
  Subscribers = {"a", "b"}
  Publishers = {1}
  BatchSizes = {1, 2}
  ChannelBuffer = 1
  InsertMaxAttempts = 2
  RetentionCap = 2
  TrimInterval = 2
  PageLimit = 1
  LsMaxRows = 3
  \* ProjectDirectory
  PdSlugs = {"a", "b"}
  PdFirst <- FirstProject
  PrefixBase <- SamePrefix
  PdGroups = {"g"}
  PdFingerprints = {"x", "y"}
  PdRequests = {1, 2}
  PdOps = {"create", "ensure", "rename", "merge", "delete", "alias", "unalias", "group", "ungroup", "assign", "remove"}
  UsageTTL = 1
  PdMaxProjects = 3
  PdMaxIssues = 2
  PdMaxOps = 2
  PdMaxTime = 1
  PdMaxFaults = 1
INVARIANTS
  SweepsSound
  WalBounded
  ReleasesFollowEvents
  ListingCoversUntouched
  CountsIncludeOwnChanges
  FeedsShowEvents
  LogsReachReaders
  DirectorySound
CHECK_DEADLOCK FALSE
