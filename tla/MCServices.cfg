SPECIFICATION ServicesSpec
CONSTANTS
  \* Monitors
  MonSlugs = {"m"}
  MonClients = {1, 2}
  MonIntervals = {3}
  MonGraces = {}
  MonSchedules = {{4, 7}}
  MonZones = {}
  MaxMonitorsPerProject = 1
  StartupGrace = 1
  ReportRepeat = 2
  StoreTimeout = 1
  ReportTimeout = 1
  MonMaxTime = 7
  MonMaxCheckIns = 2
  MonMaxFaults = 1
  \* CronExpr
  CronHours = 2
  CronMinutes = 2
  CronMonthDays = 3
  CronWeek = 2
  CronShift = 6
  CronSearchDays = 7
  CronLast = 24
  \* Alerting
  AlertIds = {1}
  AlertRules <- SavedRules
  AlertIssues = {1}
  NamedIssues = {}
  EventCounts = {100}
  Threshold = 5
  NewIssueMailMax = 1
  NewIssueMailWindow = 2
  MailSlots = 1
  MailQueue = 1
  AdminMail = TRUE
  AlertMaxTime = 3
  AlertMaxEvents = 3
  AlertMaxEdits = 2
  AlertMaxFaults = 1
  \* IngestHealth
  StaleAfter = 2
  SpoolStallAfter = 2
  MaxQueueDepth = 1
  AlertEvery = 3
  ConfirmSamples = 2
  QueueVisible = TRUE
  HealthMaxTime = 7
  HealthMaxDepth = 2
  HealthMaxWork = 3
  HealthMaxFaults = 1
  \* Silence
  QuietProjects = {"p"}
  QuietIssues = {1, 2}
  SilentFor = 2
  SilenceLookback = 3
  MinEarlier = 2
  SilenceMaxTime = 10
  SilenceMaxFaults = 1
  \* WeeklyDigest
  DgProjects = {1, 2, 3}
  DgActive = {1, 3}
  DgNotifiers = {"webhook", "email"}
  DgWeek = 4
  DgHour = 2
  DgRefire = 2
  DgMailAttempts = 2
  DgMaxRun = 1
  DgMaxTime = 7
  DgMaxRequests = 1
  DgMaxFaults = 2
  \* DetectWindow
  DetGroups = {"a", "b"}
  MaxGroups = 1
  Slots = 2
  DetThreshold = 2
  DetCooldown = 2
  DetectionBuffer = 1
  EmitAttempts = 2
  DetMaxTime = 5
  DetMaxRecords = 4
  DetMaxFaults = 1
  \* DetectionRules
  RuleIds = {"r", "s"}
  BuiltinIds = {"r"}
  RuleVersions = {"v1", "v2"}
  RuleRequests = {1, 2, 3}
  RuleMaxChanges = 3
  RuleMaxFaults = 1
  \* HostWatch
  Hosts = {"h"}
  HeartbeatRules = {"short", "long"}
  SilenceWindow <- HeartbeatWindows
  HoldFor = 1
  MetricCooldown = 2
  SeedAlreadySilent = 2
  ForgetHostAfter = 5
  HwMaxTime = 7
  HwMaxSamples = 3
  HwEmitAttempts = 2
  HwMaxFaults = 2
  \* TelemetryDB
  Hour = 2
  RollupGrace = 1
  RawKeep = 5
  HourlyKeep = 6
  CapRows = 3
  EvictStart = 2
  EvictStop = 1
  TdMaxTime = 7
  TdMaxSamples = 3
  TdMaxFaults = 1
  \* CfPoller
  CfIds = {1, 2, 3}
  PageSize = 1
  SecondLimit = 2
  MaxPagesPerZone = 2
  CfLag = 1
  MaxLookback = 3
  CfInterval = 1
  CfMaxBackoff = 2
  CfMaxTime = 4
  CfMaxEvents = 3
  CfMaxFaults = 1
  \* SdkClient
  SdkCallers = {"c"}
  SdkQueueSize = 2
  SdkReasons = {"unreachable"}
  DropEvery = 1
  SdkMaxItems = 3
  SdkMaxInits = 2
  SdkMaxTime = 2
INVARIANTS
  EventsAccounted
  IncidentsFollowMonitors
  NextIsEarliest
  StallIsSeen
  OneAlertPerEpisode
  OneDigestPerWeek
  WindowsSound
  EngineFollowsStore
  SilenceReportedOnce
  InTimeSamplesRolledUp
  StoredExactlyOnce
PROPERTIES AlertsSound
CHECK_DEADLOCK FALSE
