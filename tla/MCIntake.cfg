SPECIFICATION IntakeFairSpec
CONSTANTS
  \* WriteQueue
  MaxItems = 3
  MaxBatch = 2
  MaxRetries = 2
  Telemetry = {2}
  Events = {3}
  Faults = {"crash", "reserve", "ack", "requeue"}
  MaxFaults = 2
  MaxStops = 1
  \* IngestRequest
  IhRequests = {"a"}
  IhKinds = {"event", "alertmanager", "telemetry"}
  IhSpoolCap = 2
  IhMaxTries = 3
  IhMaxFaults = 3
  \* SpoolFile
  SfMaxRecords = 4
  SfMaxBatch = 2
  MaxTears = 2
  SfMaxCrashes = 1
  \* EventSampling
  SampleBase = 2
  SamplingLadderSteps = 2
  DefaultSampleAfter = 2
  GlobalSampleAfter = 2
  LimitsReaders = {"ingest", "list"}
  LimitsCacheTTL = 1
  EsMaxTime = 2
  EsMaxEvents = 6
  EsMaxChanges = 1
  EsMaxFaults = 1
  \* Facets
  FacetIssues = {1}
  FlatKeys = {"f1", "f2"}
  CuratedKeys = {"c1", "c2"}
  FacetValues = {"v", "w", "long"}
  LongValues = {"long"}
  MaxFacetKeysPerProject = 2
  MaxFacetValuesPerKey = 1
  FaMaxEvents = 2
  FaMaxFaults = 1
INVARIANTS
  QueueSafe
  AnswersKeepTheirPromise
  DamageBounded
  SamplingSound
PROPERTIES
  EveryItemSettled
  CuratedWithinCaps
CHECK_DEADLOCK FALSE
