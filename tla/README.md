# BugBarn in TLA+

BugBarn is a self-hosted error tracker: SDKs post events, logs and telemetry over
HTTP, the server stores them in SQLite, groups events into issues, alerts on them
and shows them to signed-in users. This directory holds TLA+ models of the parts
whose correctness depends on order, concurrency and failure, the TLC
configurations that check them, and the proofs that TLAPS checks.

`PROJECT.json` is the index: components, runs, mutants, the map from every
definition to the lines it models, hazards, findings and theorems.

## 1. The system

### Deployment and data flow

BugBarn runs as one process, or as a single *writer* with several read-only
*reader* replicas (CQRS). An event takes one of two ways to the database:

    single process:  HTTP handler -> spool (active.ndjson, segments, cursor.json)
                                   -> background worker -> persist -> SQLite
    CQRS:            reader handler -> reader spool (forward.ndjson)
                                   -> Redis list (or HTTP POST) -> writer
                                   -> queue consumer -> persist -> SQLite

Persisting resolves the project by slug (an unknown slug creates a *pending*
project, whose ingest is parked until somebody approves it), fingerprints the
event, upserts the issue (new, regressed, muted), samples it, adds its facets and
its release, and announces the outcome to alerts. Users act on issues; when the
database is too busy to answer in time the action goes to a durable mutation
queue that the worker drains. Users sign in through an identity provider, and
their sessions live in a table that the writer alone changes. Around this core
run services with clocks of their own: monitors, alerts, the digest, retention,
checkpoints, telemetry and detections, the Cloudflare poller.

### Inventory

| Component | State | Operations | Talks to | What is hard |
|---|---|---|---|---|
| Ingest spool (`internal/spool`) | active segment, rotated segments, `cursor.json`, dead-letter file | append, batch append, read from offset, write/commit position, rotate, remove segment | handlers append under a mutex, the worker reads without it | stops between two file operations; non-durable cursor; torn lines; the size limit |
| Spool worker (`cmd/bugbarn/worker*.go`) | position, retry counts | restore, tick, persist, fail, dead-letter, advance, finish a segment, rotate | spool, store, mutation queue | memory and disk disagreeing; retries; deleting only what is handled |
| Reader spool forwarder (`internal/api/spool_forwarder*.go`) | `forward.ndjson`, its cursor, a pending counter | append, drain pass, ack, rotate, shut down, restart | handlers, Redis, the writer's HTTP API | a pass that reads without the mutex; lost answers; a bounded shutdown |
| Write queue and consumer (`internal/queue`, `internal/ingestproc/consumer*.go`) | the queue list and one processing list in Redis; the entry in hand | publish, reserve, ack, recover, process, retry, requeue the tail | Redis, store, telemetry | lost replies, kills in the middle of an entry, shutdown in the middle of an item |
| Ingest endpoints (`internal/ingest`, `internal/api/forwarder.go`, `telemetry_ingest.go`) | the request under way | check the key, forward, read, spool, answer | SDKs, reader, writer | an answer is a promise: try again, give up, stored |
| Go SDK (`sdks/go`) | a bounded queue, check-ins in flight | capture, send, check in, flush, shut down, init | ingest endpoints | what Flush may call drained; captures racing a shutdown |
| Issue store and mutation queue (`internal/storage/issues*.go`, `internal/mutqueue`, `internal/api/issues.go`) | issue rows, `mutations.ndjson` and its processing file | upsert, resolve, reopen, mute, unmute, enqueue, claim, drain | worker, API, alert bus | an upsert committed and the rest failing; a mutation both committed and queued |
| Event sampling, facets, releases (`internal/storage`) | weights, a cached policy, facet rows, release rows, the set of releases seen | sample, set limits, project facets, ensure a release, edit, delete | persist, API | a policy cached over its invalidation; caps; a mark that outlives its row |
| Projects, approval, directory (`internal/storage/projects.go`, `held_events.go`, `internal/ingestproc`, `internal/service/projects`) | projects, aliases, groups, prefixes, parked records, cached usage | resolve, create, park, approve, replay, delete, rename, merge, alias | consumer, API | reads of a status that changes before they are used; deletion in batches; names that must keep reaching |
| Sessions (`internal/sessionstore`, `internal/api/session.go`, `oidc*.go`) | `web_sessions` rows; the provider's grant | sign in, check a request, refresh, grace, logout, back-channel logout, prune | provider, readers, writer | single-use refresh tokens; refreshes racing logouts; outages |
| API keys, set-up keys, key requests, key usage (`internal/auth`, `internal/storage/apikeys.go`, `key_requests.go`, `internal/keytouch`) | key rows, revocations, request rows, touches not yet sent | create, delete, revoke, look up, request, approve, claim, touch, flush, put back | API, readers, writer | a key must stay dead; one claim; touches during a flush that fails |
| Alerting (`internal/alert`) | rules, firings, new-issue windows, mail slots | evaluate, fire, admit, expire, send, record | issue events, mail, webhooks | check and fire in different goroutines; timers racing admits |
| Check-in monitors (`internal/monitorwatch`, `internal/cronexpr`) | monitor rows, incidents | check in, scan, mark missed, report, recover | store, issues | compare-and-set against a check-in; repeated reports; daylight saving |
| Ingest health and silence monitors, digest (`internal/ingesthealth`, `internal/silence`, `internal/digest`) | streaks, last alerts, last digest, all in memory | sample, confirm, alert, gather, send | spool status, mail | one alert per episode; restarts |
| Telemetry and detections (`internal/telemetry`, `telemetrydb`, `detect`, `service/detectionrules`) | sample tables, a roll-up cursor, rings of counts, rules, host liveness | ingest, detect, emit, roll up, expire, evict, change rules, heartbeat | consumer, API | late samples; reused buckets; rule sets handed over out of order |
| Cloudflare poller (`internal/cfpoller`) | a cursor with the keys seen in its second | poll, page, drain a second, store | GraphQL API | page ends inside a second |
| Retention and checkpoints (`internal/retention`, `internal/storage/checkpoint.go`) | windows, budgets, the WAL | sweep, prune, checkpoint, back off, force | store, readers | budgets and shutdown; readers that keep the WAL from shrinking |
| Issue listing, counts, event feeds, live logs (`internal/service/issues`, `internal/api/events.go`, `internal/logstream`) | cached counts, a stream cursor, subscriber channels | page, count, invalidate, stream, publish, subscribe, cancel | UI, CLI | offsets over a moving order; sends outside the lock |
| Parsing, fingerprints, normalisation, source maps | none | pure conversions | pipeline | string rewriting |
| Queries, REST wiring, CLI, web interface, tracing | none of their own | reads and routing | all | - |

## 2. Modules

Every module names its bounds as CONSTANTS, takes failures from a constant set or
a budget and has one action per statement, file operation, message or critical
section that another actor can observe. The variables of a module carry its
prefix, so that several can be extended together. Comments mark *mutants*:
deliberately wrong variants that stand before the definition they may replace and
that no specification uses. Variables described as *history* record what
happened, for the properties; where a guard reads one (a deleted key is never
created again, because keys are random) the definition says so by its name.

### The core

**AtLeastOnceQueue**: the promise of every ingest path: records are numbered as
written and completed in that order; completing one again is a stuttering step.

**WorkerSpool**: the writer's spool and its worker. A file is an interval of
record numbers, an offset counts records; torn bytes are SpoolFile's. `active`,
`segments`, `cursor` are the directory; `survivors` is the set of positions that a
power loss may leave in `cursor.json`: `WritePosition` adds to it,
`CommitPosition` (fsync) empties it to one. `pos`, `cur`, `upto`, `retryCounts`,
`spoolOpen` are the process. `pc` is where the worker stands inside a tick, so
that handlers append and the process stops between any two of its steps. Refines
AtLeastOnceQueue (`submitted <- written`, `done <- Handled`).

**SpoolFile**: the bytes of one segment: a record is two chunks and a newline, a
write can stop after any chunk, the scanner splits at newlines, counts one for
each and skips what does not decode.

**SpoolForwarder**: the reader's spool. `phase` is the life of the process
(serving, stopping, DrainOnce, exited or gave up), `pc` the drain goroutine, which
reads without the mutex, forwards one record at a time and acknowledges with the
cursor. Refines AtLeastOnceQueue while no rotation happens.

**WriteQueue**: the two Redis lists, oldest first, and the consumer: recover,
reserve (BLMOVE), the items of an entry with their retries, ack (LREM by payload),
the requeue of the tail at a shutdown, kill and restart. `ran` counts the times an
item was stored in full, `torn` the attempts at an event that failed after some of
its transactions may have been committed (`Tears`). Redis is external and durable;
there is one writer, as the deployment's Recreate strategy has it.

**IngestRequest**: one request from the client to the writer's spool, at a reader
or at the writer: key check and its failing look-up, forward with a failed dial or
a lost answer, body, an append that may fail after it has written all or part of the
records, and the answer with what it promises; the client tries again as the answers
allow. A telemetry batch is shown to the detections and then inserted; it is accepted
also when the insert fails or nothing in it can be read.

**SdkClient**: the Go SDK: captures into the bounded queue, the one sender,
check-ins in goroutines of their own, the throttled drop log of each transport, Flush,
Shutdown and a second Init, whose transport starts a log of its own.

**IssueTracker**: one issue's row, the worker's upsert and announcement, the
users' mutations with their deadline (`MutateDirect` in time, `MutateQueued` late
or committed *and* queued), and the mutation queue with its two files and the
handle that may point to the wrong one (`fd`).

**ProjectApproval**: projects, aliases and parked records in SQLite; the consumer
that resolves, parks or persists; two approvals, each the update, the second
lookup by slug, and the replay of parked rows; deletion in its steps, rename and
merge. Every SQL statement or transaction is one step.

**WebSessions**: one session signed in through the provider: its row, the
provider's grant with the current refresh token (external), requests at the writer
and at a reader, the refresh flight they share, logout, back-channel logout,
pruning, and a clock.

### Stored data and its readers

**EventSampling**: the ladder (`SampleRateFor`), the weights, and the project's
policy read through a cache by concurrent look-ups while it is changed; an event is
counted in one transaction and its row inserted in a later one, with a failed insert
or a restart between them (`CountEvent`, `PersistSampled`, `InsertEventFails`).
**Facets**: the two facet transactions of an event with their caps, in any order of
the map. **Releases**: `ensureRelease` in its steps for concurrent events, the
in-memory set of releases seen, posted releases, edits, deletions and the
new-issue window. **Retention**: the global sweep, the projects' windows, the
release pass, with batches, budgets, failures and restarts between them.
**Checkpoint**: the checkpoint loop with its retries and its backstop, against the
snapshots of readers (SQLite's locks are external). **IssueListing**: the filters
and orders of a page and `bb issues --all` while issues change. **IssueCounts**:
the counts cache under its mutex. **EventFeed**: the live stream's polls with its
cursor, and the pages of an issue's events. **LogStream**: the retried insert, the
trim, the pages, and the hub whose publishers walk a shared slice without the
lock. **ProjectDirectory**: slugs, aliases, groups, prefixes and display ids under
concurrent requests, and the cached usage.

### Services

**Monitors**: check-ins (two deadlines), the detector's scan, compare-and-set and
report, the reporter's recovery in its steps, deletes and restarts. **CronExpr**:
the fields of an expression, the day match, a zone with a shift, and the search
for the next run, on a scaled-down calendar, against a reference definition.
**Alerting**: rule evaluation, the cooldown, the new-issue window with its timer,
mail slots and deliveries in goroutines (a bag of jobs). **IngestHealth**: the
three signals beside the pipeline they watch. **Silence**: one alert per silent
episode. **WeeklyDigest**: the scheduler, the gathering under its budget, the
notifiers with their attempts, and what each failure costs the week. **DetectWindow**: the ring of buckets per group,
the bounded set of groups, the cooldown, the bounded channel and the emitter.
**DetectionRules**: stores and reloads of concurrent requests. **HostWatch**:
liveness of hosts, metric rules with a hold time, heartbeats, seeding, and the way of a
heartbeat's detection: dropped by a full queue, filed by the emitter, tried again, given up.
**TelemetryDB**: inserts, the roll-up with its cursor and grace, expiry, the size
cap with its eviction loop and blocked checkpoints. **CfPoller**: paging inside and
across seconds. **KeyTouch**: touches, flush and put-back. **KeyRequests**: a
request from creation to the single claim, with the client's retries.
**SetupKeys**: who a request is by its key, which routes its scope allows and which
project it acts on; deletion, revocation and the set-up page that restores rows.

### Compositions for model checking

`MCIntake`, `MCApprovals`, `MCServices` and `MCStore` put modules that share no variable into one
run: a variable says which component a behaviour is about and the others stay in
their initial states, so the state graph is the union of the components' graphs
and each property is checked on its own component. Their `.cfg` groups the
constants by module.

### Proofs

`WorkerSpoolProofs`, `SpoolForwarderProofs` and `WriteQueueProofs` extend the module they
are named after. The others have a section for each module they extend (section 5):
`IntakeProofs` IngestRequest, EventSampling, SdkClient, ProjectApproval and DetectWindow;
`IssueTrackerProofs` IssueTracker, Alerting, Facets, IssueListing and WeeklyDigest;
`ReadersProofs` WebSessions, EventFeed, LogStream and SpoolFile; `StoreProofs`
IssueCounts, Releases, SetupKeys, KeyTouch, KeyRequests, ProjectDirectory and Checkpoint;
`ServicesProofs` DetectionRules, HostWatch, Silence, TelemetryDB, CfPoller, IngestHealth,
Retention, Monitors and CronExpr. Every module of section 2 has a theorem.

## 3. Runs

| Run | Checks | Shows |
|---|---|---|
| `spool_live` | NothingLost, ImplementsQueue, SpoolKeepsMoving | with failing records, dead letters, failed commits and renames and a power loss no position that may survive hides an unhandled record; the spool is the ordered queue, handles everything, and a full spool accepts again |
| `spool_reread` | StoredOncePerLife | one process life stores no record twice, nor tries one again that it stored, also after an unreadable cursor, failed cursor writes and retried records |
| `spool_unreadable_cursor` | KeptUntilHandled (violated) | after a start with an unreadable cursor an undrained segment is deleted unread |
| `forward_drain` | ForwarderSafe, ImplementsFairQueue | below the rotation limit the forwarder is the ordered queue and sends everything; every repeated delivery has a cause |
| `forward_rotate` | LostOnlyInRotationWindow | with rotation, disk faults and stops between removing the file and clearing its cursor, only records appended while the rotation waits for the mutex, or lying behind the cursor of an earlier file, are deleted unsent |
| `forward_rotation_race` | NothingLost (violated) | a record answered 202 in that window is deleted with the file |
| `issues_safe` | IssuesSafe, EveryQueuedApplied | queued mutations survive and are applied in order; counts, regressions and announcements stay within what happened |
| `approvals` | ApprovalSafe, OneKeyAndItArrives, EndedKeysStayDead, UseReachesTheRow | nothing of a pending project is stored; a record is lost, left parked or stored twice only for a named cause; an approved key is handed out once, an ended key is refused, and the marks of a key's use reach its row |
| `sessions_safe` | SessionsSafe | a deleted session never comes back, tokens are replayed only after a failure, grace and central logout are bounded |
| `intake` | QueueSafe, EveryItemSettled, AnswersKeepTheirPromise, DamageBounded, SamplingSound, CuratedWithinCaps | an item stays in a Redis list until it is settled, and is stored again only for a counted cause; what is accepted is stored or shown to the detections, and a client's retries repeat it only for a named cause; a torn write costs one record; the summed weights stay close to the events but for the rows of attempts that failed between two transactions; the caps on curated facets hold |
| `services` | IncidentsFollowMonitors, NextIsEarliest, AlertsSound, StallIsSeen, OneAlertPerEpisode, OneDigestPerWeek, WindowsSound, EngineFollowsStore, SilenceReportedOnce, InTimeSamplesRolledUp, StoredExactlyOnce, EventsAccounted | one property per service around the core and for the client's transport: what it may say once, must say in time, and may not lose or repeat |
| `store` | SweepsSound, WalBounded, ReleasesFollowEvents, ListingCoversUntouched, CountsIncludeOwnChanges, FeedsShowEvents, LogsReachReaders, DirectorySound | stored data is pruned no further and no less than promised, and readers that page, poll or cache while it changes are told what the code promises them |

A property that is a conjunction names its parts (`IssuesSafe`, `ApprovalSafe`,
`SessionsSafe`, `QueueSafe`, `WindowsSound`, ...), each stated with its own comment. Each
property of a passing run has a mutant in `PROJECT.json`: a plausible bug in a
mapped definition with which TLC finds the property violated. Further mutants
stand beside their definitions and break other parts.

### Further questions

Some properties state in plain words what a comment or a document says; TLC
finds them violated, and the run above checks what holds instead. Others hold and
ask something else of a module than its run does. To repeat one, take the
configuration in the second column, set its property and make the changes.

| Property | From | Changes | Result |
|---|---|---|---|
| BackpressureLifts | `WorkerSpool_live` | MaxBatch=1, RotateThreshold=2, MaxCrashes=0, Faults={} | violated: a size limit at the rotation threshold (docs/deployment/performance.md:103) never lifts |
| NothingSkipped, HandledInOrder, BacklogCoversUnhandled | `WorkerSpool_live`, Spec | MaxCrashes=2, Faults=FaultKinds without "unreadable" | hold |
| AppendsKeepWorking | `WorkerSpool_live` | MaxBatch=1, MaxBytes=0, MaxCrashes=0, Faults={"reopen"} | violated: after one failed reopen every append fails until a restart |
| StoredOnce | SpoolFile, SfSpec | SfMaxRecords=2, SfMaxBatch=1, MaxTears=1, SfMaxCrashes=0 | violated: a line without its newline moves the cursor past the end and the file is stored again (docs/architecture/storage.md:370) |
| NoAcceptedRecordDropped | SpoolFile, SfSpec | SfMaxRecords=3, the others as above | violated: the record appended after a torn line is unreadable |
| StoredUnlessDamaged | SpoolFile, SfFairSpec | 4 records, batches of 2, 2 tears, 1 crash | holds |
| ExitDrained | `SpoolForwarder_drain`, Spec | Answers={"ok","error"}, Faults={"stop"}, MaxFaults=1 | holds for a process that started on an empty spool; with Faults={"crash","stop"} violated for one that inherited a backlog (cmd/bugbarn/reader.go:225) |
| TransientNotDropped | `SpoolForwarder_drain`, Spec | MaxRecords=2, Answers={"ok","full"}, no faults | violated: a 429 is treated as permanent (ingestresp.go:10) |
| RedeliveryBounded | `SpoolForwarder_drain`, Spec | RotateBytes=2, Answers={"ok"}, Faults={"crash"}, MaxFaults=1 | violated: a stop between removing the file and its cursor makes every pass send again |
| SettledInOrder, ImplementsQueue | WriteQueue | MaxItems=4, Telemetry={}, Events={}, Faults={"crash","reserve","ack"}, MaxFaults=3, MaxStops=0 | hold without shutdowns |
| TelemetryRunsOnce | WriteQueue | MaxItems=2, Telemetry={1,2}, Events={}, no faults | violated: an interrupted item runs its detections twice |
| CreationAnnounced | `IssueTracker_safe`, Spec | MaxEvents=1, MaxRequests=0, Faults={"busy"}, MaxFaults=1 | violated: a retry after a committed upsert sees an existing issue |
| ReopenClearsMute | `IssueTracker_safe`, Spec | MaxEvents=1, no faults | violated (docs/features/issues.md:225) |
| QueuedMutationKept | `IssueTracker_safe`, Spec | MaxEvents=1, MaxRequests=1, Faults={"reopen"}, MaxFaults=1 | violated after a failed reopen of the mutation file |
| MergeKeepsRecords | ProjectApproval, Spec | the constants of `MCApprovals` with MaxProjects=4, MaxRows=4, Faults={}, Ops={"merge"} | violated: parked ingest is not moved by a merge |
| ReplayNeverParks | ProjectApproval, Spec | as above, Ops={"delete"} | violated after a deletion between the update and the lookup |
| ApprovalDrains | ProjectApproval, Spec | as above, Ops={} | violated: a record parked after the drain stays parked in an active project |
| ApprovalEnds | ProjectApproval, Spec | as above, all four Ops | holds: an approval ends unless it drains another pending project |
| NeverReplayed | `WebSessions_safe` | none | violated: a lost answer makes the token be sent again (direct.go:29) |
| GraceFromFirstFailure | `WebSessions_safe` | none | violated: an unreachable writer is not recorded as a failure (session.go:72) |
| RequestsAnswered | `WebSessions_safe`, FairSpec | Lifetime=2, MaxTime=3 | holds |
| AllCurrentSubscribersServed | LogStream, LsSpec | the constants of `MCStore` | violated: a cancel shifts the slice a publisher walks (hub.go:50) |
| FacetKeysCapped | Facets, FaSpec | the constants of `MCIntake` | violated: the caps guard the curated keys only; the flattened keys of a payload are indexed without them (docs/features/issues.md:172) |
| NewIssueWindowsPartition, EventsLiveTheirWindow | `MCStore` | none | hold |
| MissedOnlyWhenSilent, PageHasACause | `MCServices` | none | hold |
| MergeMovesEverything | `MCStore` | none | violated: a project merged into itself is deleted (projects.go:423) |
| BoundKeyMakesNoProject | SetupKeys, SkSpec | the constants of `MCApprovals` | violated: a project deleted between the check of a bound key and the look-up is made again (specs/001-personal-error-tracker/spec.md:155) |

### Bounds

Three or four records, two segments, batches of two and one or two stops are
enough for a batch to straddle a rotation, a segment to be drained while the next
one grows, and a crash to hit the recovery from the first. Fault budgets of one to
three let a failure be followed by a failure of its handling. Two mutations of an
issue and two events reach every order of resolve, regress and queued mute. Two
approvals with one deletion, rename or merge reach every pair of overlapping
operations; `MaxProjects` is above what those can create, and two parked rows are one for
each record, or a row and its copy that a failed replay parks again (`ApprovalIsSafe`
covers every bound). For sessions the clock covers two refreshes and the absolute expiry, with a request on
each side of the writer.

In the services and the store the clocks run past the longest interplay of the
durations given: a window and its roll-over, a missed check-in with its repeated
report and recovery, an hour with its grace and the next roll-up, a retention
window and its override, a checkpoint's retries up to the backstop. Limits
(`MaxPending`, `MaxGroups`, `PageSize`, `SdkQueueSize`, `CountsMaxScopes`, ...) are one
or two so that they are reached, and caches have room for less than is asked. Two
actors (callers, readers, polls, publishers and subscribers, requests) are what a
race in this code takes; three are used where a request can overtake two others
(detection rules). Durations are scaled: only their order matters to the guards.
`CronExpr` scales the calendar to days of two hours and months of three days, with
a shift in the middle, and is checked for every expression and start in it.

### Fairness

Safety needs none. The worker, the drain goroutine, the queue consumer and the
monitor detector are loops in goroutines of their own: they are weakly fair, as is
the restart of a stopped process (the container is restarted). Strong fairness
stands for "a call that keeps being retried succeeds some time": persisting or
dead-lettering a record, committing a finished segment or a rotation, renaming,
forwarding one record, writing the forwarder's cursor, finishing a tick of the
issue worker. Handlers and users are never fair: nobody has to send a request. The
refresh flight and the handlers waiting for it are weakly fair because the provider
client has a timeout. In `intake` the queue alone is fair; the other components of
the compositions are checked for safety.

## 4. Findings

`spool_unreadable_cursor`: `restorePosition` keeps every segment when the cursor
cannot be read, but leaves the worker on the active segment; the next
`finishSegment`, or the next start, deletes the rotated segment that nobody read.

`forward_rotation_race`: `Drain` decides from a read without the mutex that the
spool is drained; what a handler appends and answers with 202 before
`maybeRotateLocked` holds the mutex is removed with the file.

### Observations

What the models had to allow because the code does it. The properties name these
causes; everything outside them is excluded by the runs.

- Forwarder: a stop between removing the file and clearing its cursor leaves a cursor
  that points into the next file; what is written before it is never sent and goes with
  the next rotation (`spool_forwarder.go`). The pending count a shutdown relies on starts at zero after a restart
  (`spool_forwarder.go:271`), and a 429 drops the record (`:406`).
- Write queue: an event is persisted in several transactions, so an attempt that fails
  between them, or is cut short by a shutdown, is counted or stored once more by the
  next one (`storage.go:311`, `:358`, `:367`); the comment at `consumer.go:282` speaks of
  the items before it in the batch, which are not repeated.
- Ingest endpoints: a failed key look-up answers telemetry with a permanent 401; a 503
  for an append whose sync failed disowns records that are in the file and will be
  processed (`spool.go:128`), and a batch of telemetry is accepted when its insert failed
  (`telemetry_ingest.go:122`).
- SDK: the drops that wait in the log of a transport which Init replaced are printed only
  if that transport drops again (`transport.go:33`, `drops.go:83`). Flush reports drained while the sender holds one event; a capture that races
  Shutdown can write to a closed channel.
- Issues: reopening keeps the mute mode (`issues_upsert.go:217`); a mutation applied
  from the queue (`worker.go:479`) leaves the service's counts cached, although
  counts.go:16 promises that a status change drops them.
- Sessions: an unreachable writer does not start the grace (`session.go:78`).
- Telemetry: an ingest requeued by a shutdown repeats its detections
  (`consumer_telemetry.go:33`).
- Facets: the documented cap on keys holds for curated keys only.
- Sampling: the count is committed before the row is inserted, so an attempt that fails
  in between leaves its weight out of the sum and is counted again (`storage.go:311`,
  `:358`). With a threshold that is no multiple of ten the first row of a rung
  stands for events already stored one by one; a look-up that overlaps a change may
  cache the old policy until its TTL ends (`project_limits.go:28`).
- Projects: a merge into itself deletes the project, a merge can make display ids
  collide or fail on a fingerprint both have, or on API keys of the source, which it does
  not move; a key made while its project is deleted keeps the emptied row; two creations can take one prefix, and
  aliases go with a deleted project.
- Event feed: an event stored behind the stream's cursor is never shown.
- Live logs: the trim keeps one entry fewer than its cap (logs.go:25).
- Checkpoints: a restart resets the count of failed truncations, so the backstop
  waits anew.
- Monitors: a report overtaken by a recovery leaves the incident open; a stale
  recovery may close a newer incident of a scheduled monitor.
- Detection rules: two reloads can hand over the older set last; it stays until the
  next change.
- Hosts: a silence is marked before its detection is queued (`engine.go:346`), so one that
  a full queue drops or the emitter gives up is not raised again before the host reports
  or the process restarts; a heartbeat window longer than `seedAlreadySilent` is not
  reported after a restart; a late sample moves the start of a held condition back.
- Telemetry files: a blocked checkpoint hides what eviction freed, so it evicts more.
- Key requests: count and insert are separate statements; a lost answer to the claim
  strands the key.
- Keys: when finding the named project fails, a request acts on the default project
  (`pipeline.go`, resolveProjectID).
- Digest: a restart inside the hour sends it twice (docs/overview.md:30); a failed QUIT
  retries a mail the server has accepted; the week is marked before Send runs
  (`scheduler.go:69`), so one that fails is not tried again, and the success
  docs/features/digest.md:43 speaks of is not waited for.

## 5. Proofs

Each theorem holds for every value of the constants that its module's assumptions
allow; the bounds the runs need (`MaxEvents`, `MaxFaults`, clocks, ...) are arbitrary
numbers in the proofs. The assumptions say what the code fixes: a batch, a retry budget,
a page or a cache has at least one place, limits are ordered as their defaults are, a
slug is no reserved word. What goes beyond that is named with its theorem below. A
proof module states its inductive invariant in named parts, proves that the initial
states have it and that every action keeps each part (one step or lemma per action), and derives the
property. Each strengthened invariant was checked by TLC on the run's instance before.

**WorkerSpoolProofs**

- `TypeCorrect`: `Spec => []TypeOK`, with every fault allowed;
- `SpoolSafe`: `Spec => [](NothingLost /\ NothingSkipped /\ HandledInOrder)`, and
  `SpoolImplementsQueue`: `Spec => Queue!QSpec`, assuming only that no start finds the
  cursor unreadable. The assumption is necessary: with an unreadable cursor the run
  `spool_unreadable_cursor` shows a record lost;
- `StoredOnce`: `Spec => []StoredOncePerLife`, with every fault allowed.

`NothingLost` says where unhandled records are, not why a delete or a rotation
leaves them there. `IInv` adds: the active file ends at the newest record
(`FilesInv`); every position a power loss may leave on disk is `Safe`, that is, all
before it is handled and a segment it names ends where the active file starts
(`DiskInv`); so is the worker's position while it runs (`LiveInv`), except that after a
failed reopen there may be nothing to read (`ClosedInv`); what the worker knows inside
a batch (`BatchInv`) and between the file operations of a finish, a sweep and a
rotation (`PcInv`). The refinement uses `HandledInOrder`: the record that Persist or
DeadLetter completes is the oldest outstanding one. `StoredOnce` needs no `Safe`
position, only that the worker's own one does not move back: no record beyond it has been
stored in this life (`LifeInv`; `inLife` is the history of the stores of one life, and
starts over with the process), and a rotation or a sweep finds the worker in the active
file (`PlaceInv`).

**SpoolForwarderProofs**

- `ForwarderTypes`, and `RotationLossBounded`: `Spec => LostOnlyInRotationWindow`, with
  rotation and every fault;
- `ForwarderKeepsItsPromise`: `Spec => []ForwarderSafe` and `ForwarderImplementsQueue`:
  `Spec => ImplementsQueue`, assuming `BelowLimit`: rotation is off or its limit is not
  reached. The assumption is necessary: the run `forward_rotation_race` loses a record
  otherwise.

A position is `Sent` when every record up to it was sent or refused; the cursor, the end
of a pass and the end a rotation has read are `Sent` unless the cursor was left behind
by an earlier file (`CursorInv`, `PassInv`, `RotationInv`). `RedeliveryInv` counts: a
record has been delivered at most once per fault, and once more if the cursor has passed
it or the pass that did has not been interrupted.

**WriteQueueProofs**

- `WriteQueueSafe`: `Spec => []QueueSafe`;
- `WriteQueueImplementsQueue`: `Spec => ImplementsQueue`, assuming `MaxStops = 0`: an
  orderly shutdown hands the tail of an entry back behind younger entries, so that with
  one the queue is not ordered.

The argument counts (`CountInv`): `Live(x)` is the number of list entries from which item
x can still be processed. Only settling x lets it fall to zero, and only a fault lets
`ran[x] + Live(x)` rise. Attempts that failed part-way are counted against the times an
item was taken (`TornInv`): `Credit(x)` is what made it alive and is used up (its
publication, a fault, or a shutdown that has handed its tail back, less `Live(x)`), each
pays for `MaxRetries` attempts, and while the writer is at the item `Used` are those the
taking under way has had. The lemmas say what one entry added at either end of a list
does to the copies of an item and to the order (`CopiesAtEnd`, `OrderAtFront`, ...).

**IssueTrackerProofs**

- `IssuesKept`: `Spec => []IssuesSafe`. `QueueInv` says where an acknowledged mutation is:
  applied, in the drain's list, in one of the two files, or lost to a failed reopen; ids
  grow from the file being drained to the active one (`OrderInv`), and a claim finds no
  processing file left over (`DrainInv`). `IssueInv` is about the event in hand: an upsert
  that was committed and not finished counts once more, and each regression uses up one
  closing;
- `AlertsAreSound`: `AlertSpec => AlertsSound`. `AlertInv` adds to the count of new
  issues (mailed, summarised or still in the window) that every firing on record is of the
  past, so that a cooldown begun by one cannot end early;
- `FacetsWithinCaps`: `FaSpec => CuratedWithinCaps`. `FacetTxInv` says that what the
  transaction will commit has grown no further than the caps, and of each pair it has
  passed that its row is there or which cap was full;
- `PagesCoverUntouched`: `LiSpec => []ListingCoversUntouched`, for every finite set of issues
  (IssueListingAssumption). The position of an issue is the number of those before it, a
  cardinality: `OffsetInv` says that an untouched issue is still ahead of the offset or listed and
  behind it, and a touched row moves another issue's position by at most one, in a
  direction the walk notes;
- `WeeksHaveOneDigest`: `DgSpec => []OneDigestPerWeek`. `TickInv`, `LastInv` and `FiredInv`
  place the ticks and what the scheduler remembers in the hour of a week that fired, and
  a channel that the run under way still has to serve has had nothing this week
  (`SentInv`). For a week without a digest: of the active projects it has asked for, a
  run has the numbers or has lost them (`GatheredInv`), a channel of a week that fired is
  served, has a cause, or is still to be served by the run under way (`ServedInv`), and
  each cause has cost a fault (`FaultInv`). The guard must end before the next week's
  hour (WeeklyDigestAssumption).

**ReadersProofs**

- `SessionsKeepTheirWord`: `Spec => []SessionsSafe`, for every set of
  requests and readers and all lifetimes. The promises depend on what a request or the
  flight has read and still holds. Unless an exchange was stranded the newest token is in
  the row or with the flight that is about to store it (`TokenInv`), the row under a flight
  is the one it read or is gone (`FlightInv`), and what a request read is not newer than
  what the flight read (`ReqInv`). `MarkInv` ties the row's mark to the first failure on
  record, `EndInv` every access token to the provider's end. In the proof, `Skew` may
  equal `TTL`; then a request in the very instant of the provider's end may still be
  served, so `CentralEndBites` speaks of requests that come in later;
- `FeedsStayTrue`: `EfSpec => []FeedsShowEvents`. `SkipInv` gives each event behind the
  stream's cursor that was not written its cause, `PageInv` says that the pages have shown
  every kept event above their cursor once;
- `LogsAreServed`: `LsSpec => []LogsReachReaders`. `HubInv` follows each publisher's walk
  through the array its copy shares with the hub: the slots ahead keep their channels
  unless a cancel shifted them, and then the walk is marked. `NewestKept` bounds the trim;
- `TearsPayForDamage`: `SfSpec => []DamageBounded`. A line of its own is read by every
  scan that starts before it (`FullLinesRead`), and a cursor is only ever where a line ends
  or one past a torn end (`LineEnd`), so it cannot point into such a line, and those behind
  it are stored (`HandledInv`). An accepted record was written whole (`WrittenInv`); if it
  is not read it begins right behind a torn write, and a torn write has one
  record behind it (`Hits`, `WriteCostsATear`).

**IntakeProofs**

- `AnswersKept`: `IhSpec => []AnswersKeepTheirPromise`; `IhInv` ties each answer on its way
  to what the try has stored, request by request: as long as no answer was lost and no
  append left what it disowned, the records are stored at most once (`StoredOnce`);
- `SampleIsTrustworthy`: `EsSpec => []SamplingSound`. For the policy, `ReadsInv` follows a
  look-up under way: what it read is as new as what was acknowledged before the read. For
  the weights, `Drift` is what count and weights differ by beside the remainder of the
  count by the rate; the weight of a row that a failed attempt left out is counted with the
  others (`Weights`), at most one top rate for each failure (`LostWeightInv`). A rate that stays or grows to a multiple moves it by no more
  than the rate grew (`GrowingRate`), any other by less than a top rate (`AnyRates`);
  one event moves the rung by at most one, and only from the last event of a rung
  (`RungGrows`), where a threshold that the factor divides leaves no drift (`DriftInv`);
- `NothingDropsSilently`: `SdkSpec => []EventsAccounted`. `RunInv` says that
  a sender that has returned left nothing, `WaitInv` that what a Flush or Shutdown waits for
  is still with the transport until it is settled. An item is in one place of one
  transport (`ItemInv`), so it is dropped once, and each drop adds one to the count
  of its reason (`DropInv`), which the next line of that reason prints and resets;
- `ApprovalIsSafe`: `Spec => []ApprovalSafe`. `ApInv` holds for every consumer and approval
  at once: what may put data into a project found it active (`HeldBack`), a record that was
  acted on is stored, parked or gone with its project (`KeptRecords`), a row parked in time
  for an active project has an approval that drains it or gave up (`DrainedOk`), a
  project has one drain unless approvals overlapped (`OneDrain`), and replays follow the ids
  of the rows (`InOrder`);
- `WindowsCountRight`: `DetSpec => []WindowsSound`. `DetInv` says which records the ring's
  buckets hold: a bucket with the id of a window's slot counts the records of that slot.
  The count of the window is then the cardinality of its records, by the bijection that
  sends a record to its bucket and its rank in it.

**StoreProofs**

- `CountsCoherent`: `IcSpec => []CountsIncludeOwnChanges`. What was served is history;
  `IcInv` adds that every entry, and the snapshot of the refresh that holds the mutex, is
  as new as the newest acknowledged change, since an acknowledgement follows an
  invalidation that waited for the mutex;
- `EnsuredReleasesStay`: `ReSpec => []ReleasesFollowEvents`. Every release in the
  set of those seen has a row unless somebody removed or changed it (`EnsuredInv`); where a
  call about to insert would add a second row, it overlapped another or the first row had
  been changed (`InsertInv`, `SingleInv`);
- `KeysStayDead`: `SkSpec => []EndedKeysStayDead`. `SkInv` follows a check back to where it
  found its key: an ended key has no row (`RowsInv`), the slug of an ended set-up key is
  revoked (`RevokedInv`), and a check that has found an ended key was under way when it
  ended (`FoundInv`);
- `UsesReachTheRow`: `KtSpec => []UseReachesTheRow`. The one post a reader waits for carries
  its batch (`PostInv`), so that after the answer the rows are as new as the batch
  (`AnsweredInv`), and what is put back keeps the newer time (`PutBackKeeps`);
- `OneKeyPerRequest` (`KeyInv`, `Awaited`: what a row's status says about its key and about
  the poll that claimed it);
- `DirectoryStaysSound`: `PdSpec => []DirectorySound`. `NamesFound` and `SlugsUnique` say
  where a name leads, `PrefixInv` that a free prefix is found because there are fewer
  projects than suffixes, `NumberInv` that no number is above its project's counter, `UsageInv`
  that the usage on show is as new as what was answered. ProjectDirectoryAssumption: the
  projects the run starts with have different slugs, no more of them than the bound;
- `WalStaysBounded`: `CkSpec => []WalBounded`. `SnapInv` limits how long one snapshot holds
  frames back, `FramesInv` counts, wherever the loop stands, what may still be written until
  the backstop is due, and `BackstopInv` says what its wait finds: the readers from before it
  are gone after `SnapshotMax`, those that came before the last frame was copied after as
  long again. `WalBounded` itself asks for
  `2 * SnapshotMax < BackstopWait` and `TickBudget <= CkInterval`, as the defaults of
  checkpoint.go:19-30 have it: readers that leave in time.

**ServicesProofs**

- `EngineRunsStoredRules` (`EngineInv`: the engine runs what is stored, or a request that
  has yet to hand over the newest set is under way);
- `SilencesReportedOnce` (`Flagged`: a detection and the host's flag go together; `Settled`:
  after a check every overdue rule is flagged; `Fated`: a detection that was raised waits, is
  filed or is lost, and what is lost or filed again had a failure);
- `OneAlertPerSilence` (`AllMailed`, `MailedInv`, `ForgottenSoon`). Its assumption
  `SilenceMaxFaults < SilentFor` bounds failed checks in a row: a project whose last
  events were forgotten before a check went through is not known to be silent;
- `NoSampleMissesItsHour` (the cursor is an hour's start, and no hour lies behind it before
  its grace has passed);
- `EventsStoredExactlyOnce` (`CursorInv` for the stored cursor and the one a pass carries:
  all before it, and the ids seen in its second, are stored or in hand);
- `StallsAreSeen` and `PagesHaveACause`: `HealthSpec => PageHasACause` (`StreakInv`,
  `StallClockInv`);
- `SweepsKeepTheirWord` and `EventsLive`: `RtSpec => EventsLiveTheirWindow`
  (`SweepCutoffInv`, `PruneCutoffInv`: a cutoff stays right when events and releases are
  stored between the statement that computes it and the one that deletes);
- `IncidentsStayTrue`: `MonSpec => []IncidentsFollowMonitors` and `MissesAreSilent`:
  `MonSpec => MissedOnlyWhenSilent`. `ScanSound` says that the row a scan read is the row,
  or the compare-and-set fails; `OpenHasCause` gives each open incident its monitor or
  its cause. MonAssumption: the deadlines of a store call and a report together are shorter
  than any monitor's interval, so that a recovery still being recorded cannot
  meet the next incident;
- `NextRunIsEarliest`: `CronSpec => []NextIsEarliest`. A wall-clock time is a day, an hour
  and a minute, and `RunsOnDay` says that a day's candidates are those the schedule names.
  Instants are in the order of the wall clock except within an hour that is skipped, where
  the minutes decide (`FirstOnItsDay`), so the first candidate of the first matching
  day is the earliest. CronAssumption: what is skipped or repeated is a whole hour of
  more than one minute.

### Model-checked only

Every safety property of a passing run has its theorem above; these are left to TLC:

- Liveness (`SpoolKeepsMoving`, `ImplementsFairQueue`, `EveryQueuedApplied`,
  `EveryItemSettled`, `RequestsAnswered`): fairness and ENABLED are outside the prover's
  reach. The safety part of `ImplementsFairQueue` below the rotation limit is
  `ForwarderImplementsQueue`.
- The parts of properties that no run lists (`BacklogCoversUnhandled`,
  `NewIssueWindowsPartition`, ...).

## 6. What is left

Compositions: WriteQueue with IssueTracker (a replayed entry and the event count),
SpoolForwarder with WriteQueue (end-to-end at-least-once through both queues, as a chain
of two AtLeastOnceQueue refinements).

## 7. Not modelled

String rewriting (fingerprints, scrubbing, log parsing, source maps, foreign log
formats) would be transliterated. Analytics, timelines and other SQL aggregates and
the migrations are the query language's behaviour; VACUUM and the WAL's file format
are SQLite's (Checkpoint models how the code uses the WAL). Routing, decoding, the
CLI's output, the terminal UI, the other SDKs and the web interface keep no state
that the models depend on. Inside the modelled components: `runWorkerOnce` (the loop
without the loop), the legacy worker's project resolution (it never parks), records
longer than the scanner's buffer (the body limit keeps them below it), mutations of
issues that were deleted (a drain that stops at one waits for ever), password login,
and the attempt limiter, whose counter is raised without synchronisation.

File-system assumptions: directory operations become durable in the order they
are issued, a `cursor.json` replaced without fsync may come back as any version
since the last commit, a failed `ListSegments` has the effect of failed deletes.
