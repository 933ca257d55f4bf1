------------------------------ MODULE Monitors ------------------------------
(***************************************************************************)
(* Check-in monitors.  Jobs report in (internal/api/monitors.go,           *)
(* internal/service/monitors), the store keeps the latest signal of each   *)
(* monitor (internal/storage/monitors.go, monitors_detect.go), and the     *)
(* miss detector (internal/monitorwatch) scans them and turns a silent one *)
(* into an incident: an event in the monitor's own project, so an issue.   *)
(* Check-ins and the scan run concurrently and each of them is several     *)
(* database transactions; the row is only guarded by the compare-and-set   *)
(* of MarkMonitorMissed.                                                   *)
(*                                                                         *)
(* Time is counted in ticks from 1; 0 is Go's zero time.  A check-in takes *)
(* its timestamp with a tick of its own: the code's have nanoseconds.      *)
(***************************************************************************)
EXTENDS Integers, FiniteSets, FiniteSetsExt

CONSTANTS
  MonSlugs,         \* monitor slugs of one active project
  MonClients,       \* check-ins in progress at the same time
  MonIntervals,     \* intervals and graces a check-in may send
  MonGraces,
  MonSchedules,     \* cron schedules, each as the set of ticks it runs at
  MonZones,         \* time zones, as the offset they shift a schedule by
  MaxMonitorsPerProject,
  StartupGrace, ReportRepeat, StoreTimeout, ReportTimeout,
  MonMaxTime,       \* bound: ticks
  MonMaxCheckIns,   \* bound: check-ins
  MonMaxFaults      \* bound: failed reports, crashes, deletions and resolutions

ASSUME MonAssumption ==
  /\ MonMaxTime \in Nat /\ MonMaxCheckIns \in Nat /\ MonMaxFaults \in Nat
  /\ MonIntervals \subseteq Nat \ {0} /\ MonGraces \subseteq Nat
  /\ MonSchedules \subseteq SUBSET Nat /\ MonZones \subseteq Int
  /\ {StartupGrace, ReportRepeat, StoreTimeout, ReportTimeout} \subseteq Nat
  /\ \A i \in MonIntervals : StoreTimeout + ReportTimeout < i

VARIABLES
  monNow,      \* the clock
  monRows,     \* the monitors table: a row for each slug, or NoRow
  monIssues,   \* status of the incident issue of each slug and kind
  monDetector, \* the scan: where it is, its time, rows still to visit, the current one
  monClient,   \* the check-ins in progress
  monStarted,  \* when the detector was built
  monIds,      \* AUTOINCREMENT of the table
  monCount, monFaults,
  monStray,    \* incidents left open by a failure, a deletion or a late report
  monHuman     \* incidents a user resolved or muted since they were last reported

monVars == <<monNow, monRows, monIssues, monDetector, monClient, monStarted,
             monIds, monCount, monFaults, monStray, monHuman>>

NoRow == [id |-> 0]
Unset == -1
Kinds == {"missed", "error"}
Incidents == MonSlugs \X Kinds

Monitor == [id : Nat \ {0}, interval : Nat, grace : Nat,
            schedule : MonSchedules \cup {{}}, zone : MonZones \cup {0}, created : Nat,
            last : Nat, state : {"ok", "missed", "error"}, since : Nat, emitted : Nat]

\* What a check-in may carry; Unset stands for a field left out.
CheckInBody == [status : {"ok", "error"}, interval : MonIntervals \cup {Unset},
                grace : MonGraces \cup {Unset}, schedule : MonSchedules \cup {{}},
                zone : MonZones \cup {Unset}]

\* validateTimings: an interval excludes a schedule and a time zone, and the
\* grace does not exceed it.
ValidTimings(b) ==
  /\ b.interval # Unset => b.schedule = {} /\ b.zone = Unset
  /\ b.interval # Unset /\ b.grace # Unset => b.grace <= b.interval

IdleDetector == [pc |-> "idle", at |-> 0, todo |-> {}, cur |-> NoRow]
IdleClient == [pc |-> "idle"]

----------------------------------------------------------------------------
\* domain.Monitor

\* cronexpr.Schedule.Next in the monitor's zone; 0 when no run is left.
NextRun(m, after) ==
  LET runs == {t \in {r - m.zone : r \in m.schedule} : t > after}
  IN IF runs = {} THEN 0 ELSE Min(runs)

NextDue(m) ==
  LET base == IF m.last = 0 THEN m.created ELSE m.last
      run == NextRun(m, base)
  IN IF m.schedule = {} \/ run = 0 THEN base + m.interval + m.grace
     ELSE run + m.grace

NeedsReport(m, now) ==
  /\ m.state # "ok"
  /\ m.emitted < m.since \/ now - m.emitted >= ReportRepeat

\* An event of an incident reaches its issue: it opens it, counts on an open or
\* a muted one and regresses a resolved one.
Reported(i) == [monIssues EXCEPT ![i] = IF @ = "muted" THEN @ ELSE "open"]

\* The incidents a user closed, once this one is reported.
HumanAfter(i) == IF monIssues[i] = "muted" THEN monHuman ELSE monHuman \ {i}

----------------------------------------------------------------------------
\* A check-in: the request, its transaction, the report that follows it

\* Time does not pass a deadline: the transaction of a check-in is cut off
\* after checkInStoreTimeout, the report that follows it after reportTimeout.
MayTick ==
  /\ monNow < MonMaxTime
  /\ \A c \in MonClients : monClient[c].pc # "idle" =>
       monNow - monClient[c].at < IF monClient[c].pc = "store" THEN StoreTimeout ELSE ReportTimeout

\* serveMonitorCheckInEndpoint and CheckIn up to the transaction: an
\* authenticated POST with a valid body takes its timestamp.
CheckIn(c, s, b) ==
  /\ monClient[c].pc = "idle" /\ monCount < MonMaxCheckIns /\ MayTick
  /\ ValidTimings(b)
  /\ monNow' = monNow + 1
  /\ monCount' = monCount + 1
  /\ monClient' = [monClient EXCEPT ![c] =
       [pc |-> "store", slug |-> s, body |-> b, at |-> monNow + 1]]
  /\ UNCHANGED <<monRows, monIssues, monDetector, monStarted, monIds, monFaults,
                 monStray, monHuman>>

\* applyTimings on a row; a time zone alone needs a schedule.
TimingsApply(m, b) == b.interval # Unset \/ b.schedule # {} \/ b.zone = Unset \/ m.schedule # {}

ApplyTimings(m, b) ==
  LET grace == IF b.grace = Unset THEN m.grace ELSE b.grace
      zone == IF b.zone = Unset THEN m.zone ELSE b.zone
  IN CASE b.interval # Unset ->
            [m EXCEPT !.interval = b.interval, !.schedule = {}, !.zone = 0, !.grace = grace]
       [] b.interval = Unset /\ b.schedule # {} ->
            [m EXCEPT !.interval = 0, !.schedule = b.schedule, !.zone = zone, !.grace = grace]
       [] OTHER -> [m EXCEPT !.zone = zone, !.grace = grace]

StateOf(status) == IF status = "error" THEN "error" ELSE "ok"

\* createMonitorFromCheckIn's row.
NewMonitor(b, at) ==
  [ApplyTimings([id |-> monIds + 1, interval |-> 0, grace |-> 0, schedule |-> {},
                 zone |-> 0, created |-> at, last |-> at, state |-> "ok",
                 since |-> 0, emitted |-> 0], b)
   EXCEPT !.state = StateOf(b.status), !.since = IF b.status = "error" THEN at ELSE 0]

\* What report does once the check-in is stored: an error is reported when it
\* needs one, the beat that returns the monitor to ok resolves what is open.
AfterStore(r, m, previous) ==
  IF NeedsReport(m, r.at)
  THEN [pc |-> "errored", slug |-> r.slug, id |-> m.id, at |-> monNow, kinds |-> {}]
  ELSE IF m.state = "ok" /\ previous # "ok"
       THEN [pc |-> "lookup", slug |-> r.slug, id |-> m.id, at |-> monNow, kinds |-> Kinds]
       ELSE IdleClient

\* The kind Recovered is at: missed first, then error.
Kind(r) == IF "missed" \in r.kinds THEN "missed" ELSE "error"

\* Mutant: the recovery ends after the first kind.
OnlyFirstKind(r) == IdleClient

\* It goes to the next kind, or the check-in is done.
NextKind(r) ==
  IF Cardinality(r.kinds) <= 1 THEN IdleClient
  ELSE [r EXCEPT !.pc = "lookup", !.kinds = {"error"}]

\* RecordMonitorCheckIn: one transaction.  Refused: an unknown monitor without
\* timings, one too many, a zone without a schedule.
RecordCheckIn(c) ==
  LET r == monClient[c]
      old == monRows[r.slug]
      new == IF old = NoRow THEN NewMonitor(r.body, r.at)
             ELSE LET m == ApplyTimings(old, r.body)
                      st == StateOf(r.body.status)
                  IN [m EXCEPT !.last = r.at, !.state = st,
                               !.since = IF st # old.state THEN r.at ELSE @]
      refused == \/ old = NoRow /\ \/ r.body.interval = Unset /\ r.body.schedule = {}
                                   \/ Cardinality({s \in MonSlugs : monRows[s] # NoRow})
                                        >= MaxMonitorsPerProject
                 \/ old # NoRow /\ ~TimingsApply(old, r.body)
  IN /\ r.pc = "store"
     /\ \/ /\ ~refused
           /\ monRows' = [monRows EXCEPT ![r.slug] = new]
           /\ monIds' = IF old = NoRow THEN monIds + 1 ELSE monIds
           /\ monClient' = [monClient EXCEPT ![c] =
                AfterStore(r, new, IF old = NoRow THEN "ok" ELSE old.state)]
        \/ /\ refused
           /\ monClient' = [monClient EXCEPT ![c] = IdleClient]
           /\ UNCHANGED <<monRows, monIds>>
     /\ UNCHANGED <<monNow, monIssues, monDetector, monStarted, monCount, monFaults,
                    monStray, monHuman>>

\* The transaction fails or runs out of checkInStoreTimeout: the beat is lost.
CheckInLost(c) ==
  /\ monClient[c].pc = "store" /\ monFaults < MonMaxFaults
  /\ monFaults' = monFaults + 1
  /\ monClient' = [monClient EXCEPT ![c] = IdleClient]
  /\ UNCHANGED <<monNow, monRows, monIssues, monDetector, monStarted, monIds, monCount,
                 monStray, monHuman>>

\* A report of an incident the monitor is no longer in leaves it open.
Late(s, kind) == monRows[s] = NoRow \/ monRows[s].state # kind

\* Errored, then MarkMonitorEmitted; a failure of the first skips the second.
ReportErrored(c) ==
  LET r == monClient[c]
  IN /\ r.pc = "errored"
     /\ monIssues' = Reported(<<r.slug, "error">>)
     /\ monStray' = IF Late(r.slug, "error") THEN monStray \cup {<<r.slug, "error">>} ELSE monStray
     /\ monHuman' = HumanAfter(<<r.slug, "error">>)
     /\ monClient' = [monClient EXCEPT ![c].pc = "emitted"]
     /\ UNCHANGED <<monNow, monRows, monDetector, monStarted, monIds, monCount, monFaults>>

\* MarkMonitorEmitted finds the row by its id.
Emitted(slug, id, at) ==
  IF monRows[slug].id = id THEN [monRows EXCEPT ![slug].emitted = at] ELSE monRows

MarkEmitted(c) ==
  LET r == monClient[c]
  IN /\ r.pc = "emitted"
     /\ monRows' = Emitted(r.slug, r.id, r.at)
     /\ monClient' = [monClient EXCEPT ![c] = IdleClient]
     /\ UNCHANGED <<monNow, monIssues, monDetector, monStarted, monIds, monCount,
                    monFaults, monStray, monHuman>>

\* Recovered reads the issue of one kind; only an open one goes on.
RecoveredLookup(c) ==
  LET r == monClient[c]
  IN /\ r.pc = "lookup"
     /\ monClient' = [monClient EXCEPT ![c] =
          IF monIssues[<<r.slug, Kind(r)>>] = "open" THEN [r EXCEPT !.pc = "recover"]
          ELSE NextKind(r)]
     /\ UNCHANGED <<monNow, monRows, monIssues, monDetector, monStarted, monIds, monCount,
                    monFaults, monStray, monHuman>>

\* The recovery event goes in first; it regresses an issue resolved meanwhile.
RecoveredEvent(c) ==
  LET r == monClient[c]
  IN /\ r.pc = "recover"
     /\ monIssues' = Reported(<<r.slug, Kind(r)>>)
     /\ monClient' = [monClient EXCEPT ![c].pc = "resolve"]
     /\ UNCHANGED <<monNow, monRows, monDetector, monStarted, monIds, monCount, monFaults,
                    monStray, monHuman>>

RecoveredResolve(c) ==
  LET r == monClient[c]
      i == <<r.slug, Kind(r)>>
  IN /\ r.pc = "resolve"
     /\ monIssues' = [monIssues EXCEPT ![i] = "resolved"]
     /\ monStray' = monStray \ {i}
     /\ monClient' = [monClient EXCEPT ![c] = NextKind(r)]
     /\ UNCHANGED <<monNow, monRows, monDetector, monStarted, monIds, monCount, monFaults,
                    monHuman>>

\* A step of the report fails or runs out of reportTimeout: it is logged, an
\* error stays unmarked, the recovery of this kind is given up.
ReportFails(c) ==
  LET r == monClient[c]
  IN /\ r.pc \notin {"idle", "store"} /\ monFaults < MonMaxFaults
     /\ monFaults' = monFaults + 1
     /\ monClient' = [monClient EXCEPT ![c] = NextKind(r)]
     /\ monStray' = IF r.kinds = {} THEN monStray ELSE monStray \cup {<<r.slug, Kind(r)>>}
     /\ UNCHANGED <<monNow, monRows, monIssues, monDetector, monStarted, monIds, monCount,
                    monHuman>>

----------------------------------------------------------------------------
\* The miss detector

Armed(at) == at - monStarted >= StartupGrace

\* What Check does with a row it read: an ok one past its due time goes to the
\* compare-and-set, a missed one whose report is due is reported.
Verdict(m, at) ==
  IF m.state = "ok" /\ Armed(at) /\ at > NextDue(m) THEN "mark"
  ELSE IF m.state = "missed" /\ NeedsReport(m, at) THEN "report" ELSE "skip"

\* The loop goes to the next row of the scan, in the order of the ids.
Advance(d) ==
  IF d.todo = {} THEN IdleDetector
  ELSE LET e == CHOOSE x \in d.todo : \A y \in d.todo : x.row.id <= y.row.id
       IN [d EXCEPT !.pc = Verdict(e.row, d.at), !.cur = e, !.todo = @ \ {e}]

\* Check lists every enabled monitor and takes its time once.  Rows that need
\* nothing are passed over.
DetectorCheck ==
  LET due == {s \in MonSlugs : monRows[s] # NoRow /\ Verdict(monRows[s], monNow) # "skip"}
  IN /\ monDetector.pc = "idle" /\ due # {}
     /\ monDetector' = Advance([IdleDetector EXCEPT !.at = monNow,
          !.todo = {[slug |-> s, row |-> monRows[s]] : s \in due}])
     /\ UNCHANGED <<monNow, monRows, monIssues, monClient, monStarted, monIds, monCount,
                    monFaults, monStray, monHuman>>

\* The update applies while the row still is ok and carries the check-in the
\* scan saw.
MarkApplies(e) ==
  LET m == monRows[e.slug]
  IN m.id = e.row.id /\ m.state = "ok" /\ m.last = e.row.last

MarkMonitorMissed ==
  LET d == monDetector
      applies == MarkApplies(d.cur)
  IN /\ d.pc = "mark"
     /\ monRows' = IF applies
                   THEN [monRows EXCEPT ![d.cur.slug].state = "missed", ![d.cur.slug].since = d.at]
                   ELSE monRows
     /\ monDetector' = IF applies THEN [d EXCEPT !.pc = "report"] ELSE Advance(d)
     /\ UNCHANGED <<monNow, monIssues, monClient, monStarted, monIds, monCount, monFaults,
                    monStray, monHuman>>

\* report: the event, then the mark that it was sent.
ReportMissed ==
  LET i == <<monDetector.cur.slug, "missed">>
  IN /\ monDetector.pc = "report"
     /\ monIssues' = Reported(i)
     /\ monStray' = IF Late(i[1], "missed") THEN monStray \cup {i} ELSE monStray
     /\ monHuman' = HumanAfter(i)
     /\ monDetector' = [monDetector EXCEPT !.pc = "emitted"]
     /\ UNCHANGED <<monNow, monRows, monClient, monStarted, monIds, monCount, monFaults>>

MarkMissedEmitted ==
  LET d == monDetector
  IN /\ d.pc = "emitted"
     /\ monRows' = Emitted(d.cur.slug, d.cur.row.id, d.at)
     /\ monDetector' = Advance(d)
     /\ UNCHANGED <<monNow, monIssues, monClient, monStarted, monIds, monCount, monFaults,
                    monStray, monHuman>>

\* Persisting the event or marking it fails: the next scan tries again.
DetectorFails ==
  /\ monDetector.pc \in {"mark", "report", "emitted"} /\ monFaults < MonMaxFaults
  /\ monFaults' = monFaults + 1
  /\ monDetector' = Advance(monDetector)
  /\ UNCHANGED <<monNow, monRows, monIssues, monClient, monStarted, monIds, monCount,
                 monStray, monHuman>>

----------------------------------------------------------------------------
\* Users, the clock and the process

\* DeleteMonitor: the issues stay.
DeleteMonitor(s) ==
  /\ monRows[s] # NoRow /\ monFaults < MonMaxFaults
  /\ monFaults' = monFaults + 1
  /\ monRows' = [monRows EXCEPT ![s] = NoRow]
  /\ monStray' = monStray \cup {<<s, k>> : k \in Kinds}
  /\ UNCHANGED <<monNow, monIssues, monDetector, monClient, monStarted, monIds, monCount,
                 monHuman>>

\* A user resolves or mutes an incident's issue (IssueTracker has the details).
CloseIncident(i, status) ==
  /\ monIssues[i] = "open" /\ monFaults < MonMaxFaults
  /\ monFaults' = monFaults + 1
  /\ monIssues' = [monIssues EXCEPT ![i] = status]
  /\ monStray' = monStray \ {i}
  /\ monHuman' = monHuman \cup {i}
  /\ UNCHANGED <<monNow, monRows, monDetector, monClient, monStarted, monIds, monCount>>

MonTick ==
  /\ MayTick
  /\ monNow' = monNow + 1
  /\ UNCHANGED <<monRows, monIssues, monDetector, monClient, monStarted, monIds, monCount,
                 monFaults, monStray, monHuman>>

\* The writer stops and starts: what was in progress is gone, and startMonitors
\* builds a detector whose grace begins anew.
MonRestart ==
  /\ monFaults < MonMaxFaults
  /\ monFaults' = monFaults + 1
  /\ monStarted' = monNow
  /\ monDetector' = IdleDetector
  /\ monClient' = [c \in MonClients |-> IdleClient]
  /\ monStray' = monStray \cup UNION {{<<monClient[c].slug, k>> : k \in monClient[c].kinds} :
                                      c \in {x \in MonClients : monClient[x].pc \notin {"idle", "store"}}}
  /\ UNCHANGED <<monNow, monRows, monIssues, monIds, monCount, monHuman>>

MonInit ==
  /\ monNow = 1 /\ monStarted = 1 /\ monIds = 0 /\ monCount = 0 /\ monFaults = 0
  /\ monRows = [s \in MonSlugs |-> NoRow]
  /\ monIssues = [i \in Incidents |-> "none"]
  /\ monDetector = IdleDetector
  /\ monClient = [c \in MonClients |-> IdleClient]
  /\ monStray = {} /\ monHuman = {}

CheckInStep(c) ==
  \/ RecordCheckIn(c) \/ ReportErrored(c) \/ MarkEmitted(c)
  \/ RecoveredLookup(c) \/ RecoveredEvent(c) \/ RecoveredResolve(c)

DetectorStep ==
  \/ DetectorCheck \/ MarkMonitorMissed \/ ReportMissed \/ MarkMissedEmitted

MonNext ==
  \/ \E c \in MonClients : \/ \E s \in MonSlugs, b \in CheckInBody : CheckIn(c, s, b)
                           \/ CheckInStep(c)
                           \/ CheckInLost(c) \/ ReportFails(c)
  \/ DetectorStep \/ DetectorFails
  \/ \E s \in MonSlugs : DeleteMonitor(s)
  \/ \E i \in Incidents, st \in {"resolved", "muted"} : CloseIncident(i, st)
  \/ MonTick \/ MonRestart

MonFairness ==
  /\ WF_monVars(DetectorStep)
  /\ \A c \in MonClients : WF_monVars(CheckInStep(c))

MonSpec == MonInit /\ [][MonNext]_monVars /\ MonFairness

----------------------------------------------------------------------------
\* Correctness

MonTypeOK ==
  /\ monNow \in 1..MonMaxTime /\ monStarted \in 1..monNow
  /\ monRows \in [MonSlugs -> Monitor \cup {NoRow}]
  /\ monIssues \in [Incidents -> {"none", "open", "resolved", "muted"}]
  /\ monStray \subseteq Incidents /\ monHuman \subseteq Incidents

\* A monitor is only marked missed when no check-in came in until its due time,
\* by the row as it is at that moment: a check-in, or a deletion and a fresh
\* monitor, between the scan and the update is never overwritten.
MissedOnlyWhenSilent ==
  [][\A s \in MonSlugs :
       (monRows[s] # NoRow /\ monRows'[s] # NoRow /\ monRows[s].state # "missed"
          /\ monRows'[s].state = "missed")
       => monNow > NextDue(monRows[s])]_monVars

\* The recovery of a slug is still to be recorded.
Recovering(i) ==
  \E c \in MonClients : /\ monClient[c].pc \in {"lookup", "recover", "resolve"}
                        /\ monClient[c].slug = i[1] /\ i[2] \in monClient[c].kinds

\* An incident is open for a monitor that is ok only as long as its recovery is
\* being recorded, or because the recording failed, the monitor was deleted or
\* the report came after the check-in that ended the incident.
OpenOnlyWhileDown ==
  \A i \in Incidents :
    (monRows[i[1]] # NoRow /\ monRows[i[1]].state = "ok" /\ monIssues[i] = "open")
      => Recovering(i) \/ i \in monStray

\* The other way round: a monitor that is missed and reported has an open
\* issue, unless a user closed it.  A recovery that is still being recorded
\* cannot close the next incident: reportTimeout is shorter than any interval.
DownIsOpen ==
  \A s \in MonSlugs :
    (/\ monRows[s] # NoRow /\ monRows[s].state = "missed" /\ monRows[s].schedule = {}
     /\ monRows[s].emitted >= monRows[s].since)
      => monIssues[<<s, "missed">>] = "open" \/ <<s, "missed">> \in monHuman

\* The issues of the incidents follow the monitors both ways.
IncidentsFollowMonitors == OpenOnlyWhileDown /\ DownIsOpen

\* A monitor that is missed is reported, however often the report failed.
MissedIsReported ==
  \A s \in MonSlugs :
    (monRows[s] # NoRow /\ monRows[s].state = "missed")
      ~> (monRows[s] = NoRow \/ monRows[s].state # "missed" \/ monRows[s].emitted >= monRows[s].since)
=============================================================================
