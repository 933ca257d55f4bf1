----------------------------- MODULE Retention -----------------------------
(***************************************************************************)
(* The retention sweep (internal/retention, internal/storage/retention.go, *)
(* release_retention.go): events past the deployment's window, then the    *)
(* events of projects with a shorter window of their own, then the release *)
(* rows beyond the newest of each project, in batches between which        *)
(* everything else writes.                                                 *)
(***************************************************************************)
EXTENDS Integers, FiniteSets, FiniteSetsExt

CONSTANTS
  RtProjects,
  RetentionDays, Overrides,     \* the deployment's window, and the ones a project may get (0: none)
  BatchSize, MaxDeletes, SweepBudget,
  ReleasesKept, MaxReleaseBatches,
  RtMaxTime, RtMaxEvents, RtMaxReleases, RtMaxFaults   \* bounds

ASSUME RtAssumption ==
  /\ {RetentionDays, BatchSize, MaxDeletes, MaxReleaseBatches} \subseteq Nat \ {0}
  /\ Overrides \subseteq Nat /\ {SweepBudget, ReleasesKept} \subseteq Nat

VARIABLES
  rtNow,
  rtEvents,    \* events rows: [id, project, at]; ids in the order they were stored
  rtNextId,
  rtWindow,    \* projects.retention_days, 0 for none
  rtReleases,  \* per project: the ids of its releases rows, rtLast the last one given
  rtLast,
  rtSweep,     \* the sweep: what it is at, its cutoff, what it deleted, its deadline,
               \* the windows it read and still has to visit
  rtPrune,     \* the release pass: the projects left, the cutoff read, the batch's room
  rtDrained,   \* history: the last cutoff below which each project was found empty
  rtBehind,    \* history: events stored later with a time before that cutoff
  rtFaults

rtVars == <<rtNow, rtEvents, rtNextId, rtWindow, rtReleases, rtLast, rtSweep, rtPrune, rtDrained, rtBehind, rtFaults>>
rtData == <<rtNow, rtNextId, rtWindow, rtLast>>

NoWindows == [p \in RtProjects |-> 0]
IdleSweep == [pc |-> "idle", scope |-> {}, cutoff |-> 0, deleted |-> 0, deadline |-> 0, windows |-> NoWindows, todo |-> {}]
IdlePrune == [todo |-> {}, at |-> {}, cutoff |-> 0, room |-> 0, batches |-> 0]

----------------------------------------------------------------------------
\* What goes on beside the sweep

\* An event is stored; a record that waited in a spool has an older time.
StoreEvent(p, at) ==
  LET e == [id |-> rtNextId, project |-> p, at |-> at]
  IN /\ rtNextId <= RtMaxEvents /\ at \in {rtNow, rtNow - 2} /\ at >= 0
     /\ rtNextId' = rtNextId + 1
     /\ rtEvents' = rtEvents \cup {e}
     /\ rtBehind' = rtBehind \cup {e}
     /\ UNCHANGED <<rtNow, rtWindow, rtReleases, rtLast, rtSweep, rtPrune, rtDrained, rtFaults>>

StoreRelease(p) ==
  /\ rtLast[p] < RtMaxReleases
  /\ rtLast' = [rtLast EXCEPT ![p] = @ + 1]
  /\ rtReleases' = [rtReleases EXCEPT ![p] = @ \cup {rtLast[p] + 1}]
  /\ UNCHANGED <<rtNow, rtEvents, rtNextId, rtWindow, rtSweep, rtPrune, rtDrained, rtBehind, rtFaults>>

\* An admin sets a project's window (UpdateProjectLimits).
SetWindow(p, days) ==
  /\ days # rtWindow[p]
  /\ rtWindow' = [rtWindow EXCEPT ![p] = days]
  /\ UNCHANGED <<rtNow, rtEvents, rtNextId, rtReleases, rtLast, rtSweep, rtPrune, rtDrained, rtBehind, rtFaults>>

RtTick ==
  /\ rtNow < RtMaxTime
  /\ rtNow' = rtNow + 1
  /\ UNCHANGED <<rtEvents, rtNextId, rtWindow, rtReleases, rtLast, rtSweep, rtPrune, rtDrained, rtBehind, rtFaults>>

----------------------------------------------------------------------------
\* The sweep

\* sweep, at start-up and every hour.
SweepStart ==
  /\ rtSweep.pc = "idle"
  /\ rtSweep' = [IdleSweep EXCEPT !.pc = "global", !.scope = RtProjects,
                                  !.cutoff = rtNow - RetentionDays, !.deadline = rtNow + SweepBudget]
  /\ UNCHANGED <<rtData, rtEvents, rtReleases, rtPrune, rtDrained, rtBehind, rtFaults>>

\* DeleteEventsBefore, DeleteProjectEventsBefore: the oldest expired rows.
Expired(scope, cutoff) == {e \in rtEvents : e.project \in scope /\ e.at < cutoff}

OldestFirst(e, f) == e.at < f.at \/ (e.at = f.at /\ e.id < f.id)

Batch(scope, cutoff) ==
  LET due == Expired(scope, cutoff)
  IN {e \in due : Cardinality({f \in due : OldestFirst(f, e)}) < BatchSize}

\* The pass over the events of a scope is over: the windows are read next.
AfterPass == IF rtSweep.pc = "global" THEN "windows" ELSE "visit"

\* Mutant: a full batch counts as the last one.
LastBatchFull(n) == n <= BatchSize

\* A short batch: nothing older is left.
LastBatch(n) == n < BatchSize

\* drainBatches, one round: a batch, and whether there will be another.
DrainBatch ==
  LET gone  == Batch(rtSweep.scope, rtSweep.cutoff)
      n     == Cardinality(gone)
      total == rtSweep.deleted + n
      over  == LastBatch(n) \/ rtNow >= rtSweep.deadline \/ total >= MaxDeletes
  IN /\ rtSweep.pc \in {"global", "project"}
     /\ rtEvents' = rtEvents \ gone
     /\ rtSweep' = [rtSweep EXCEPT !.deleted = total, !.pc = IF over THEN AfterPass ELSE @]
     /\ rtDrained' = [p \in RtProjects |-> IF LastBatch(n) /\ p \in rtSweep.scope THEN rtSweep.cutoff ELSE rtDrained[p]]
     /\ rtBehind' = IF LastBatch(n) THEN {e \in rtBehind : e.project \notin rtSweep.scope} ELSE rtBehind
     /\ UNCHANGED <<rtData, rtReleases, rtPrune, rtFaults>>

\* A statement fails: the sweep is aborted, the release pass still runs.
BatchFails ==
  /\ rtSweep.pc \in {"global", "windows", "project"} /\ rtFaults < RtMaxFaults
  /\ rtFaults' = rtFaults + 1
  /\ rtSweep' = [rtSweep EXCEPT !.pc = "releases"]
  /\ rtPrune' = [IdlePrune EXCEPT !.batches = MaxReleaseBatches]
  /\ UNCHANGED <<rtData, rtEvents, rtReleases, rtDrained, rtBehind>>

\* Mutant: a window of zero days is taken for a window.
ShorterOrZero(days) == days < RetentionDays

\* sweepProjectOverrides: which windows are honored.
Shorter(days) == days > 0 /\ days < RetentionDays

\* ProjectsWithRetentionOverride
ReadWindows ==
  /\ rtSweep.pc = "windows"
  /\ rtSweep' = [rtSweep EXCEPT !.pc = "visit", !.windows = rtWindow, !.deadline = rtNow + SweepBudget,
                                !.todo = {p \in RtProjects : Shorter(rtWindow[p])}]
  /\ UNCHANGED <<rtData, rtEvents, rtReleases, rtPrune, rtDrained, rtBehind, rtFaults>>

\* drainProject of the next project, in any order, while the budget lasts.
VisitProject(p) ==
  /\ rtSweep.pc = "visit" /\ p \in rtSweep.todo /\ rtNow < rtSweep.deadline
  /\ rtSweep' = [rtSweep EXCEPT !.pc = "project", !.scope = {p}, !.todo = @ \ {p}, !.deleted = 0,
                                !.cutoff = rtNow - rtSweep.windows[p]]
  /\ UNCHANGED <<rtData, rtEvents, rtReleases, rtPrune, rtDrained, rtBehind, rtFaults>>

VisitsDone ==
  /\ rtSweep.pc = "visit" /\ (rtSweep.todo = {} \/ rtNow >= rtSweep.deadline)
  /\ rtSweep' = [rtSweep EXCEPT !.pc = "releases"]
  /\ rtPrune' = [IdlePrune EXCEPT !.batches = MaxReleaseBatches]
  /\ UNCHANGED <<rtData, rtEvents, rtReleases, rtDrained, rtBehind, rtFaults>>

----------------------------------------------------------------------------
\* The release pass

OverCap == {p \in RtProjects : Cardinality(rtReleases[p]) > ReleasesKept}

\* projectsOverReleaseCap starts a batch; with none left the sweep is over.
PruneReleases ==
  /\ rtSweep.pc = "releases" /\ rtPrune.todo = {} /\ rtPrune.at = {}
  /\ IF OverCap = {} \/ rtPrune.batches = 0
     THEN rtSweep' = IdleSweep /\ rtPrune' = IdlePrune
     ELSE /\ rtPrune' = [rtPrune EXCEPT !.todo = OverCap, !.room = BatchSize, !.batches = @ - 1]
          /\ UNCHANGED rtSweep
  /\ UNCHANGED <<rtData, rtEvents, rtReleases, rtDrained, rtBehind, rtFaults>>

\* pruneProjectReleases reads the newest row outside the kept ones ...
PruneCutoff(p) ==
  LET kept == {r \in rtReleases[p] : Cardinality({q \in rtReleases[p] : q > r}) < ReleasesKept}
      rest == rtReleases[p] \ kept
  IN /\ p \in rtPrune.todo /\ rtPrune.at = {}
     /\ rtPrune' = [rtPrune EXCEPT !.todo = IF rtPrune.room = 0 THEN {} ELSE @ \ {p},
                                   !.at = IF rtPrune.room = 0 \/ rest = {} THEN {} ELSE {p},
                                   !.cutoff = IF rest = {} THEN 0 ELSE Max(rest)]
     /\ UNCHANGED <<rtData, rtEvents, rtReleases, rtSweep, rtDrained, rtBehind, rtFaults>>

\* Mutant: the batch takes the last rows, whatever came in since the cutoff.
PrunedLast(p) ==
  {r \in rtReleases[p] : Cardinality({q \in rtReleases[p] : q > r}) < rtPrune.room}

\* ... and deletes the first rows up to it, as many as the batch has room for.
Pruned(p) ==
  LET due == {r \in rtReleases[p] : r <= rtPrune.cutoff}
  IN {r \in due : Cardinality({q \in due : q < r}) < rtPrune.room}

PruneDelete(p) ==
  /\ p \in rtPrune.at
  /\ rtReleases' = [rtReleases EXCEPT ![p] = @ \ Pruned(p)]
  /\ rtPrune' = [rtPrune EXCEPT !.at = {}, !.room = @ - Cardinality(Pruned(p))]
  /\ UNCHANGED <<rtData, rtEvents, rtSweep, rtDrained, rtBehind, rtFaults>>

\* A failed lookup or delete ends the pass until the next sweep.
PruneFails ==
  /\ rtSweep.pc = "releases" /\ rtFaults < RtMaxFaults
  /\ rtFaults' = rtFaults + 1
  /\ rtSweep' = IdleSweep /\ rtPrune' = IdlePrune
  /\ UNCHANGED <<rtData, rtEvents, rtReleases, rtDrained, rtBehind>>

\* The writer stops anywhere in a sweep; the next one begins anew.
RtRestart ==
  /\ rtFaults < RtMaxFaults /\ rtSweep.pc # "idle"
  /\ rtFaults' = rtFaults + 1
  /\ rtSweep' = IdleSweep /\ rtPrune' = IdlePrune
  /\ UNCHANGED <<rtData, rtEvents, rtReleases, rtDrained, rtBehind>>

RtInit ==
  /\ rtNow = 0 /\ rtEvents = {} /\ rtNextId = 1 /\ rtWindow = NoWindows
  /\ rtReleases = [p \in RtProjects |-> {}] /\ rtLast = NoWindows
  /\ rtSweep = IdleSweep /\ rtPrune = IdlePrune
  /\ rtDrained = NoWindows /\ rtBehind = {} /\ rtFaults = 0

RtNext ==
  \/ \E p \in RtProjects : \/ StoreRelease(p) \/ VisitProject(p) \/ PruneCutoff(p) \/ PruneDelete(p)
                           \/ \E days \in Overrides : SetWindow(p, days)
                           \/ \E at \in 0..RtMaxTime : StoreEvent(p, at)
  \/ SweepStart \/ DrainBatch \/ BatchFails \/ ReadWindows \/ VisitsDone
  \/ PruneReleases \/ PruneFails \/ RtRestart \/ RtTick

RtSpec == RtInit /\ [][RtNext]_rtVars

----------------------------------------------------------------------------
\* Correctness

\* An event is deleted only when it is older than the deployment's window or
\* than a shorter window of its own project that the sweep read.
EventsLiveTheirWindow ==
  [][\A e \in rtEvents \ rtEvents' :
       \/ e.at < rtNow - RetentionDays
       \/ rtSweep.windows[e.project] > 0 /\ e.at < rtNow - rtSweep.windows[e.project]]_rtVars

\* A pass that ended on a short batch left nothing before its cutoff: what is
\* older was stored since.
DrainedMeansDrained ==
  \A e \in rtEvents : e.at < rtDrained[e.project] => e \in rtBehind

\* The newest rows of a project survive every release pass, also one during
\* which releases are stored.
NewestReleasesKept ==
  \A p \in RtProjects :
    {r \in 1..rtLast[p] : r > rtLast[p] - ReleasesKept} \subseteq rtReleases[p]

\* A sweep deletes all it says it deleted, and never the newest releases.
SweepsSound == DrainedMeansDrained /\ NewestReleasesKept
=============================================================================
