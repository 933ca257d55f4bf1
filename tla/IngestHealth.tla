---------------------------- MODULE IngestHealth ----------------------------
(***************************************************************************)
(* The ingest health monitor (internal/ingesthealth) beside the pipeline   *)
(* it watches.  Every Interval, one tick here, it reads the age of the     *)
(* last event, the depth of the write queue and the backlog of the writer  *)
(* spool; any of the reads may fail.  A verdict counts after               *)
(* ConfirmSamples bad samples in a row, and alerts are throttled.          *)
(***************************************************************************)
EXTENDS Integers, FiniteSets, FiniteSetsExt

CONSTANTS
  StaleAfter, SpoolStallAfter, MaxQueueDepth, AlertEvery, ConfirmSamples,
  QueueVisible,     \* a Redis write queue is configured
  HealthMaxTime,    \* bound: samples
  HealthMaxDepth,   \* bound: items in the queue and in the spool
  HealthMaxWork,    \* bound: steps of the pipeline
  HealthMaxFaults   \* bound: failed reads and restarts

ASSUME HealthAssumption ==
  /\ {StaleAfter, SpoolStallAfter, AlertEvery, ConfirmSamples} \subseteq Nat \ {0}
  /\ MaxQueueDepth \in Nat /\ QueueVisible \in BOOLEAN

VARIABLES
  healthNow,
  pipe,       \* queue depth, spool backlog, last persisted event, last cursor move,
              \* and the tick since when the present backlog has not moved
  health,     \* the monitor: streak, spoolClearAt, lastAlert, and its snapshot's verdict
  healthSeen, \* what the samples saw: the run of bad samples with a cause, the last gap
  healthSampled, healthWork, healthFaults

healthVars == <<healthNow, pipe, health, healthSeen, healthSampled, healthWork, healthFaults>>

Zero == 0   \* the zero time; the clock starts at 1
NewMonitorState == [streak |-> 0, clearAt |-> Zero, lastAlert |-> Zero, healthy |-> TRUE]

----------------------------------------------------------------------------
\* The pipeline, as far as its signals go

PipeStep(p) ==
  /\ healthWork < HealthMaxWork
  /\ pipe' = p /\ healthWork' = healthWork + 1
  /\ UNCHANGED <<healthNow, health, healthSeen, healthSampled, healthFaults>>

Enqueue == QueueVisible /\ pipe.queue < HealthMaxDepth /\ PipeStep([pipe EXCEPT !.queue = @ + 1])
Persist == pipe.queue > 0 /\ PipeStep([pipe EXCEPT !.queue = @ - 1, !.lastEvent = healthNow])
SpoolAppend == /\ pipe.spool < HealthMaxDepth
               /\ PipeStep([pipe EXCEPT !.spool = @ + 1, !.stuckSince = IF pipe.spool = 0 THEN healthNow ELSE @])
SpoolAdvance == /\ pipe.spool > 0
                /\ PipeStep([pipe EXCEPT !.spool = @ - 1, !.lastEvent = healthNow,
                                         !.lastAdvance = healthNow, !.stuckSince = healthNow])

----------------------------------------------------------------------------
\* One sample

Signals == {"event", "queue", "spool"}

\* Mutant: every reading restarts the clock.
ClearsAlways(ok) == IF "spool" \in ok THEN healthNow ELSE health.clearAt

\* sampleSpool: an empty spool, or the first reading, restarts the clock of a stall.
ClearAt(ok) ==
  IF "spool" \in ok /\ (health.clearAt = Zero \/ pipe.spool = 0) THEN healthNow ELSE health.clearAt
Stalled(ok) == healthNow - Max({pipe.lastAdvance, ClearAt(ok)})
SpoolBad(ok) == "spool" \in ok /\ pipe.spool > 0 /\ Stalled(ok) > SpoolStallAfter

\* Mutant: staleness alone counts.
StaleIsEnough(ok) == "event" \in ok /\ pipe.lastEvent # Zero /\ healthNow - pipe.lastEvent > StaleAfter

\* evaluate: a stale last event is a stall unless the queue is known to be empty.
EventBad(ok) ==
  /\ "event" \in ok /\ pipe.lastEvent # Zero /\ healthNow - pipe.lastEvent > StaleAfter
  /\ ~("queue" \in ok /\ pipe.queue = 0)
QueueBad(ok) == MaxQueueDepth > 0 /\ "queue" \in ok /\ pipe.queue > MaxQueueDepth

Unhealthy(ok) == EventBad(ok) \/ QueueBad(ok) \/ SpoolBad(ok)

\* confirm
Streak(bad) == IF bad THEN health.streak + 1 ELSE 0

\* maybeAlert
Throttled == health.lastAlert # Zero /\ healthNow - health.lastAlert < AlertEvery

\* The sample, with the signals of ok read; a source that is not wired up is
\* never read.  notify runs inside it and is bounded by its timeout.
Sample(ok) ==
  LET lost == (IF QueueVisible THEN Signals ELSE Signals \ {"queue"}) \ ok
      bad == Unhealthy(ok)
      confirmed == Streak(bad) >= ConfirmSamples
  IN /\ ~healthSampled
     /\ QueueVisible \/ "queue" \notin ok
     /\ healthFaults + Cardinality(lost) <= HealthMaxFaults
     /\ healthFaults' = healthFaults + Cardinality(lost)
     /\ health' = [streak |-> Streak(bad), clearAt |-> ClearAt(ok), healthy |-> ~confirmed,
                   lastAlert |-> IF confirmed /\ ~Throttled THEN healthNow ELSE health.lastAlert]
     /\ healthSeen' = [waiting |-> IF pipe.queue > 0 \/ pipe.spool > 0 \/ "queue" \notin ok
                                   THEN healthSeen.waiting + 1 ELSE 0,
                       gap |-> IF lost # {} THEN healthNow ELSE healthSeen.gap]
     /\ healthSampled' = TRUE
     /\ UNCHANGED <<healthNow, pipe, healthWork>>

HealthTick ==
  /\ healthSampled /\ healthNow < HealthMaxTime
  /\ healthNow' = healthNow + 1 /\ healthSampled' = FALSE
  /\ UNCHANGED <<pipe, health, healthSeen, healthWork, healthFaults>>

\* The monitor lives in the reader; a new pod starts from nothing and samples at once.
HealthRestart ==
  /\ healthFaults < HealthMaxFaults
  /\ healthFaults' = healthFaults + 1
  /\ health' = NewMonitorState /\ healthSampled' = FALSE
  /\ healthSeen' = [waiting |-> 0, gap |-> healthNow]
  /\ UNCHANGED <<healthNow, pipe, healthWork>>

HealthInit ==
  /\ healthNow = 1 /\ healthSampled = FALSE /\ healthWork = 0 /\ healthFaults = 0
  /\ pipe = [queue |-> 0, spool |-> 0, lastEvent |-> Zero, lastAdvance |-> Zero, stuckSince |-> Zero]
  /\ health = NewMonitorState
  /\ healthSeen = [waiting |-> 0, gap |-> 1]

HealthNext ==
  \/ Enqueue \/ Persist \/ SpoolAppend \/ SpoolAdvance
  \/ \E ok \in SUBSET Signals : Sample(ok)
  \/ HealthTick \/ HealthRestart

HealthSpec == HealthInit /\ [][HealthNext]_healthVars

----------------------------------------------------------------------------
\* Correctness

\* An idle instance never pages: when an alert goes out, each of the last
\* ConfirmSamples samples found something waiting in the queue or the spool, or
\* could not see the queue at all.
PageHasACause ==
  [][health'.lastAlert # health.lastAlert => health'.lastAlert = Zero
        \/ healthSeen'.waiting >= ConfirmSamples]_healthVars

\* A stall is not missed: a spool whose backlog has not moved for
\* SpoolStallAfter, and the samples it takes to confirm, turns the snapshot
\* unhealthy, counted from the last failed reading or restart if that was later.
StallIsSeen ==
  (healthSampled /\ pipe.spool > 0
     /\ healthNow - Max({pipe.stuckSince, healthSeen.gap}) > SpoolStallAfter + ConfirmSamples)
  => ~health.healthy
=============================================================================
