------------------------------ MODULE HostWatch ------------------------------
(***************************************************************************)
(* Host metrics in the detection engine (internal/detect): the metric      *)
(* rules, whose series must stay past the limit for a while, and the       *)
(* heartbeat rules, which report a host once per silence.  What the engine *)
(* knows is in memory; a new writer is seeded from the hosts table, which  *)
(* the ingester writes after the engine saw the batch.  A detection goes   *)
(* through a bounded queue to the emitter, which files it as an event.     *)
(***************************************************************************)
EXTENDS Integers, FiniteSets, FiniteSetsExt

CONSTANTS
  Hosts, HeartbeatRules,     \* heartbeat rule ids
  SilenceWindow,             \* and the silence each allows
  HoldFor, MetricCooldown,   \* the metric rule; it is per core
  SeedAlreadySilent, ForgetHostAfter,
  HwEmitAttempts,  \* attempts to file one detection (4)
  HwMaxTime,       \* bound: ticks
  HwMaxSamples,    \* bound: batches observed
  HwMaxFaults      \* bound: failed inserts, reads and emitter attempts, full queues, restarts, rule changes

ASSUME HwAssumption ==
  /\ SilenceWindow \in [HeartbeatRules -> Nat]
  /\ {HoldFor, MetricCooldown, SeedAlreadySilent, ForgetHostAfter, HwEmitAttempts, HwMaxFaults} \subseteq Nat

VARIABLES
  hwNow, hwStarted,
  hwHosts,     \* Engine.hosts
  hwSeries,    \* Engine.series of the metric rule
  hwTable,     \* the hosts table of metrics.db
  hwReports,   \* [Hosts -> [HeartbeatRules -> the detections of the present silence, in this process]]
  hwSeeded,    \* hosts seeded as reported
  hwChecked, hwCount, hwFaults

hwVars == <<hwNow, hwStarted, hwHosts, hwSeries, hwTable, hwReports, hwSeeded, hwChecked, hwCount, hwFaults>>

Never == 0
UnknownHost == [seen |-> Never, cores |-> 0, silent |-> {}]
NoSeries == [since |-> Never, lastFired |-> Never]

\* raised counts the detections, queued or dropped; stored the events they became;
\* tries the attempts that failed.  The detection of a silence that has ended goes its
\* way unseen.
NoReport == [raised |-> 0, waits |-> FALSE, tries |-> 0, stored |-> 0, lost |-> FALSE]
NoneRaised == [r \in HeartbeatRules |-> NoReport]

\* touchHost: a newer report ends the silence; a late one changes nothing.
Touch(st, seen, cores) ==
  [seen |-> Max({st.seen, seen}), cores |-> IF cores > 0 THEN cores ELSE st.cores,
   silent |-> IF seen > st.seen THEN {} ELSE st.silent]

\* evalSample: since is the earliest sample of the run past the limit; without
\* a core count there is no limit.
EvalSample(sr, cores, ts, over) ==
  LET since == IF sr.since = Never \/ ts < sr.since THEN ts ELSE sr.since
      fires == ts - since >= HoldFor /\ (sr.lastFired = Never \/ ts - sr.lastFired >= MetricCooldown)
  IN IF cores = 0 THEN sr
     ELSE IF ~over THEN [sr EXCEPT !.since = Never]
     ELSE [since |-> since, lastFired |-> IF fires THEN ts ELSE sr.lastFired]

\* The host's row after InsertMetrics: never older, and a sample without a core
\* count keeps the one it has.
StoreHost(row, ts, cores) ==
  [row EXCEPT !.seen = Max({@, ts}), !.cores = IF cores > 0 THEN cores ELSE @]

\* ingestMetrics: the engine sees the batch, then the table gets it.  A full
\* file still takes the host row; a failed insert leaves it as it was.
ObserveMetrics(h, ts, cores, over, stored) ==
  /\ hwCount < HwMaxSamples /\ hwCount' = hwCount + 1
  /\ stored \/ hwFaults < HwMaxFaults
  /\ hwFaults' = hwFaults + (IF stored THEN 0 ELSE 1)
  /\ hwHosts' = [hwHosts EXCEPT ![h] = Touch(@, ts, cores)]
  /\ hwSeries' = [hwSeries EXCEPT ![h] = EvalSample(@, Touch(hwHosts[h], ts, cores).cores, ts, over)]
  /\ hwTable' = IF stored THEN [hwTable EXCEPT ![h] = StoreHost(@, ts, cores)] ELSE hwTable
  /\ hwReports' = IF ts > hwHosts[h].seen THEN [hwReports EXCEPT ![h] = NoneRaised] ELSE hwReports
  /\ hwSeeded' = IF ts > hwHosts[h].seen THEN hwSeeded \ {h} ELSE hwSeeded
  /\ hwChecked' = FALSE
  /\ UNCHANGED <<hwNow, hwStarted>>

\* The silence CheckHeartbeats sees: from the start of the process at the earliest.
SilenceOf(h) ==
  LET silence == hwNow - hwHosts[h].seen  alive == hwNow - hwStarted
  IN IF silence > alive /\ silence <= ForgetHostAfter THEN alive ELSE silence
Forgotten(h) == SilenceOf(h) > ForgetHostAfter
Known(h) == hwHosts[h].seen # Never

\* Mutant: a host that was silent once stays so.
DueAlways(h) == {r \in HeartbeatRules : SilenceOf(h) > SilenceWindow[r]}

\* The rules that fire for h.
Due(h) == {r \in HeartbeatRules : SilenceOf(h) > SilenceWindow[r] /\ r \notin hwHosts[h].silent}

\* emit: a detection is queued, or dropped when the queue is full.
EmitHeartbeat(rep, dropped) ==
  IF dropped THEN [rep EXCEPT !.raised = @ + 1, !.lost = TRUE] ELSE [rep EXCEPT !.raised = @ + 1, !.waits = TRUE]

\* Each silence is marked before its detection is emitted; full are the detections that
\* found the queue full, of whatever other detections.
CheckHeartbeats(full) ==
  /\ ~hwChecked /\ hwChecked' = TRUE
  /\ full # {} => hwFaults < HwMaxFaults
  /\ hwFaults' = IF full = {} THEN hwFaults ELSE hwFaults + 1
  /\ hwHosts' = [h \in Hosts |->
                   IF ~Known(h) \/ Forgotten(h) THEN UnknownHost
                   ELSE [hwHosts[h] EXCEPT !.silent = @ \cup Due(h)]]
  /\ hwReports' = [h \in Hosts |->
                    IF ~Known(h) \/ Forgotten(h) THEN NoneRaised
                    ELSE [r \in HeartbeatRules |->
                            IF r \in Due(h) THEN EmitHeartbeat(hwReports[h][r], <<h, r>> \in full) ELSE hwReports[h][r]]]
  /\ hwSeries' = [h \in Hosts |-> IF Known(h) /\ Forgotten(h) THEN NoSeries ELSE hwSeries[h]]
  /\ hwSeeded' = {h \in hwSeeded : ~Forgotten(h)}
  /\ UNCHANGED <<hwNow, hwStarted, hwTable, hwCount>>

\* The emitter: an attempt files the event ...
EmitterStores(h, r) ==
  /\ hwReports[h][r].waits
  /\ hwReports' = [hwReports EXCEPT ![h][r].waits = FALSE, ![h][r].stored = @ + 1]
  /\ UNCHANGED <<hwNow, hwStarted, hwHosts, hwSeries, hwTable, hwSeeded, hwChecked, hwCount, hwFaults>>

\* ... or fails, before or after the event was in the database; a transient failure is
\* tried again until the back-offs run out, and any other gives the detection up.
EmitterFails(h, r, retryable, stored) ==
  /\ hwReports[h][r].waits /\ hwFaults < HwMaxFaults
  /\ hwFaults' = hwFaults + 1
  /\ LET rep == hwReports[h][r]  again == retryable /\ rep.tries + 1 < HwEmitAttempts
     IN hwReports' = [hwReports EXCEPT ![h][r] =
                        [rep EXCEPT !.tries = @ + 1, !.stored = @ + (IF stored THEN 1 ELSE 0),
                                    !.waits = again, !.lost = ~again]]
  /\ UNCHANGED <<hwNow, hwStarted, hwHosts, hwSeries, hwTable, hwSeeded, hwChecked, hwCount>>

\* SetRules: series start over, hosts and their silences stay.
HwSetRules ==
  /\ hwFaults < HwMaxFaults
  /\ hwFaults' = hwFaults + 1
  /\ hwSeries' = [h \in Hosts |-> NoSeries]
  /\ UNCHANGED <<hwNow, hwStarted, hwHosts, hwTable, hwReports, hwSeeded, hwChecked, hwCount>>

\* SeedHosts: a host silent for longer than SeedAlreadySilent counts as reported.
AlreadySilent(h) == hwTable[h].seen # Never /\ hwNow - hwTable[h].seen > SeedAlreadySilent
Seed(h) == [seen |-> hwTable[h].seen, cores |-> hwTable[h].cores,
            silent |-> IF AlreadySilent(h) THEN HeartbeatRules ELSE {}]

HwRestart(read) ==
  /\ hwFaults < HwMaxFaults
  /\ hwFaults' = hwFaults + 1
  /\ hwStarted' = hwNow /\ hwChecked' = FALSE
  /\ hwHosts' = [h \in Hosts |-> IF read THEN Seed(h) ELSE UnknownHost]
  /\ hwSeries' = [h \in Hosts |-> NoSeries]
  /\ hwReports' = [h \in Hosts |-> NoneRaised]
  /\ hwSeeded' = IF read THEN {h \in Hosts : AlreadySilent(h)} ELSE {}
  /\ UNCHANGED <<hwNow, hwTable, hwCount>>

\* RunHeartbeat checks every minute, a tick here.
HwTick ==
  /\ hwChecked /\ hwNow < HwMaxTime
  /\ hwNow' = hwNow + 1 /\ hwChecked' = FALSE
  /\ UNCHANGED <<hwStarted, hwHosts, hwSeries, hwTable, hwReports, hwSeeded, hwCount, hwFaults>>

HwInit ==
  /\ hwNow = 1 /\ hwStarted = 1 /\ hwCount = 0 /\ hwFaults = 0 /\ hwChecked = FALSE /\ hwSeeded = {}
  /\ hwHosts = [h \in Hosts |-> UnknownHost] /\ hwSeries = [h \in Hosts |-> NoSeries]
  /\ hwTable = [h \in Hosts |-> [seen |-> Never, cores |-> 0]]
  /\ hwReports = [h \in Hosts |-> NoneRaised]

HwNext ==
  \/ \E h \in Hosts, ts \in {1, hwNow - 1, hwNow} \ {0}, cores \in {0, 4}, over, stored \in BOOLEAN :
       ObserveMetrics(h, ts, cores, over, stored)
  \/ \E full \in SUBSET {d \in Hosts \X HeartbeatRules : d[2] \in Due(d[1])} : CheckHeartbeats(full)
  \/ \E h \in Hosts, r \in HeartbeatRules :
       EmitterStores(h, r) \/ \E retryable, stored \in BOOLEAN : EmitterFails(h, r, retryable, stored)
  \/ HwSetRules \/ HwTick
  \/ \E read \in BOOLEAN : HwRestart(read)

HwSpec == HwInit /\ [][HwNext]_hwVars

----------------------------------------------------------------------------
\* Correctness

\* The host has been silent for longer than the rule allows, counted from the start of
\* the process.
Overdue(h, r) == hwChecked /\ Known(h) /\ hwNow - Max({hwHosts[h].seen, hwStarted}) > SilenceWindow[r]

\* A silence that is going on raises one detection per rule and process, and never none
\* once it is overdue.  Only a host that was silent for longer than SeedAlreadySilent when
\* the process started goes without, whether or not the process before it had reported
\* it.  The detection is filed as an event or on its way, or was lost: by a full queue or by an
\* emitter that gave it up, and it is not raised again then.  Each filing beyond the
\* first has its own failed attempt; where nothing failed, nothing is lost or filed twice.
SilenceReportedOnce ==
  \A h \in Hosts, r \in HeartbeatRules :
    LET rep == hwReports[h][r]
    IN /\ rep.raised <= 1
       /\ Overdue(h, r) /\ h \notin hwSeeded =>
            /\ rep.raised = 1
            /\ rep.waits \/ rep.stored > 0 \/ rep.lost
       /\ rep.stored <= rep.raised + rep.tries
       /\ hwFaults = 0 => ~rep.lost /\ rep.stored <= 1
=============================================================================
