----------------------------- MODULE TelemetryDB -----------------------------
(***************************************************************************)
(* metrics.db (internal/telemetrydb): minute samples of one series, rolled *)
(* up per hour behind a cursor, expired by age and evicted, oldest first,  *)
(* when the file nears its cap.  Ingest shares the write connection with   *)
(* the two maintenance loops and gets in between their batches.            *)
(***************************************************************************)
EXTENDS Integers, FiniteSets, FiniteSetsExt

CONSTANTS
  Hour, RollupGrace, RawKeep, HourlyKeep,
  CapRows, EvictStart, EvictStop,   \* the cap and its band, in rows of file and WAL
  TdMaxTime,     \* bound: minutes
  TdMaxSamples,  \* bound: samples inserted
  TdMaxFaults    \* bound: blocked checkpoints

ASSUME TdAssumption ==
  /\ {Hour, RawKeep, HourlyKeep} \subseteq Nat \ {0} /\ RollupGrace \in Nat
  /\ EvictStop <= EvictStart /\ EvictStart <= CapRows

VARIABLES
  tdNow,
  tdSamples,   \* samples_1m: the minutes that have a row
  tdHourly,    \* samples_1h: the minutes each hour's row counted
  tdCursor,    \* meta rollup_1h_next, an hour's start
  tdFull,      \* DB.full
  tdWal,       \* rows in the WAL
  tdPass,      \* the maintenance pass: "idle" or "evict"
  tdRolled, tdLate,   \* minutes counted in a rollup so far; rows that came after the grace
  tdCount, tdFaults

tdVars == <<tdNow, tdSamples, tdHourly, tdCursor, tdFull, tdWal, tdPass, tdRolled, tdLate, tdCount, tdFaults>>

HourOf(ts) == ts - (ts % Hour)
UsedBytes == Cardinality(tdSamples) + tdWal

\* InsertMetrics: a repeated minute replaces its row; a full file takes none.
InsertMetrics(ts) ==
  /\ tdCount < TdMaxSamples
  /\ tdCount' = tdCount + 1
  /\ IF tdFull THEN UNCHANGED <<tdSamples, tdWal, tdLate>>
     ELSE /\ tdSamples' = tdSamples \cup {ts}
          /\ tdWal' = tdWal + 1
          /\ tdLate' = IF tdNow >= HourOf(ts) + Hour + RollupGrace THEN tdLate \cup {ts} ELSE tdLate
  /\ UNCHANGED <<tdNow, tdHourly, tdCursor, tdFull, tdPass, tdRolled, tdFaults>>

\* Mutant: the hour counts as finished when it ends.
LimitWithoutGrace == tdNow

RollupLimit == tdNow - RollupGrace

\* nextRollupHour: the hour of the first sample at or after the cursor.
Pending == {ts \in tdSamples : ts >= tdCursor}
NextRollupHour == HourOf(Min(Pending))

\* rollupNextHour: the hour's row and the cursor commit together.
RollupNextHour ==
  LET start == NextRollupHour
      rows == {ts \in tdSamples : ts >= start /\ ts < start + Hour}
  IN /\ Pending # {} /\ start + Hour <= RollupLimit
     /\ tdHourly' = [h \in DOMAIN tdHourly \cup {start} |-> IF h = start THEN rows ELSE tdHourly[h]]
     /\ tdCursor' = start + Hour
     /\ tdRolled' = tdRolled \cup rows
     /\ tdWal' = tdWal + 1
     /\ UNCHANGED <<tdNow, tdSamples, tdFull, tdPass, tdLate, tdCount, tdFaults>>

\* ApplyRetention, in batches: a pass whose time ran out has deleted a first part.
ApplyRetention(cut) ==
  /\ cut <= tdNow - RawKeep
  /\ (\E ts \in tdSamples : ts < cut) \/ (\E h \in DOMAIN tdHourly : h < tdNow - HourlyKeep)
  /\ tdSamples' = {ts \in tdSamples : ts >= cut}
  /\ tdLate' = {ts \in tdLate : ts >= cut}
  /\ tdHourly' = [h \in {x \in DOMAIN tdHourly : x >= tdNow - HourlyKeep} |-> tdHourly[h]]
  /\ tdWal' = tdWal + 1
  /\ UNCHANGED <<tdNow, tdCursor, tdFull, tdPass, tdRolled, tdCount, tdFaults>>

----------------------------------------------------------------------------
\* maintain

\* A checkpoint empties the WAL unless a reader holds a snapshot.
Checkpointed(blocked, rows) == IF blocked THEN rows ELSE 0
Faulty(blocked) ==
  /\ ~blocked \/ tdFaults < TdMaxFaults
  /\ tdFaults' = tdFaults + (IF blocked THEN 1 ELSE 0)

\* The pass starts: a checkpoint, then EnforceCap's first look.
Maintain(blocked) ==
  LET wal == Checkpointed(blocked, tdWal)
      used == Cardinality(tdSamples) + wal
  IN /\ tdPass = "idle" /\ tdWal > 0 /\ Faulty(blocked)
     /\ tdWal' = wal /\ tdFull' = (used >= CapRows)
     /\ tdPass' = IF used >= EvictStart THEN "evict" ELSE "idle"
     /\ UNCHANGED <<tdNow, tdSamples, tdHourly, tdCursor, tdRolled, tdLate, tdCount>>

\* One batch of the eviction loop: the oldest row, and a checkpoint.
EvictOldest(blocked) ==
  LET rows == IF tdSamples = {} THEN {} ELSE tdSamples \ {Min(tdSamples)}
      wal == Checkpointed(blocked, tdWal + 1)
  IN /\ tdPass = "evict" /\ UsedBytes > EvictStop /\ Faulty(blocked)
     /\ tdSamples' = rows /\ tdWal' = wal /\ tdLate' = tdLate \cap rows
     /\ tdFull' = (Cardinality(rows) + wal >= CapRows)
     /\ tdPass' = IF tdSamples = {} THEN "idle" ELSE "evict"
     /\ UNCHANGED <<tdNow, tdHourly, tdCursor, tdRolled, tdCount>>

\* Below the band, or out of time: vacuum and a last checkpoint.
EvictDone(blocked) ==
  /\ tdPass = "evict" /\ Faulty(blocked)
  /\ tdPass' = "idle" /\ tdWal' = Checkpointed(blocked, tdWal)
  /\ UNCHANGED <<tdNow, tdSamples, tdHourly, tdCursor, tdFull, tdRolled, tdLate, tdCount>>

TdTick ==
  /\ tdNow < TdMaxTime
  /\ tdNow' = tdNow + 1
  /\ UNCHANGED <<tdSamples, tdHourly, tdCursor, tdFull, tdWal, tdPass, tdRolled, tdLate, tdCount, tdFaults>>

\* Open: the flag is in memory, the file is not.
TdRestart ==
  /\ tdFull \/ tdPass # "idle"
  /\ tdFull' = FALSE /\ tdPass' = "idle"
  /\ UNCHANGED <<tdNow, tdSamples, tdHourly, tdCursor, tdWal, tdRolled, tdLate, tdCount, tdFaults>>

TdInit ==
  /\ tdNow = Hour /\ tdSamples = {} /\ tdHourly = [h \in {} |-> {}] /\ tdCursor = 0
  /\ tdFull = FALSE /\ tdWal = 0 /\ tdPass = "idle"
  /\ tdRolled = {} /\ tdLate = {} /\ tdCount = 0 /\ tdFaults = 0

TdNext ==
  \/ \E ts \in {0, tdNow - Hour, tdNow - 1, tdNow, tdNow + Hour} : InsertMetrics(ts)
  \/ RollupNextHour
  \/ \E cut \in 1 .. TdMaxTime : ApplyRetention(cut)
  \/ \E blocked \in BOOLEAN : Maintain(blocked) \/ EvictOldest(blocked) \/ EvictDone(blocked)
  \/ TdTick \/ TdRestart

TdSpec == TdInit /\ [][TdNext]_tdVars

----------------------------------------------------------------------------
\* Correctness

\* No sample misses its hour: a minute row behind the cursor was counted in its
\* hour's rollup unless it arrived after the grace period, even when earlier
\* hours were empty, the pass fell behind, or rows were expired or evicted
\* around it.
InTimeSamplesRolledUp ==
  \A ts \in tdSamples : ts < tdCursor => (ts \in tdRolled \/ ts \in tdLate)
=============================================================================
