---------------------------- MODULE WorkerSpool ----------------------------
(***************************************************************************)
(* The durable ingest spool of the writer process and the background       *)
(* worker that drains it: internal/spool/{spool,segments,backlog}.go and   *)
(* cmd/bugbarn/{worker,worker_segments}.go.                                *)
(*                                                                         *)
(* HTTP handlers append records to the active segment; the worker reads    *)
(* from its position, stores each record, advances a cursor file, rotates  *)
(* the active segment when it is too large, drains the rotated segment and *)
(* deletes it.  The process can stop between any two steps.                *)
(*                                                                         *)
(* Records are numbered in the order in which they are written (the        *)
(* IngestID of a record is unique), and one record is one unit of size, so *)
(* a file is an interval of record numbers: [base |-> b, len |-> n] holds  *)
(* records b+1 .. b+n and an offset into it counts records.  Writes torn   *)
(* inside a record are the subject of module SpoolFile.                    *)
(***************************************************************************)
EXTENDS Integers, FiniteSets

CONSTANTS
  MaxRecords,       \* bound: records written in one behaviour
  MaxBatch,         \* bound: records of one AppendBatch
  MaxBytes,         \* spool.Spool.maxBytes; 0 is "no limit"
  RotateThreshold,  \* workerRotateThreshold
  MaxRetries,       \* workerMaxRetries
  MaxSegments,      \* bound: number of segment names
  MaxCrashes,       \* bound: stops of the process
  Faults            \* the environment failures that may happen, see FaultKinds

FaultKinds == {"transient", "badrecord", "deadletter", "cursorwrite", "commit",
               "delete", "rename", "reopen", "stat", "unreadable", "oscrash"}

ASSUME ConstantsAssumption ==
  /\ MaxRecords \in Nat
  /\ MaxBatch \in Nat \ {0}
  /\ MaxBytes \in Nat
  /\ RotateThreshold \in Nat
  /\ MaxRetries \in Nat \ {0}
  /\ MaxSegments \in Nat
  /\ MaxCrashes \in Nat
  /\ Faults \subseteq FaultKinds

Recs == 1..MaxRecords
Names == 1..MaxSegments
File == [base : Nat, len : Nat]
Position == [seg : 0..MaxSegments, off : Nat]   \* seg = 0 is the Segment ""
Zero == [seg |-> 0, off |-> 0]

VARIABLES
  \* history: inLife counts the stores of this life of the process
  written, crashes, inLife,
  \* what processing a record leaves behind
  persisted, deadLetter, dropped,
  \* the spool directory
  active, segments, cursor, survivors,
  \* the process: the Spool's file handle and the worker
  spoolOpen, pc, pos, cur, upto, stop, retryCounts, sweep, target

history == <<written, crashes, inLife>>
outcome == <<persisted, deadLetter, dropped>>
disk == <<active, segments, cursor, survivors>>
batch == <<cur, upto, stop>>
vars == <<history, outcome, disk, spoolOpen, pc, pos, batch, retryCounts, sweep, target>>

PCs == {"down", "boot", "bootsweep", "idle", "batch", "advance",
        "finish", "sweep", "rotate", "rename", "reopen"}

TypeOK ==
  /\ written \in 0..MaxRecords
  /\ crashes \in 0..MaxCrashes
  /\ persisted \in [Recs -> Nat]
  /\ inLife \in [Recs -> Nat]
  /\ deadLetter \in SUBSET Recs
  /\ dropped \in SUBSET Recs
  /\ active \in File
  /\ DOMAIN segments \in SUBSET Names
  /\ segments \in [DOMAIN segments -> File]
  /\ cursor \in Position
  /\ survivors \in SUBSET Position
  /\ spoolOpen \in BOOLEAN
  /\ pc \in PCs
  /\ pos \in Position
  /\ cur \in Nat
  /\ upto \in Nat
  /\ stop \in BOOLEAN
  /\ retryCounts \in [Recs -> 0..(MaxRetries - 1)]
  /\ sweep \in SUBSET Names
  /\ target \in 0..MaxSegments

-----------------------------------------------------------------------------
(* Files and positions. *)

Empty == [base |-> active.base, len |-> 0]

\* The file a position names (SegmentPath).  A missing file reads as empty.
FileOf(p) == IF p.seg = 0 THEN active
             ELSE IF p.seg \in DOMAIN segments THEN segments[p.seg] ELSE Empty

\* Mutant: the offset is ignored.
RereadsAll(p) == 0

\* Where ReadRecordsFrom starts: an offset past the end restarts the file.
ReadFrom(p) == IF p.off > FileOf(p).len THEN 0 ELSE p.off

\* The number of the record the worker is handling.
Current == FileOf(pos).base + cur + 1

\* Append and rotation run under Spool.mu, held from the commit of the new
\* segment's position until the fresh active segment is open.
Locked == pc \in {"rename", "reopen"}

\* Mutant: the threshold is one too large.
NeedsRotationLate == active.len > RotateThreshold + 1

NeedsRotation == active.len > RotateThreshold

Full(k) == MaxBytes > 0 /\ active.len + k > MaxBytes

\* WritePosition: atomically replaces cursor.json without an fsync, so after a
\* power loss any position written since the last commit may be on disk.
WritePosition(p) == /\ cursor' = p
                    /\ survivors' = survivors \cup {p}

\* Mutant: the commit forgets its fsyncs.
UnsyncedCommit(p) == WritePosition(p)

\* CommitPosition: the same, then fsync of the file and of the directory.
CommitPosition(p) == /\ cursor' = p
                     /\ survivors' = {p}

\* A failed commit either left the old cursor in place, or replaced it and
\* failed to fsync the directory.
CommitFails(p) == /\ "commit" \in Faults
                  /\ \/ UNCHANGED <<cursor, survivors>>
                     \/ WritePosition(p)

-----------------------------------------------------------------------------
Init ==
  /\ written = 0 /\ crashes = 0 /\ inLife = [r \in Recs |-> 0]
  /\ persisted = [r \in Recs |-> 0] /\ deadLetter = {} /\ dropped = {}
  /\ active = [base |-> 0, len |-> 0]
  /\ segments = [n \in {} |-> [base |-> 0, len |-> 0]]
  /\ cursor = Zero /\ survivors = {Zero}       \* a missing cursor reads as Zero
  /\ spoolOpen = TRUE /\ pc = "boot" /\ pos = Zero
  /\ cur = 0 /\ upto = 0 /\ stop = FALSE
  /\ retryCounts = [r \in Recs |-> 0]
  /\ sweep = {} /\ target = 0

\* Spool.Append / AppendBatch: k records in one write, then Sync.  When Sync
\* fails the caller is told so, but the records stay in the file: what is said
\* below of every written record holds of every accepted one.
Append(k) ==
  /\ pc # "down" /\ spoolOpen /\ ~Locked
  /\ ~Full(k)
  /\ written + k <= MaxRecords
  /\ written' = written + k
  /\ active' = [base |-> active.base, len |-> active.len + k]
  /\ UNCHANGED <<crashes, inLife, outcome, segments, cursor, survivors, spoolOpen,
                 pc, pos, batch, retryCounts, sweep, target>>

\* The process stops: a crash, a kill or the end of a shutdown.
Crash ==
  /\ pc # "down" /\ crashes < MaxCrashes
  /\ crashes' = crashes + 1 /\ inLife' = [r \in Recs |-> 0]
  /\ IF "oscrash" \in Faults
     THEN \E p \in survivors : cursor' = p /\ survivors' = {p}
     ELSE UNCHANGED <<cursor, survivors>>
  /\ pc' = "down" /\ spoolOpen' = FALSE /\ pos' = Zero
  /\ cur' = 0 /\ upto' = 0 /\ stop' = FALSE
  /\ retryCounts' = [r \in Recs |-> 0]
  /\ sweep' = {} /\ target' = 0
  /\ UNCHANGED <<written, outcome, active, segments>>

\* spool.NewWithLimit opens (or creates) the active segment.
Restart ==
  /\ pc = "down"
  /\ pc' = "boot" /\ spoolOpen' = TRUE
  /\ UNCHANGED <<history, outcome, disk, pos, batch, retryCounts, sweep, target>>

\* restorePosition, cursor readable.  A cursor naming a segment that does not
\* exist was committed before a rename that never happened.
Restore ==
  /\ pc = "boot"
  /\ pos' = IF cursor.seg \in DOMAIN segments \cup {0} THEN cursor
            ELSE [seg |-> 0, off |-> cursor.off]
  /\ sweep' = DOMAIN segments \ {pos'.seg}
  /\ pc' = "bootsweep"
  /\ UNCHANGED <<history, outcome, disk, spoolOpen, batch, retryCounts, target>>

\* restorePosition when the named segment cannot be checked: keep everything.
RestoreStatFails ==
  /\ pc = "boot" /\ "stat" \in Faults /\ cursor.seg # 0
  /\ pos' = cursor
  /\ pc' = "idle"
  /\ UNCHANGED <<history, outcome, disk, spoolOpen, batch, retryCounts, sweep, target>>

\* restorePosition when cursor.json cannot be read or decoded.
RestoreUnreadable ==
  /\ pc = "boot" /\ "unreadable" \in Faults
  /\ pos' = Zero
  /\ pc' = "idle"
  /\ UNCHANGED <<history, outcome, disk, spoolOpen, batch, retryCounts, sweep, target>>

\* One iteration of removeDrainedSegments.  Directory operations reach the
\* disk in the order they were issued, so the delete makes the cursor durable.
RemoveSegment(n) ==
  /\ pc \in {"sweep", "bootsweep"} /\ n \in sweep
  /\ sweep' = sweep \ {n}
  /\ \/ /\ segments' = [m \in DOMAIN segments \ {n} |-> segments[m]]
        /\ survivors' = {cursor}
     \/ /\ "delete" \in Faults
        /\ UNCHANGED <<segments, survivors>>
  /\ UNCHANGED <<history, outcome, active, cursor, spoolOpen, pc, pos, batch,
                 retryCounts, target>>

SweepDone ==
  /\ pc \in {"sweep", "bootsweep"} /\ sweep = {}
  /\ pc' = IF pc = "sweep" THEN "rotate" ELSE "idle"
  /\ UNCHANGED <<history, outcome, disk, spoolOpen, pos, batch, retryCounts, sweep, target>>

\* tick: read the records past the position, once, without the lock.
Tick ==
  /\ pc = "idle"
  /\ cur' = ReadFrom(pos) /\ upto' = FileOf(pos).len
  /\ pc' = "batch"
  /\ UNCHANGED <<history, outcome, disk, spoolOpen, pos, stop, retryCounts, sweep, target>>

\* Mutant: a drained segment is never finished.
NeverFinishes(drained) ==
  /\ pc' = IF pos.seg = 0 THEN "rotate" ELSE "idle"
  /\ cur' = 0 /\ upto' = 0 /\ stop' = FALSE

\* The rest of tick after its loop: a failure leaves `drained` false, and only
\* the active segment may be rotated.
LeaveLoop(drained) ==
  /\ pc' = IF pos.seg = 0 THEN "rotate" ELSE IF drained THEN "finish" ELSE "idle"
  /\ cur' = 0 /\ upto' = 0 /\ stop' = FALSE

\* processEntry, record stored (PersistProcessedEvent or CreateRelease).  What
\* is counted are the attempts that end well; one that fails below may have
\* committed a part of its work (EventSampling has the steps of one attempt).
Persist ==
  /\ pc = "batch" /\ cur < upto
  /\ persisted' = [persisted EXCEPT ![Current] = @ + 1]
  /\ inLife' = [inLife EXCEPT ![Current] = @ + 1]
  /\ pc' = "advance" /\ stop' = FALSE
  /\ UNCHANGED <<written, crashes, deadLetter, dropped, disk, spoolOpen, pos, cur, upto,
                 retryCounts, sweep, target>>

\* Mutant: the batch goes on with the next record.
TransientSkips ==
  /\ pc = "batch" /\ cur < upto /\ "transient" \in Faults
  /\ cur' = cur + 1
  /\ UNCHANGED <<history, outcome, disk, spoolOpen, pc, pos, upto, stop, retryCounts, sweep, target>>

\* A transient persist error, or a canceled context: no retry is spent.
Transient ==
  /\ pc = "batch" /\ cur < upto /\ "transient" \in Faults
  /\ LeaveLoop(FALSE)
  /\ UNCHANGED <<history, outcome, disk, spoolOpen, pos, retryCounts, sweep, target>>

\* Mutant: the retry budget is not compared.
FailRecordForever ==
  /\ pc = "batch" /\ cur < upto /\ "badrecord" \in Faults
  /\ retryCounts' = [retryCounts EXCEPT ![Current] = @ + 1]
  /\ LeaveLoop(FALSE)
  /\ UNCHANGED <<history, outcome, disk, spoolOpen, pos, sweep, target>>

\* failRecord below the retry budget.
FailRecord ==
  /\ pc = "batch" /\ cur < upto /\ "badrecord" \in Faults
  /\ retryCounts[Current] + 1 < MaxRetries
  /\ retryCounts' = [retryCounts EXCEPT ![Current] = @ + 1]
  /\ LeaveLoop(FALSE)
  /\ UNCHANGED <<history, outcome, disk, spoolOpen, pos, sweep, target>>

\* failRecord at the retry budget: dead-letter the record and advance past it,
\* also when the dead letter could not be written.
DeadLetter ==
  /\ pc = "batch" /\ cur < upto /\ "badrecord" \in Faults
  /\ retryCounts[Current] + 1 >= MaxRetries
  /\ \/ deadLetter' = deadLetter \cup {Current} /\ UNCHANGED dropped
     \/ /\ "deadletter" \in Faults
        /\ dropped' = dropped \cup {Current} /\ UNCHANGED deadLetter
  /\ pc' = "advance" /\ stop' = TRUE
  /\ UNCHANGED <<history, persisted, disk, spoolOpen, pos, cur, upto,
                 retryCounts, sweep, target>>

\* advanceCursor, from markProcessed or failRecord: the position in memory
\* moves on even when the cursor file could not be written.
Advance ==
  /\ pc = "advance"
  /\ retryCounts' = [retryCounts EXCEPT ![Current] = 0]
  /\ pos' = [seg |-> pos.seg, off |-> cur + 1]
  /\ \/ WritePosition(pos')
     \/ "cursorwrite" \in Faults /\ UNCHANGED <<cursor, survivors>>
  /\ IF stop THEN LeaveLoop(FALSE)
     ELSE cur' = cur + 1 /\ pc' = "batch" /\ UNCHANGED <<upto, stop>>
  /\ UNCHANGED <<history, outcome, active, segments, spoolOpen, sweep, target>>

BatchDone ==
  /\ pc = "batch" /\ cur >= upto
  /\ LeaveLoop(TRUE)
  /\ UNCHANGED <<history, outcome, disk, spoolOpen, pos, retryCounts, sweep, target>>

\* finishSegment: commit the start of the active segment, then sweep.
Finish ==
  /\ pc = "finish"
  /\ CommitPosition(Zero)
  /\ pos' = Zero
  /\ sweep' = DOMAIN segments
  /\ pc' = "sweep"
  /\ UNCHANGED <<history, outcome, active, segments, spoolOpen, batch, retryCounts, target>>

FinishFails ==
  /\ pc = "finish" /\ CommitFails(Zero)
  /\ pc' = "idle"
  /\ UNCHANGED <<history, outcome, active, segments, spoolOpen, pos, batch,
                 retryCounts, sweep, target>>

\* rotate: nothing to do, the closed file cannot be inspected, or no segment
\* name is free.
RotateSkipped ==
  /\ pc = "rotate"
  /\ ~spoolOpen \/ ~NeedsRotation \/ DOMAIN segments = Names
  /\ pc' = "idle"
  /\ UNCHANGED <<history, outcome, disk, spoolOpen, pos, batch, retryCounts, sweep, target>>

\* RotateIfExceedsAt up to the commit of a position naming the new segment.
RotateCommit(n) ==
  /\ pc = "rotate" /\ spoolOpen /\ NeedsRotation
  /\ n \notin DOMAIN segments
  /\ \/ /\ CommitPosition([seg |-> n, off |-> pos.off])
        /\ target' = n /\ pc' = "rename"
     \/ /\ CommitFails([seg |-> n, off |-> pos.off])
        /\ pc' = "idle" /\ UNCHANGED target
  /\ UNCHANGED <<history, outcome, active, segments, spoolOpen, pos, batch, retryCounts, sweep>>

\* rotateLockedTo, the rename.
Rename ==
  /\ pc = "rename"
  /\ segments' = [n \in DOMAIN segments \cup {target} |->
                    IF n = target THEN active ELSE segments[n]]
  /\ active' = [base |-> active.base + active.len, len |-> 0]
  /\ pc' = "reopen"
  /\ UNCHANGED <<history, outcome, cursor, survivors, spoolOpen, pos, batch,
                 retryCounts, sweep, target>>

\* rotateLockedTo when the close or the rename fails; the file is reopened if
\* that is possible.
RenameFails ==
  /\ pc = "rename" /\ "rename" \in Faults
  /\ spoolOpen' \in IF "reopen" \in Faults THEN BOOLEAN ELSE {TRUE}
  /\ pc' = "idle" /\ target' = 0
  /\ UNCHANGED <<history, outcome, disk, pos, batch, retryCounts, sweep>>

\* Mutant: the worker keeps its position on the active segment.
ReopenKeepsPosition ==
  /\ pc = "reopen"
  /\ pc' = "idle" /\ target' = 0
  /\ UNCHANGED <<history, outcome, disk, spoolOpen, pos, batch, retryCounts, sweep>>

\* rotateLockedTo, the fresh active segment, and the worker's switch to the
\* rotated one.
Reopen ==
  /\ pc = "reopen"
  /\ pos' = [seg |-> target, off |-> pos.off]
  /\ pc' = "idle" /\ target' = 0
  /\ UNCHANGED <<history, outcome, disk, spoolOpen, batch, retryCounts, sweep>>

ReopenFails ==
  /\ pc = "reopen" /\ "reopen" \in Faults
  /\ spoolOpen' = FALSE
  /\ pc' = "idle" /\ target' = 0
  /\ UNCHANGED <<history, outcome, disk, pos, batch, retryCounts, sweep>>

Work ==
  \/ Restore \/ RestoreStatFails \/ RestoreUnreadable
  \/ (\E n \in Names : RemoveSegment(n)) \/ SweepDone
  \/ Tick \/ Transient \/ FailRecord \/ DeadLetter \/ Persist \/ Advance \/ BatchDone
  \/ Finish \/ FinishFails
  \/ RotateSkipped \/ (\E n \in Names : RotateCommit(n))
  \/ Rename \/ RenameFails \/ Reopen \/ ReopenFails

Next == (\E k \in 1..MaxBatch : Append(k)) \/ Crash \/ Restart \/ Work

Spec == Init /\ [][Next]_vars

\* The worker goroutine keeps running, a stopped process is restarted by its
\* supervisor, and lock contention ends by itself (isTransientPersistError),
\* so a record that is tried for ever is stored or fails for good.
Fairness == /\ WF_vars(Work) /\ WF_vars(Restart)
            /\ SF_vars(Persist \/ DeadLetter)
            /\ SF_vars(Finish)
            /\ SF_vars(\E n \in Names : RotateCommit(n) /\ pc' = "rename")
            /\ SF_vars(Rename)
FairSpec == Spec /\ Fairness

-----------------------------------------------------------------------------
(* Properties. *)

Handled == {r \in Recs : persisted[r] > 0} \cup deadLetter \cup dropped


Unhandled == (1..written) \ Handled

\* Where restorePosition resumes when it finds p in cursor.json.
RestartPos(p) == IF p.seg \in DOMAIN segments \cup {0} THEN p
                 ELSE [seg |-> 0, off |-> p.off]

\* The records a worker at position p has still to read.
WillRead(p) ==
  (FileOf(p).base + ReadFrom(p) + 1)..(FileOf(p).base + FileOf(p).len)
    \cup (IF p.seg = 0 THEN {} ELSE (active.base + 1)..(active.base + active.len))

\* Mutant: the active segment is not counted while a rotated one drains.
BacklogOfSegment(p) ==
  LET rest == FileOf(p).len - p.off IN IF rest > 0 THEN rest ELSE 0

\* pendingRecords and ReadBacklog compute the same number from the position in
\* memory and from the cursor on disk; a missing segment counts as size 0.
Backlog(p) ==
  LET rest == FileOf(p).len - p.off IN
  (IF rest > 0 THEN rest ELSE 0) + (IF p.seg = 0 THEN 0 ELSE active.len)

\* No accepted record is silently dropped by a stop of the process: whatever
\* cursor the stop leaves on disk, every record not handled yet is one the
\* restarted worker will read (the two orderings of segments.go).
NothingLost ==
  \A p \in survivors : Unhandled \subseteq WillRead(RestartPos(p))

\* A segment is deleted only when it is drained: a record not handled yet stays
\* in some file of the spool directory.
KeptUntilHandled ==
  \A r \in Unhandled :
    \/ r > active.base
    \/ \E n \in DOMAIN segments : r \in (segments[n].base + 1)..(segments[n].base + segments[n].len)

\* The running worker's own position never passes a record it has not handled,
\* through batches, failed cursor writes, rotations and segment switches.
NothingSkipped ==
  pc \notin {"down", "boot", "reopen"} /\ spoolOpen => Unhandled \subseteq WillRead(pos)

\* Records are handled in the order they were written: one that is stored or
\* dead-lettered was preceded by every older record.
HandledInOrder ==
  \A r \in Handled : \A j \in 1..(r - 1) : j \in Handled

\* One life of the process never stores a record a second time, and does not
\* so much as try to: once an attempt at a record has ended well, no other
\* attempt at it, well ended or failed, begins before the next start.
StoredOncePerLife ==
  /\ \A r \in Recs : inLife[r] <= 1
  /\ pc = "batch" /\ cur < upto => inLife[Current] = 0

\* The backlog a reader pod computes from the files never hides work: it is at
\* least the number of records not handled (ReadBacklog).
BacklogCoversUnhandled ==
  Cardinality(Unhandled) <= Backlog(cursor)

\* Every record written to the spool is eventually stored or given up on.
EveryRecordHandled ==
  \A r \in Recs : r <= written ~> r \in Handled

\* Backpressure ends: a spool that answers ErrFull accepts records again once
\* the worker has caught up.
BackpressureLifts == Full(1) ~> ~Full(1)

\* A failed rotation does not stop ingest for good: the comment in
\* rotateLockedTo says appends keep working and the next tick retries.
AppendsKeepWorking == (pc = "idle" /\ ~spoolOpen) ~> spoolOpen

\* The spool implements an ordered at-least-once queue.
Queue == INSTANCE AtLeastOnceQueue WITH submitted <- written, done <- Handled
ImplementsQueue == Queue!QSpec

\* The spool keeps moving: every record is handled and a full spool accepts
\* records again.
SpoolKeepsMoving == EveryRecordHandled /\ BackpressureLifts
=============================================================================
