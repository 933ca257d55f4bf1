----------------------------- MODULE Checkpoint -----------------------------
(***************************************************************************)
(* The WAL checkpoint loop of the writer (internal/storage/checkpoint.go)  *)
(* against the snapshots that reader processes hold on the same file, and  *)
(* the readers' retries while the wal-index needs recovery                 *)
(* (readonly_recovery.go, readonly_driver.go).  The loop is the only       *)
(* checkpointer.  One unit of time is about ten seconds: a truncating      *)
(* attempt's own busy timeout is shorter than that, the backstop's longer. *)
(***************************************************************************)
EXTENDS Integers, FiniteSets, FiniteSetsExt

CONSTANTS
  CkReaders,
  CkInterval, TickBudget, RetryEvery,     \* checkpoint interval, budget of a tick, pause between attempts
  TruncateEvery, BackstopAfter, BackstopFrames, BackstopWait,
  SnapshotMax,                            \* how long a reader keeps a snapshot
  RecoveryTries,                          \* attempts of a read, the first one included
  CkMaxTime, CkMaxFaults                  \* bounds

ASSUME CkAssumption ==
  /\ {CkInterval, TickBudget, RetryEvery, TruncateEvery, BackstopAfter, BackstopWait, RecoveryTries} \subseteq Nat \ {0}
  /\ {BackstopFrames, SnapshotMax} \subseteq Nat

VARIABLES
  ckNow, ckDue,         \* the clock, and when the ticker fires next
  ckTick, ckFailed,     \* ticks of the loop, failedTruncates
  ckWal, ckBack,        \* frames in the WAL, and how many of them are in the database file
  ckWrote,              \* the ingest workload committed in this unit of time
  ckSnap,               \* per reader: its snapshot
  ckLoop,               \* the loop: what it is at, when it gives up, when its attempt gives up
  ckTimeout,            \* busy_timeout of the single write connection
  ckIndex,              \* the wal-index: usable, or in need of the writer's recovery
  ckSlack,              \* history: frames excused by errors and restarts
  ckFaults

ckVars == <<ckNow, ckDue, ckTick, ckFailed, ckWal, ckBack, ckWrote, ckSnap, ckLoop, ckTimeout, ckIndex, ckSlack, ckFaults>>

NoSnapshot == [pc |-> "none", mark |-> 0, onFile |-> FALSE, since |-> 0, tries |-> 0]
Asleep == [pc |-> "idle", until |-> 0, giveUp |-> 0]
Reading == {r \in CkReaders : ckSnap[r].pc = "open"}

LongTimeout == BackstopWait + 1   \* of a new connection

\* Frames the workload writes between two truncating ticks.
Period == TruncateEvery * CkInterval

----------------------------------------------------------------------------
\* Readers (SQLite's side of a snapshot is external)

\* A read takes the newest snapshot.  With everything in the file it reads the
\* file alone, and then keeps new frames from being copied.
ReadBegins(r) ==
  /\ ckSnap[r].pc \in {"none", "retrying"} /\ ckIndex = "usable"
  /\ ckSnap' = [ckSnap EXCEPT ![r] = [pc |-> "open", mark |-> ckWal, onFile |-> ckBack = ckWal, since |-> ckNow, tries |-> 0]]
  /\ UNCHANGED <<ckNow, ckDue, ckTick, ckFailed, ckWal, ckBack, ckWrote, ckLoop, ckTimeout, ckIndex, ckSlack, ckFaults>>

\* retryReadonlyRecovery: a read that meets an index in need of recovery is
\* tried again a few times, then fails.
ReadMeetsRecovery(r) ==
  /\ ckSnap[r].pc \in {"none", "retrying"} /\ ckIndex = "broken"
  /\ ckSnap' = [ckSnap EXCEPT ![r].tries = @ + 1, ![r].pc = IF ckSnap[r].tries + 1 = RecoveryTries THEN "failed" ELSE "retrying"]
  /\ UNCHANGED <<ckNow, ckDue, ckTick, ckFailed, ckWal, ckBack, ckWrote, ckLoop, ckTimeout, ckIndex, ckSlack, ckFaults>>

\* The rows are closed, or the failure was the request's answer.
ReadEnds(r) ==
  /\ ckSnap[r].pc \in {"open", "failed"}
  /\ ckSnap' = [ckSnap EXCEPT ![r] = NoSnapshot]
  /\ UNCHANGED <<ckNow, ckDue, ckTick, ckFailed, ckWal, ckBack, ckWrote, ckLoop, ckTimeout, ckIndex, ckSlack, ckFaults>>

----------------------------------------------------------------------------
\* The write connection

\* Ingest commits while no checkpoint has the connection.
Commit ==
  /\ ckLoop.pc \in {"idle", "pause", "vacuum"} /\ ~ckWrote
  /\ ckWal' = ckWal + 1 /\ ckWrote' = TRUE /\ ckIndex' = "usable"
  /\ UNCHANGED <<ckNow, ckDue, ckTick, ckFailed, ckBack, ckSnap, ckLoop, ckTimeout, ckSlack, ckFaults>>

\* How far a checkpoint can copy: to the oldest snapshot.
Copied == Min({ckWal} \cup {ckSnap[r].mark : r \in Reading})

\* The WAL can be cut: all of it is copied and nobody reads from it.
Cuttable == Copied = ckWal /\ \A r \in Reading : ckSnap[r].onFile

CkTickTime ==
  /\ ckNow < CkMaxTime
  /\ \A r \in Reading : ckNow - ckSnap[r].since < SnapshotMax
  /\ ckLoop.pc = "idle" => ckNow < ckDue
  /\ ckLoop.pc = "pause" => ckNow < ckLoop.until
  /\ ckLoop.pc \in {"idle", "pause", "backstop"}
  /\ ckLoop.pc = "backstop" => ~Cuttable /\ ckBack = Copied /\ ckNow < ckLoop.giveUp
  /\ ckNow' = ckNow + 1 /\ ckWrote' = FALSE
  /\ UNCHANGED <<ckDue, ckTick, ckFailed, ckWal, ckBack, ckSnap, ckLoop, ckTimeout, ckIndex, ckSlack, ckFaults>>

Cut == /\ ckWal' = 0 /\ ckBack' = 0
       /\ ckSnap' = [r \in CkReaders |-> IF r \in Reading THEN [ckSnap[r] EXCEPT !.mark = 0] ELSE ckSnap[r]]

CopyOnly == ckBack' = Copied /\ UNCHANGED <<ckWal, ckSnap>>

\* The ticker drops what a slow tick missed.
NextTick == ckDue + CkInterval * ((ckNow - ckDue) \div CkInterval + 1)

\* checkpointTick: a passive checkpoint, or the start of a truncating one.
TickPassive ==
  /\ ckLoop.pc = "idle" /\ ckNow >= ckDue
  /\ ckTick' = ckTick + 1 /\ ckDue' = NextTick
  /\ ckTick' % TruncateEvery # 0
  /\ CopyOnly
  /\ ckLoop' = [Asleep EXCEPT !.pc = "vacuum"]
  /\ UNCHANGED <<ckNow, ckFailed, ckWrote, ckTimeout, ckIndex, ckSlack, ckFaults>>

\* checkpointAttempt takes the connection and replaces its busy timeout.
Attempt(pc, timeout, deadline) ==
  /\ ckLoop' = [pc |-> pc, until |-> deadline, giveUp |-> ckNow + timeout]
  /\ ckTimeout' = timeout

TickTruncate ==
  /\ ckLoop.pc = "idle" /\ ckNow >= ckDue
  /\ ckTick' = ckTick + 1 /\ ckDue' = NextTick
  /\ ckTick' % TruncateEvery = 0
  /\ Attempt("truncate", 0, ckNow + TickBudget)
  /\ UNCHANGED <<ckNow, ckFailed, ckWal, ckBack, ckWrote, ckSnap, ckIndex, ckSlack, ckFaults>>

\* The deferred restore: the old timeout again, or a new connection that has it.
Restored == LongTimeout

\* truncateWithRetry
TruncateWorks ==
  /\ ckLoop.pc = "truncate" /\ Cuttable
  /\ Cut
  /\ ckFailed' = 0 /\ ckTimeout' = Restored
  /\ ckLoop' = [Asleep EXCEPT !.pc = "vacuum"]
  /\ UNCHANGED <<ckNow, ckDue, ckTick, ckWrote, ckIndex, ckSlack, ckFaults>>

TruncateBlocked ==
  /\ ckLoop.pc = "truncate" /\ ~Cuttable
  /\ CopyOnly
  /\ ckTimeout' = Restored
  /\ IF ckNow + RetryEvery < ckLoop.until
     THEN ckLoop' = [pc |-> "pause", until |-> ckNow + RetryEvery, giveUp |-> ckLoop.until] /\ UNCHANGED ckFailed
     ELSE ckLoop' = [Asleep EXCEPT !.pc = "failed"] /\ ckFailed' = ckFailed + 1
  /\ UNCHANGED <<ckNow, ckDue, ckTick, ckWrote, ckIndex, ckSlack, ckFaults>>

TruncateAgain ==
  /\ ckLoop.pc = "pause" /\ ckNow >= ckLoop.until
  /\ Attempt("truncate", 0, ckLoop.giveUp)
  /\ UNCHANGED <<ckNow, ckDue, ckTick, ckFailed, ckWal, ckBack, ckWrote, ckSnap, ckIndex, ckSlack, ckFaults>>

\* The pragma fails: the tick is over without a truncation.
AttemptFails ==
  /\ ckLoop.pc \in {"truncate", "backstop"} /\ ckFaults < CkMaxFaults
  /\ ckFaults' = ckFaults + 1 /\ ckSlack' = ckSlack + Period + TickBudget
  /\ ckTimeout' = Restored
  /\ ckFailed' = IF ckLoop.pc = "truncate" THEN ckFailed + 1 ELSE ckFailed
  /\ ckLoop' = [Asleep EXCEPT !.pc = IF ckLoop.pc = "truncate" THEN "failed" ELSE "vacuum"]
  /\ UNCHANGED <<ckNow, ckDue, ckTick, ckWal, ckBack, ckWrote, ckSnap, ckIndex>>

\* Mutant: the backstop comes two failed ticks late.
BackstopLate == ckFailed > BackstopAfter + 1 /\ ckWal > BackstopFrames

\* backstop: enough failed ticks and a large WAL.
BackstopDue == ckFailed >= BackstopAfter /\ ckWal > BackstopFrames

TickFailed ==
  /\ ckLoop.pc = "failed"
  /\ IF BackstopDue THEN Attempt("backstop", BackstopWait, 0)
     ELSE ckLoop' = [Asleep EXCEPT !.pc = "vacuum"] /\ UNCHANGED ckTimeout
  /\ UNCHANGED <<ckNow, ckDue, ckTick, ckFailed, ckWal, ckBack, ckWrote, ckSnap, ckIndex, ckSlack, ckFaults>>

\* The long wait copies what it can whenever a reader leaves; new readers of a
\* copied WAL read the file and are not waited for.
BackstopCopies ==
  /\ ckLoop.pc = "backstop" /\ ~Cuttable /\ ckBack # Copied
  /\ CopyOnly
  /\ UNCHANGED <<ckNow, ckDue, ckTick, ckFailed, ckWrote, ckLoop, ckTimeout, ckIndex, ckSlack, ckFaults>>

BackstopWorks ==
  /\ ckLoop.pc = "backstop" /\ Cuttable
  /\ Cut
  /\ ckFailed' = 0 /\ ckTimeout' = Restored
  /\ ckLoop' = [Asleep EXCEPT !.pc = "vacuum"]
  /\ UNCHANGED <<ckNow, ckDue, ckTick, ckWrote, ckIndex, ckSlack, ckFaults>>

BackstopBlocked ==
  /\ ckLoop.pc = "backstop" /\ ~Cuttable /\ ckNow >= ckLoop.giveUp
  /\ CopyOnly
  /\ ckTimeout' = Restored
  /\ ckLoop' = [Asleep EXCEPT !.pc = "vacuum"]
  /\ UNCHANGED <<ckNow, ckDue, ckTick, ckFailed, ckWrote, ckIndex, ckSlack, ckFaults>>

\* incrementalVacuum closes the tick; the pages it moves are frames as well.
Vacuum(frames) ==
  /\ ckLoop.pc = "vacuum"
  /\ frames = 1 => ~ckWrote
  /\ ckWal' = ckWal + frames /\ ckWrote' = (ckWrote \/ frames = 1)
  /\ ckLoop' = Asleep
  /\ UNCHANGED <<ckNow, ckDue, ckTick, ckFailed, ckBack, ckSnap, ckTimeout, ckIndex, ckSlack, ckFaults>>

Restarted ==
  /\ ckDue' = ckNow + CkInterval /\ ckTick' = 0 /\ ckFailed' = 0 /\ ckLoop' = Asleep
  /\ ckTimeout' = Restored /\ ckFaults' = ckFaults + 1
  /\ ckSlack' = ckSlack + BackstopAfter * Period + TickBudget

\* FinalCheckpoint: one attempt at a clean stop, then the next process.
StopAndStart ==
  /\ ckFaults < CkMaxFaults /\ ckLoop.pc = "idle"
  /\ IF Cuttable THEN Cut ELSE CopyOnly
  /\ Restarted
  /\ UNCHANGED <<ckNow, ckWrote, ckIndex>>

\* The writer dies: nothing is checkpointed, and until its next commit the
\* readers may find an index they cannot recover themselves.
WriterCrash ==
  /\ ckFaults < CkMaxFaults
  /\ Restarted
  /\ ckIndex' \in {"usable", "broken"}
  /\ UNCHANGED <<ckNow, ckWal, ckBack, ckWrote, ckSnap>>

CkInit ==
  /\ ckNow = 0 /\ ckDue = CkInterval /\ ckTick = 0 /\ ckFailed = 0 /\ ckWal = 0 /\ ckBack = 0
  /\ ckWrote = FALSE /\ ckSnap = [r \in CkReaders |-> NoSnapshot] /\ ckLoop = Asleep
  /\ ckTimeout = LongTimeout /\ ckIndex = "usable" /\ ckSlack = 0 /\ ckFaults = 0

CkNext ==
  \/ \E r \in CkReaders : ReadBegins(r) \/ ReadMeetsRecovery(r) \/ ReadEnds(r)
  \/ Commit \/ CkTickTime \/ TickPassive \/ TickTruncate \/ TruncateWorks \/ TruncateBlocked \/ TruncateAgain
  \/ AttemptFails \/ TickFailed \/ BackstopCopies \/ BackstopWorks \/ BackstopBlocked
  \/ \E frames \in {0, 1} : Vacuum(frames)
  \/ StopAndStart \/ WriterCrash

CkSpec == CkInit /\ [][CkNext]_ckVars

----------------------------------------------------------------------------
\* Correctness

\* However the readers' snapshots overlap, the WAL stays bounded: by what is
\* written until the backstop may run, plus what errors and restarts excuse.
\* (Snapshots shorter than half the backstop's wait, and a tick's budget within
\* the interval, of which it is a sixth by default.)
WalBounded ==
  2 * SnapshotMax < BackstopWait /\ TickBudget <= CkInterval =>
    ckWal <= Max({BackstopAfter * Period, BackstopFrames + Period}) + TickBudget + ckSlack
=============================================================================
