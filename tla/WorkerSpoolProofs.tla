------------------------- MODULE WorkerSpoolProofs -------------------------
(***************************************************************************)
(* Proofs about WorkerSpool, for every value of its constants.             *)
(*                                                                         *)
(* NothingLost is not inductive: it says where the unhandled records are,  *)
(* not why a delete or a rotation leaves them there.  The invariant below  *)
(* adds that a position (in memory, or any that a power loss may leave on  *)
(* disk) is Safe: everything before it is handled, it lies inside its      *)
(* file, and a rotated segment it names ends where the active one starts.  *)
(***************************************************************************)
EXTENDS WorkerSpool, TLAPS

Before(n) == \A r \in 1..written : r <= n => r \in Handled

\* Resuming at p (see RestartPos) would skip nothing.
Safe(p) ==
  IF p.seg \in DOMAIN segments
  THEN /\ segments[p.seg].base + segments[p.seg].len = active.base
       /\ p.off <= segments[p.seg].len
       /\ Before(segments[p.seg].base + p.off)
  ELSE /\ p.off <= active.len
       /\ Before(active.base + p.off)

\* The active segment holds the newest records.
FilesInv ==
  /\ active.base + active.len = written
  /\ \A n \in DOMAIN segments : segments[n].base + segments[n].len <= active.base

DiskInv == /\ cursor \in survivors
           /\ \A p \in survivors : Safe(p)

LiveInv == pc \notin {"down", "boot", "reopen"} /\ spoolOpen => Safe(pos)

\* After a failed reopen the worker may be lost, but there is nothing to read.
ClosedInv ==
  pc # "down" /\ ~spoolOpen =>
    /\ pos.seg = 0 /\ pc \in {"idle", "batch", "advance", "rotate"}
    /\ Safe(pos) \/ (active.len = 0 /\ pc # "advance")

BatchInv ==
  pc \in {"batch", "advance"} =>
    \/ pc = "batch" /\ upto = 0 /\ cur = 0 /\ pos.seg \notin DOMAIN segments
    \/ /\ Safe(pos) /\ pos.seg \in DOMAIN segments \cup {0}
       /\ cur = pos.off /\ cur <= upto
       /\ pos.seg # 0 => upto = segments[pos.seg].len
       /\ pc = "advance" => Current \in Handled

PcInv ==
  /\ pc = "rotate" => pos.seg = 0
  /\ pc = "finish" => pos.seg # 0 /\ Before(active.base)
  /\ pc \in {"sweep", "bootsweep"} => pos = RestartPos(cursor) /\ pos.seg \notin sweep
  /\ pc = "sweep" => pos = Zero
  /\ pc = "rename" => /\ pos.seg = 0 /\ spoolOpen
                      /\ target \notin DOMAIN segments
                      /\ survivors = {[seg |-> target, off |-> pos.off]}
  /\ pc = "reopen" => /\ pos.seg = 0 /\ spoolOpen
                      /\ target \in DOMAIN segments /\ active.len = 0
                      /\ Safe([seg |-> target, off |-> pos.off])

\* What the type invariant needs: a record the worker handles has been written,
\* what a rotation creates has a name.
ReadInv ==
  /\ pc \in {"batch", "advance"} => upto <= FileOf(pos).len
  /\ pc = "advance" => cur < upto
  /\ pc = "rename" => target \in Names

TypeInv == TypeOK /\ FilesInv /\ ReadInv

IInv == /\ TypeInv /\ DiskInv /\ LiveInv /\ ClosedInv /\ BatchInv /\ PcInv
        /\ HandledInOrder

-----------------------------------------------------------------------------
(* Type correctness. *)

\* The fields of files and positions.
LEMMA FileFacts ==
  /\ \A f \in File : f.base \in Nat /\ f.len \in Nat
  /\ \A b, l \in Nat : [base |-> b, len |-> l] \in File
BY DEF File

\* What a position is.
LEMMA PositionFacts ==
  /\ \A p \in Position : p.seg \in 0..MaxSegments /\ p.off \in Nat
  /\ \A s \in 0..MaxSegments, o \in Nat : [seg |-> s, off |-> o] \in Position
  /\ Zero \in Position
BY ConstantsAssumption DEF Position, Zero

\* A record the worker is handling is one that was written.
LEMMA CurrentIsWritten ==
  ASSUME TypeInv, pc \in {"batch", "advance"}, cur < upto
  PROVE  Current \in 1..written /\ Current \in Recs
<1>1. /\ active.base \in Nat /\ active.len \in Nat
      /\ cur \in Nat /\ upto \in Nat /\ written \in 0..MaxRecords
      /\ \A n \in DOMAIN segments : segments[n].base \in Nat /\ segments[n].len \in Nat
  BY FileFacts DEF TypeInv, TypeOK
<1> QED
  BY <1>1, ConstantsAssumption DEF TypeInv, FilesInv, ReadInv, Current, FileOf, Empty, Recs

\* The initial state of the spool and the worker is well typed.
LEMMA TypeInit == Init => TypeInv
<1> SUFFICES ASSUME Init PROVE TypeInv
  OBVIOUS
<1>1. DOMAIN segments = {} /\ segments \in [DOMAIN segments -> File]
  BY DEF Init
<1>2. active \in File /\ active.base = 0 /\ active.len = 0
  BY FileFacts DEF Init
<1>3. persisted \in [Recs -> Nat] /\ inLife \in [Recs -> Nat] /\ retryCounts \in [Recs -> 0..(MaxRetries - 1)]
  BY ConstantsAssumption DEF Init
<1>4. spoolOpen \in BOOLEAN /\ stop \in BOOLEAN
  BY Zenon DEF Init
<1> QED
  BY <1>1, <1>2, <1>3, <1>4, ConstantsAssumption, PositionFacts DEF Init, TypeInv, TypeOK, FilesInv, ReadInv, PCs

\* No step of a handler, of the worker or of the environment leaves the types.
LEMMA TypeStep == TypeInv /\ [Next]_vars => TypeInv'
<1> SUFFICES ASSUME TypeInv, [Next]_vars PROVE TypeInv'
  OBVIOUS
<1> USE ConstantsAssumption, FileFacts, PositionFacts DEF TypeInv, TypeOK, FilesInv, ReadInv, Names, PCs, FileOf, Empty
<1>1. ASSUME NEW k \in 1..MaxBatch, Append(k) PROVE TypeInv'
  BY <1>1 DEF Append, outcome, batch
<1>2. CASE Crash
  <2>1. retryCounts' \in [Recs -> 0..(MaxRetries - 1)]
    BY <1>2 DEF Crash
  <2>2. cursor' \in Position /\ survivors' \in SUBSET Position
    BY <1>2 DEF Crash
  <2>3. spoolOpen' \in BOOLEAN /\ stop' \in BOOLEAN
    BY <1>2, Zenon DEF Crash
  <2> QED
    BY <1>2, <2>1, <2>2, <2>3 DEF Crash, outcome
<1>3. CASE Restart
  BY <1>3 DEF Restart, history, outcome, disk, batch
<1>4. CASE Restore
  BY <1>4 DEF Restore, history, outcome, disk, batch
<1>5. CASE RestoreStatFails \/ RestoreUnreadable
  BY <1>5 DEF RestoreStatFails, RestoreUnreadable, history, outcome, disk, batch, Zero
<1>6. ASSUME NEW n \in Names, RemoveSegment(n) PROVE TypeInv'
  BY <1>6 DEF RemoveSegment, history, outcome, batch
<1>7. CASE SweepDone
  BY <1>7 DEF SweepDone, history, outcome, disk, batch
<1>8. CASE Tick
  BY <1>8 DEF Tick, ReadFrom, history, outcome, disk
<1>9. CASE Persist
  <2>1. Current \in Recs
    BY <1>9, CurrentIsWritten DEF Persist
  <2>2. persisted' \in [Recs -> Nat] /\ inLife' \in [Recs -> Nat]
    BY <1>9, <2>1 DEF Persist
  <2> QED
    BY <1>9, <2>2 DEF Persist, history, disk
<1>10. CASE Transient
  BY <1>10 DEF Transient, LeaveLoop, history, outcome, disk
<1>11. CASE FailRecord
  <2>1. Current \in Recs
    BY <1>11, CurrentIsWritten DEF FailRecord
  <2>2. retryCounts' \in [Recs -> 0..(MaxRetries - 1)]
    BY <1>11, <2>1 DEF FailRecord
  <2> QED
    BY <1>11, <2>2 DEF FailRecord, LeaveLoop, history, outcome, disk
<1>12. CASE DeadLetter
  <2>1. Current \in Recs
    BY <1>12, CurrentIsWritten DEF DeadLetter
  <2> QED
    BY <1>12, <2>1 DEF DeadLetter, history, disk
<1>13. CASE Advance
  <2>1. retryCounts' \in [Recs -> 0..(MaxRetries - 1)]
    <3>1. Current \in Recs
      BY <1>13, CurrentIsWritten DEF Advance
    <3> QED
      BY <1>13, <3>1 DEF Advance
  <2>2. pos' \in Position /\ pos'.seg = pos.seg /\ cursor' \in Position /\ survivors' \in SUBSET Position
    BY <1>13 DEF Advance, WritePosition
  <2>3. stop' \in BOOLEAN
    BY <1>13, Zenon DEF Advance, LeaveLoop
  <2> QED
    BY <1>13, <2>1, <2>2, <2>3 DEF Advance, LeaveLoop, history, outcome
<1>14. CASE BatchDone
  BY <1>14 DEF BatchDone, LeaveLoop, history, outcome, disk
<1>15. CASE Finish \/ FinishFails
  BY <1>15 DEF Finish, FinishFails, CommitPosition, CommitFails, WritePosition, Zero, history, outcome, batch
<1>16. CASE RotateSkipped
  BY <1>16 DEF RotateSkipped, history, outcome, disk, batch
<1>17. ASSUME NEW n \in Names, RotateCommit(n) PROVE TypeInv'
  BY <1>17 DEF RotateCommit, CommitPosition, CommitFails, WritePosition, history, outcome, batch
<1>18. CASE Rename
  <2>1. DOMAIN segments' = DOMAIN segments \cup {target}
    BY <1>18 DEF Rename
  <2> QED
    BY <1>18, <2>1 DEF Rename, history, outcome, batch
<1>19. CASE RenameFails
  <2>1. spoolOpen' \in BOOLEAN
    BY <1>19 DEF RenameFails
  <2> QED
    BY <1>19, <2>1 DEF RenameFails, history, outcome, disk, batch
<1>20. CASE Reopen \/ ReopenFails
  <2>1. pos' \in Position /\ pc' = "idle"
    BY <1>20 DEF Reopen, ReopenFails
  <2>2. spoolOpen' \in BOOLEAN
    BY <1>20, Zenon DEF Reopen, ReopenFails
  <2> QED
    BY <1>20, <2>1, <2>2 DEF Reopen, ReopenFails, history, outcome, disk, batch
<1>21. CASE UNCHANGED vars
  BY <1>21 DEF vars, history, outcome, disk, batch
<1> QED
  BY <1>1, <1>2, <1>3, <1>4, <1>5, <1>6, <1>7, <1>8, <1>9, <1>10, <1>11, <1>12, <1>13, <1>14,
     <1>15, <1>16, <1>17, <1>18, <1>19, <1>20, <1>21 DEF Next, Work

\* The type invariant of the spool and its worker holds in every behaviour,
\* whatever the environment does.
THEOREM TypeCorrect == Spec => []TypeOK
<1>1. TypeInv => TypeOK
  BY DEF TypeInv
<1> QED
  BY <1>1, TypeInit, TypeStep, PTL DEF Spec

-----------------------------------------------------------------------------
(* Nothing is lost, skipped or handled out of order, as long as the cursor   *)
(* file can be read at start.                                                *)

\* The arithmetic content of the type invariant.
LEMMA Numbers ==
  ASSUME TypeInv
  PROVE  /\ written \in Nat /\ cur \in Nat /\ upto \in Nat
         /\ active.base \in Nat /\ active.len \in Nat
         /\ active.base + active.len = written
         /\ pos.seg \in Nat /\ pos.off \in Nat /\ cursor.seg \in Nat /\ cursor.off \in Nat
         /\ 0 \notin DOMAIN segments
         /\ \A n \in DOMAIN segments : /\ segments[n].base \in Nat /\ segments[n].len \in Nat
                                       /\ segments[n].base + segments[n].len <= active.base
         /\ \A p \in survivors : p.seg \in Nat /\ p.off \in Nat
<1>1. \A n \in DOMAIN segments : segments[n].base \in Nat /\ segments[n].len \in Nat
  BY FileFacts DEF TypeInv, TypeOK
<1>2. \A p \in survivors : p.seg \in Nat /\ p.off \in Nat
  BY PositionFacts DEF TypeInv, TypeOK
<1>3. pos.seg \in Nat /\ pos.off \in Nat /\ cursor.seg \in Nat /\ cursor.off \in Nat
  BY PositionFacts DEF TypeInv, TypeOK
<1>4. active.base \in Nat /\ active.len \in Nat
  BY FileFacts DEF TypeInv, TypeOK
<1>5. 0 \notin DOMAIN segments
  BY ConstantsAssumption DEF TypeInv, TypeOK, Names
<1> QED
  BY <1>1, <1>2, <1>3, <1>4, <1>5, ConstantsAssumption DEF TypeInv, TypeOK, FilesInv

\* A step that records no outcome leaves the set of handled records alone.
LEMMA HandledSame == UNCHANGED outcome => Handled' = Handled
BY DEF outcome, Handled

\* The initial state satisfies the inductive invariant.
LEMMA IInit == Init => IInv
<1> SUFFICES ASSUME Init PROVE IInv
  OBVIOUS
<1>1. TypeInv
  BY TypeInit
<1>2. DOMAIN segments = {} /\ active.base = 0 /\ active.len = 0 /\ written = 0
  BY DEF Init
<1>3. Handled = {}
  BY DEF Init, Handled
<1>4. Safe(Zero)
  BY <1>2 DEF Safe, Zero, Before
<1> QED
  BY <1>1, <1>2, <1>3, <1>4 DEF Init, IInv, DiskInv, LiveInv, ClosedInv, BatchInv, PcInv, HandledInOrder

\* Storing or dead-lettering a record completes the oldest one not handled, or
\* one that was handled before.
LEMMA CompletesCurrent ==
  ASSUME IInv, Persist \/ DeadLetter
  PROVE  /\ Current \in 1..written
         /\ Handled' = Handled \cup {Current}
         /\ Before(Current - 1)
<1>1. TypeInv /\ pc = "batch" /\ cur < upto
  BY DEF IInv, Persist, DeadLetter
<1>2. Current \in 1..written /\ Current \in Recs
  BY <1>1, CurrentIsWritten
<1>3. Handled' = Handled \cup {Current}
  <2>1. CASE Persist
    BY <1>1, <1>2, <2>1 DEF Persist, Handled, TypeInv, TypeOK
  <2>2. CASE DeadLetter
    BY <2>2 DEF DeadLetter, Handled
  <2> QED
    BY <2>1, <2>2
<1>4. Before(Current - 1)
  BY <1>1, Numbers DEF IInv, BatchInv, Safe, Current, FileOf, Empty
<1> QED
  BY <1>2, <1>3, <1>4

\* Every step preserves the inductive invariant.
LEMMA IStep ==
  ASSUME "unreadable" \notin Faults, IInv, [Next]_vars
  PROVE  IInv'
<1>1. TypeInv /\ TypeInv'
  BY TypeStep DEF IInv
<1> USE DEF IInv, DiskInv, LiveInv, ClosedInv, BatchInv, PcInv, HandledInOrder
<1>2. ASSUME NEW k \in 1..MaxBatch, Append(k) PROVE IInv'
  BY <1>1, <1>2, Numbers, HandledSame DEF Append, Locked, batch, Safe, Before, RestartPos, Current, FileOf
<1>3. CASE Crash
  BY <1>1, <1>3, Numbers, HandledSame DEF Crash, Safe, Before
<1>4. CASE Restart
  BY <1>1, <1>4, Numbers, HandledSame DEF Restart, history, disk, batch, Safe, Before
<1>5. CASE Restore
  BY <1>1, <1>5, Numbers, HandledSame DEF Restore, history, disk, batch, Safe, Before, RestartPos
<1>6. CASE RestoreStatFails
  BY <1>1, <1>6, Numbers, HandledSame DEF RestoreStatFails, history, disk, batch, Safe, Before
<1>7. CASE RestoreUnreadable
  BY <1>7 DEF RestoreUnreadable
<1>8. ASSUME NEW n \in Names, RemoveSegment(n) PROVE IInv'
  BY <1>1, <1>8, Numbers, HandledSame DEF RemoveSegment, history, batch, Safe, Before, RestartPos
<1>9. CASE SweepDone
  BY <1>1, <1>9, Numbers, HandledSame DEF SweepDone, history, disk, batch, Safe, Before, RestartPos, Zero
<1>10. CASE Tick
  BY <1>1, <1>10, Numbers, HandledSame DEF Tick, history, disk, Safe, Before, ReadFrom, FileOf, Empty
<1>11. CASE Persist
  <2>1. /\ Current \in 1..written /\ Handled' = Handled \cup {Current}
        /\ Before(Current - 1)
    BY <1>11, CompletesCurrent
  <2>2. Current' = Current
    BY <1>11 DEF Persist, disk, Current, FileOf, Empty
  <2> QED
    BY <1>1, <1>11, <2>1, <2>2, Numbers DEF Persist, history, disk, Safe, Before
<1>12. CASE Transient
  BY <1>1, <1>12, Numbers, HandledSame DEF Transient, LeaveLoop, history, disk, Safe, Before
<1>13. CASE FailRecord
  BY <1>1, <1>13, Numbers, HandledSame DEF FailRecord, LeaveLoop, history, disk, Safe, Before
<1>14. CASE DeadLetter
  <2>1. /\ Current \in 1..written /\ Handled' = Handled \cup {Current}
        /\ Before(Current - 1)
    BY <1>14, CompletesCurrent
  <2>2. Current' = Current
    BY <1>14 DEF DeadLetter, disk, Current, FileOf, Empty
  <2> QED
    BY <1>1, <1>14, <2>1, <2>2, Numbers DEF DeadLetter, history, disk, Safe, Before
<1>15. CASE Advance
  <2>1. pos' = [seg |-> pos.seg, off |-> cur + 1] /\ pos'.seg = pos.seg /\ pos'.off = cur + 1
    BY <1>15 DEF Advance
  <2>2. cur < upto /\ upto <= FileOf(pos).len /\ Current \in Handled
    BY <1>1, <1>15 DEF Advance, TypeInv, ReadInv
  <2>3. Handled' = Handled /\ UNCHANGED <<written, active, segments>>
    BY <1>15, HandledSame DEF Advance, history
  <2>4. Safe(pos)'
    <3>1. Safe(pos) /\ cur = pos.off /\ pos.seg \in DOMAIN segments \cup {0}
      BY <1>15 DEF Advance
    <3>2. CASE pos.seg = 0
      <4>1. cur + 1 <= active.len /\ active.base + cur + 1 \in Handled /\ Before(active.base + cur)
        BY <1>1, <2>2, <3>1, <3>2, Numbers DEF Safe, Current, FileOf
      <4>2. Before(active.base + (cur + 1))
        BY <1>1, <4>1, Numbers DEF Before
      <4> QED
        BY <1>1, <2>1, <2>3, <3>2, <4>1, <4>2, Numbers DEF Safe, Before
    <3>3. CASE pos.seg # 0
      <4>1. /\ cur + 1 <= segments[pos.seg].len /\ segments[pos.seg].base + cur + 1 \in Handled
            /\ Before(segments[pos.seg].base + cur)
        BY <1>1, <2>2, <3>1, <3>3, Numbers DEF Safe, Current, FileOf
      <4>2. Before(segments[pos.seg].base + (cur + 1))
        BY <1>1, <3>1, <3>3, <4>1, Numbers DEF Before
      <4> QED
        BY <1>1, <2>1, <2>3, <3>1, <3>3, <4>1, <4>2, Numbers DEF Safe, Before
    <3> QED
      BY <3>2, <3>3
  <2>5. ASSUME NEW p \in survivors PROVE Safe(p)'
    <3>1. Safe(p)
      OBVIOUS
    <3> QED
      BY <2>3, <3>1 DEF Safe, Before
  <2>6. DiskInv'
    <3>1. CASE WritePosition(pos')
      BY <3>1, <2>4, <2>5 DEF WritePosition
    <3>2. CASE UNCHANGED <<cursor, survivors>>
      BY <3>2, <2>5
    <3> QED
      BY <1>15, <3>1, <3>2 DEF Advance
  <2>7. BatchInv'
    BY <1>1, <1>15, <2>1, <2>2, <2>3, <2>4, Numbers DEF Advance, LeaveLoop, FileOf
  <2> QED
    BY <1>1, <1>15, <2>1, <2>3, <2>4, <2>6, <2>7 DEF Advance, LeaveLoop
<1>16. CASE BatchDone
  BY <1>1, <1>16, Numbers, HandledSame DEF BatchDone, LeaveLoop, history, disk, Safe, Before
<1>17. CASE Finish
  BY <1>1, <1>17, Numbers, HandledSame DEF Finish, CommitPosition, Zero, history, batch, Safe, Before, RestartPos
<1>18. CASE FinishFails
  BY <1>1, <1>18, Numbers, HandledSame DEF FinishFails, CommitFails, WritePosition, Zero, history, batch, Safe, Before
<1>19. CASE RotateSkipped
  BY <1>1, <1>19, Numbers, HandledSame DEF RotateSkipped, history, disk, batch, Safe, Before
<1>20. ASSUME NEW n \in Names, RotateCommit(n) PROVE IInv'
  BY <1>1, <1>20, Numbers, HandledSame DEF RotateCommit, CommitPosition, CommitFails, WritePosition,
     history, batch, Safe, Before
<1>21. CASE Rename
  BY <1>1, <1>21, Numbers, HandledSame DEF Rename, history, batch, Safe, Before
<1>22. CASE RenameFails
  BY <1>1, <1>22, Numbers, HandledSame DEF RenameFails, history, disk, batch, Safe, Before
<1>23. CASE Reopen
  BY <1>1, <1>23, Numbers, HandledSame DEF Reopen, history, disk, batch, Safe, Before
<1>24. CASE ReopenFails
  BY <1>1, <1>24, Numbers, HandledSame DEF ReopenFails, history, disk, batch, Safe, Before
<1>25. CASE UNCHANGED vars
  BY <1>1, <1>25, HandledSame DEF vars, history, outcome, disk, batch, Safe, Before, RestartPos,
     Current, FileOf, Empty
<1> QED
  BY <1>2, <1>3, <1>4, <1>5, <1>6, <1>7, <1>8, <1>9, <1>10, <1>11, <1>12, <1>13, <1>14, <1>15,
     <1>16, <1>17, <1>18, <1>19, <1>20, <1>21, <1>22, <1>23, <1>24, <1>25 DEF Next, Work

\* The crash-safety argument of segments.go: with a readable cursor, no stop of
\* the process at any step, with any of the modelled failures, loses a record.
THEOREM SpoolSafe ==
  ASSUME "unreadable" \notin Faults
  PROVE  Spec => [](NothingLost /\ NothingSkipped /\ HandledInOrder)
<1>1. IInv => NothingLost /\ NothingSkipped /\ HandledInOrder
  <2> SUFFICES ASSUME IInv PROVE NothingLost /\ NothingSkipped /\ HandledInOrder
    OBVIOUS
  <2>1. NothingLost
    BY Numbers DEF IInv, DiskInv, NothingLost, Unhandled, WillRead, RestartPos, ReadFrom, FileOf, Empty, Safe, Before
  <2>2. NothingSkipped
    BY Numbers DEF IInv, LiveInv, NothingSkipped, Unhandled, WillRead, ReadFrom, FileOf, Empty, Safe, Before
  <2> QED
    BY <2>1, <2>2 DEF IInv
<1>2. IInv /\ [Next]_vars => IInv'
  BY IStep
<1> QED
  BY <1>1, <1>2, IInit, PTL DEF Spec

\* Every step of the spool and its worker is a step of an ordered at-least-once
\* queue or leaves the queue alone; a record stored again after a restart is
\* such a stuttering step.
THEOREM SpoolImplementsQueue ==
  ASSUME "unreadable" \notin Faults
  PROVE  Spec => ImplementsQueue
<1>1. Init => Queue!QInit
  BY DEF Init, Queue!QInit, Handled
<1>2. ASSUME IInv, [Next]_vars PROVE [Queue!QNext]_(Queue!qvars)
  <2>1. ASSUME NEW k \in 1..MaxBatch, Append(k) PROVE Queue!Submit
    BY <1>2, <2>1, Numbers, HandledSame, ConstantsAssumption DEF IInv, Append, Queue!Submit
  <2>2. CASE Persist \/ DeadLetter
    <3>1. /\ Current \in 1..written /\ Handled' = Handled \cup {Current} /\ Before(Current - 1)
      BY <1>2, <2>2, CompletesCurrent
    <3>2. written' = written /\ written \in Nat
      BY <1>2, <2>2, Numbers DEF Persist, DeadLetter, history, IInv
    <3>3. CASE Current \in Handled
      BY <3>1, <3>2, <3>3 DEF Queue!qvars
    <3>4. CASE Current \notin Handled
      BY <3>1, <3>2, <3>4 DEF Queue!QNext, Queue!Complete, Before
    <3> QED
      BY <3>3, <3>4
  <2>3. CASE UNCHANGED vars
    BY <2>3, HandledSame DEF vars, history, Queue!qvars
  <2>4. CASE Crash \/ Restart \/ (Work /\ ~Persist /\ ~DeadLetter)
    <3>1. UNCHANGED outcome /\ UNCHANGED written
      BY <2>4 DEF Crash, Restart, Work, Restore, RestoreStatFails, RestoreUnreadable, RemoveSegment,
         SweepDone, Tick, Transient, FailRecord, Advance, BatchDone, Finish, FinishFails,
         RotateSkipped, RotateCommit, Rename, RenameFails, Reopen, ReopenFails, history
    <3> QED
      BY <3>1, HandledSame DEF Queue!qvars
  <2> QED
    BY <1>2, <2>1, <2>2, <2>3, <2>4 DEF Next, Work, Queue!QNext
<1>3. IInv /\ [Next]_vars => IInv'
  BY IStep
<1> QED
  BY <1>1, <1>2, <1>3, IInit, PTL DEF Spec, ImplementsQueue, Queue!QSpec
-----------------------------------------------------------------------------
(* One life of the process stores a record once.  The records the worker has *)
(* yet to reach were not stored in this life, wherever a failed rename,      *)
(* reopen or start has left its position, readable cursor or not.            *)

\* This life has stored none of the records past n.
Ahead(n) == \A r \in Recs : r > n => inLife[r] = 0

\* How far a worker at p has come.
Reached(p) == FileOf(p).base + ReadFrom(p)

LifeInv ==
  /\ \A r \in Recs : inLife[r] <= 1
  /\ pc \in {"down", "boot"} => Ahead(0)
  /\ pc \notin {"down", "boot", "advance", "reopen"} => Ahead(Reached(pos))
  /\ pc = "batch" => Ahead(FileOf(pos).base + cur)
  /\ pc = "advance" => Ahead(FileOf(pos).base + cur + 1)
  /\ pc = "finish" => Ahead(active.base)
  /\ pc = "reopen" => Ahead(active.base) /\ Ahead(Reached([seg |-> target, off |-> pos.off]))

\* Where the worker is when it rotates or deletes segments.
PlaceInv ==
  /\ pc \in {"batch", "advance"} => cur <= upto
  /\ pc \in {"rotate", "rename", "reopen", "sweep"} => pos.seg = 0
  /\ pc \in {"sweep", "bootsweep"} => pos.seg \notin sweep
  /\ pc = "rename" => target \notin DOMAIN segments
  /\ pc = "reopen" => active.len = 0

LifeAll == TypeInv /\ LifeInv /\ PlaceInv

\* The numbers of a position: it lies inside its file, and the file before the
\* records of the active segment that are still to come.
LEMMA ReachedFacts ==
  ASSUME TypeInv, NEW p \in Position
  PROVE  /\ FileOf(p).base \in Nat /\ FileOf(p).len \in Nat /\ ReadFrom(p) \in Nat
         /\ ReadFrom(p) <= FileOf(p).len /\ Reached(p) \in Nat
         /\ p.seg # 0 => FileOf(p).base + FileOf(p).len <= active.base
<1>1. p.off \in Nat
  BY PositionFacts
<1>2. /\ FileOf(p).base \in Nat /\ FileOf(p).len \in Nat
      /\ p.seg # 0 => FileOf(p).base + FileOf(p).len <= active.base
  BY Numbers DEF FileOf, Empty
<1> QED
  BY <1>1, <1>2 DEF ReadFrom, Reached

\* The same of the worker's own position.
LEMMA ReachedByWorker == TypeInv => Reached(pos) \in Nat
BY ReachedFacts DEF TypeInv, TypeOK

\* Records that are further on are also ahead.
LEMMA AheadFurther ==
  ASSUME NEW m \in Nat, NEW n \in Nat, m <= n, Ahead(m)
  PROVE  Ahead(n)
<1>1. \A r \in Recs : r \in Nat
  BY ConstantsAssumption DEF Recs
<1> QED
  BY <1>1 DEF Ahead

\* No step breaks it, with any failure the environment may bring.
LEMMA LifeStep == ASSUME LifeAll, [Next]_vars PROVE LifeAll'
<1>1. TypeInv /\ TypeInv' /\ pos \in Position /\ cur \in Nat /\ upto \in Nat /\ crashes \in Nat /\ active.base \in Nat
  <2>1. TypeInv /\ TypeInv'
    BY TypeStep DEF LifeAll
  <2>2. pos \in Position /\ cur \in Nat /\ upto \in Nat /\ crashes \in Nat
    BY <2>1, ConstantsAssumption DEF TypeInv, TypeOK
  <2> QED
    BY <2>1, <2>2, Numbers
<1>2. LifeInv /\ PlaceInv
  BY DEF LifeAll
<1>3. /\ FileOf(pos).base \in Nat /\ FileOf(pos).len \in Nat /\ ReadFrom(pos) \in Nat
      /\ ReadFrom(pos) <= FileOf(pos).len /\ Reached(pos) \in Nat
      /\ pos.seg # 0 => FileOf(pos).base + FileOf(pos).len <= active.base
  BY <1>1, ReachedFacts
<1>s. ASSUME inLife' = inLife PROVE (\A r \in Recs : inLife[r] <= 1)'
  BY <1>2, <1>s DEF LifeInv
<1>4. ASSUME NEW k \in 1..MaxBatch, Append(k) PROVE LifeAll'
  <2>1. /\ active' = [base |-> active.base, len |-> active.len + k] /\ active'.base = active.base
        /\ UNCHANGED <<inLife, segments, pc, pos, cur, upto, sweep, target>> /\ pc \notin {"rename", "reopen", "down"}
    BY <1>4 DEF Append, outcome, batch, Locked
  <2>2. FileOf(pos)'.base = FileOf(pos).base /\ Reached(pos)' >= Reached(pos) /\ Reached(pos)' \in Nat
    BY <1>1, <2>1, Numbers DEF FileOf, Empty, ReadFrom, Reached
  <2>3. ASSUME Ahead(Reached(pos)) PROVE Ahead(Reached(pos))'
    BY <1>3, <2>1, <2>2, <2>3, ConstantsAssumption DEF Ahead, Recs
  <2>4. LifeInv'
    BY <1>2, <1>s, <2>1, <2>2, <2>3 DEF LifeInv, Ahead
  <2>5. PlaceInv'
    BY <1>2, <2>1 DEF PlaceInv
  <2> QED
    BY <1>1, <2>4, <2>5 DEF LifeAll
<1>5. CASE Crash
  <2>1. inLife' = [r \in Recs |-> 0] /\ pc' = "down"
    BY <1>5 DEF Crash
  <2>2. (\A r \in Recs : inLife[r] <= 1)' /\ Ahead(0)'
    BY <2>1 DEF Ahead
  <2> QED
    BY <1>1, <2>1, <2>2 DEF LifeAll, LifeInv, PlaceInv
<1>6. CASE Restart
  <2>1. UNCHANGED inLife /\ pc = "down" /\ pc' = "boot"
    BY <1>6 DEF Restart, history, outcome
  <2> QED
    BY <1>1, <1>2, <1>s, <2>1 DEF LifeAll, LifeInv, PlaceInv, Ahead
<1>7. CASE Restore \/ RestoreStatFails \/ RestoreUnreadable
  <2>1. UNCHANGED inLife /\ pc = "boot" /\ pc' \in {"bootsweep", "idle"}
    BY <1>7 DEF Restore, RestoreStatFails, RestoreUnreadable, history, outcome
  <2>2. Ahead(0)
    BY <1>2, <2>1 DEF LifeInv
  <2>3. Reached(pos)' \in Nat
    <3>1. TypeInv' => (Reached(pos) \in Nat)'
      BY ReachedByWorker, PTL
    <3> QED
      BY <1>1, <3>1
  <2>4. Ahead(Reached(pos))'
    BY <2>1, <2>2, <2>3, ConstantsAssumption DEF Ahead, Recs
  <2>5. pc' = "bootsweep" => pos'.seg \notin sweep'
    BY <1>7 DEF Restore, RestoreStatFails, RestoreUnreadable
  <2> QED
    BY <1>1, <1>s, <2>1, <2>4, <2>5 DEF LifeAll, LifeInv, PlaceInv
<1>8. ASSUME NEW n \in Names, RemoveSegment(n) PROVE LifeAll'
  <2>1. /\ UNCHANGED <<inLife, active, pos, pc, cur, upto, target>> /\ pc \in {"sweep", "bootsweep"}
        /\ n \in sweep /\ sweep' = sweep \ {n}
        /\ \/ segments' = [m \in DOMAIN segments \ {n} |-> segments[m]]
           \/ segments' = segments
    BY <1>8 DEF RemoveSegment, history, outcome, batch
  <2>2. pos.seg # n
    BY <1>2, <2>1 DEF PlaceInv
  <2>3. Reached(pos)' = Reached(pos)
    BY <2>1, <2>2 DEF Reached, FileOf, Empty, ReadFrom
  <2> QED
    BY <1>1, <1>2, <1>s, <2>1, <2>3 DEF LifeAll, LifeInv, PlaceInv, Ahead
<1>9. CASE SweepDone \/ Transient \/ FailRecord \/ BatchDone \/ FinishFails \/ RotateSkipped \/ Tick
  <2>1. UNCHANGED <<inLife, active, segments, pos, sweep, target>>
    BY <1>9 DEF SweepDone, Transient, FailRecord, BatchDone, FinishFails, RotateSkipped, Tick, history, outcome, disk
  <2>2. FileOf(pos)' = FileOf(pos) /\ Reached(pos)' = Reached(pos) /\ ReadFrom(pos)' = ReadFrom(pos)
    BY <2>1 DEF Reached, FileOf, Empty, ReadFrom
  <2>3. Ahead(Reached(pos)) /\ Ahead(Reached(pos))'
    <3>1. Ahead(Reached(pos))
      BY <1>2, <1>9 DEF LifeInv, SweepDone, Transient, FailRecord, BatchDone, FinishFails, RotateSkipped, Tick
    <3> QED
      BY <2>1, <2>2, <3>1 DEF Ahead
  <2>4. CASE SweepDone \/ FinishFails \/ RotateSkipped
    <3>1. pc' \in {"rotate", "idle"} /\ (pc' = "rotate" => pc = "sweep")
      BY <2>4 DEF SweepDone, FinishFails, RotateSkipped
    <3> QED
      BY <1>1, <1>2, <1>s, <2>1, <2>3, <3>1 DEF LifeAll, LifeInv, PlaceInv
  <2>5. CASE Transient \/ FailRecord
    <3>1. pc' \in {"rotate", "idle"} /\ (pc' = "rotate" => pos.seg = 0)
      BY <2>5 DEF Transient, FailRecord, LeaveLoop
    <3> QED
      BY <1>1, <1>s, <2>1, <2>3, <3>1 DEF LifeAll, LifeInv, PlaceInv
  <2>6. CASE BatchDone
    <3>1. pc = "batch" /\ pc' \in {"rotate", "finish"} /\ (pc' = "rotate" => pos.seg = 0) /\ (pc' = "finish" => pos.seg # 0)
      BY <2>6 DEF BatchDone, LeaveLoop
    <3>2. Ahead(FileOf(pos).base + cur) /\ cur <= upto /\ upto <= FileOf(pos).len
      BY <1>1, <1>2, <3>1 DEF LifeInv, PlaceInv, TypeInv, ReadInv
    <3>3. pos.seg # 0 => Ahead(active.base)
      <4>1. FileOf(pos).base + cur \in Nat /\ (pos.seg # 0 => FileOf(pos).base + cur <= active.base)
        BY <1>1, <1>3, <3>2
      <4> QED
        BY <1>1, <3>2, <4>1, AheadFurther
    <3>4. pos.seg # 0 => Ahead(active.base)'
      BY <2>1, <3>3 DEF Ahead
    <3> QED
      BY <1>1, <1>s, <2>1, <2>3, <3>1, <3>4 DEF LifeAll, LifeInv, PlaceInv
  <2>7. CASE Tick
    <3>1. pc' = "batch" /\ cur' = ReadFrom(pos) /\ upto' = FileOf(pos).len
      BY <2>7 DEF Tick
    <3>2. cur' <= upto' /\ FileOf(pos)'.base + cur' = Reached(pos)'
      BY <1>3, <2>2, <3>1 DEF Reached
    <3> QED
      BY <1>1, <1>s, <2>1, <2>3, <3>1, <3>2 DEF LifeAll, LifeInv, PlaceInv
  <2> QED
    BY <1>9, <2>4, <2>5, <2>6, <2>7
<1>10. CASE Persist \/ DeadLetter
  <2>1. pc = "batch" /\ pc' = "advance" /\ cur < upto /\ UNCHANGED <<active, segments, pos, cur, upto>>
    BY <1>10 DEF Persist, DeadLetter, disk
  <2>2. Current \in Recs /\ Current = FileOf(pos).base + cur + 1
    BY <1>1, <2>1, CurrentIsWritten DEF Current
  <2>3. Ahead(FileOf(pos).base + cur)
    BY <1>2, <2>1 DEF LifeInv
  <2>4. \A r \in Recs : /\ inLife'[r] = inLife[r] \/ (r = Current /\ inLife'[r] = inLife[r] + 1)
                        /\ r \in Nat
    <3>1. inLife \in [Recs -> Nat]
      BY <1>1 DEF TypeInv, TypeOK
    <3>0. \A r \in Recs : r \in Nat
      BY ConstantsAssumption DEF Recs
    <3>2. inLife' = inLife \/ inLife' = [inLife EXCEPT ![Current] = @ + 1]
      BY <1>10 DEF Persist, DeadLetter, history
    <3> QED
      BY <2>2, <3>0, <3>1, <3>2
  <2>5. inLife[Current] = 0
    BY <1>1, <1>3, <2>2, <2>3 DEF Ahead
  <2>6. (\A r \in Recs : inLife[r] <= 1)'
    <3>1. ASSUME NEW r \in Recs PROVE inLife'[r] <= 1
      <4>1. inLife[r] <= 1
        BY <1>2 DEF LifeInv
      <4> QED
        BY <2>4, <2>5, <4>1
    <3> QED
      BY <3>1
  <2>7. FileOf(pos)' = FileOf(pos)
    BY <2>1 DEF FileOf, Empty
  <2>8. Ahead(FileOf(pos).base + cur + 1)'
    <3>1. ASSUME NEW r \in Recs, r > FileOf(pos).base + cur + 1 PROVE inLife'[r] = 0
      <4>1. r > FileOf(pos).base + cur /\ r # Current
        BY <1>1, <1>3, <2>2, <2>4, <3>1
      <4>2. inLife[r] = 0
        BY <2>3, <4>1 DEF Ahead
      <4> QED
        BY <2>4, <4>1, <4>2
    <3> QED
      BY <2>1, <2>7, <3>1 DEF Ahead
  <2> QED
    BY <1>1, <2>1, <2>6, <2>8 DEF LifeAll, LifeInv, PlaceInv
<1>11. CASE Advance
  <2>1. /\ pc = "advance" /\ pos' = [seg |-> pos.seg, off |-> cur + 1] /\ UNCHANGED <<inLife, active, segments>>
        /\ \/ cur' = cur + 1 /\ pc' = "batch" /\ upto' = upto
           \/ pc' \in {"rotate", "idle"} /\ (pc' = "rotate" => pos.seg = 0)
    BY <1>11 DEF Advance, LeaveLoop, history, outcome
  <2>2. cur < upto /\ upto <= FileOf(pos).len /\ Ahead(FileOf(pos).base + cur + 1)
    BY <1>1, <1>2, <2>1 DEF LifeInv, TypeInv, ReadInv
  <2>3. pos'.seg = pos.seg /\ pos'.off = cur + 1
    BY <2>1
  <2>4. FileOf(pos)' = FileOf(pos)
    BY <2>1, <2>3 DEF FileOf, Empty
  <2>5. Reached(pos)' = FileOf(pos).base + cur + 1 /\ FileOf(pos).base + (cur + 1) = FileOf(pos).base + cur + 1
    <3>1. ~(cur + 1 > FileOf(pos).len)
      BY <1>1, <1>3, <2>2
    <3>2. ReadFrom(pos)' = cur + 1
      BY <2>3, <2>4, <3>1 DEF ReadFrom
    <3> QED
      BY <1>1, <1>3, <2>4, <3>2 DEF Reached
  <2>6. Ahead(Reached(pos))'
    BY <2>1, <2>2, <2>5 DEF Ahead
  <2>7. pc' = "batch" => Ahead(FileOf(pos).base + cur)'
    BY <2>1, <2>2, <2>4, <2>5 DEF Ahead
  <2>8. pc' = "batch" => cur' <= upto'
    BY <1>1, <2>1, <2>2
  <2> QED
    BY <1>1, <1>s, <2>1, <2>3, <2>6, <2>7, <2>8 DEF LifeAll, LifeInv, PlaceInv
<1>12. CASE Finish
  <2>1. /\ pc = "finish" /\ pc' = "sweep" /\ pos' = Zero /\ sweep' = DOMAIN segments
        /\ UNCHANGED <<inLife, active, segments>>
    BY <1>12 DEF Finish, history, outcome
  <2>2. pos'.seg = 0 /\ Reached(pos)' = active.base /\ 0 \notin DOMAIN segments
    BY <1>1, <2>1, Numbers DEF Zero, Reached, FileOf, ReadFrom
  <2>3. Ahead(Reached(pos))'
    BY <1>2, <2>1, <2>2 DEF LifeInv, Ahead
  <2> QED
    BY <1>1, <1>s, <2>1, <2>2, <2>3 DEF LifeAll, LifeInv, PlaceInv
<1>13. ASSUME NEW n \in Names, RotateCommit(n) PROVE LifeAll'
  <2>1. /\ pc = "rotate" /\ UNCHANGED <<inLife, active, segments, pos>> /\ n \notin DOMAIN segments
        /\ \/ pc' = "idle"
           \/ pc' = "rename" /\ target' = n
    BY <1>13 DEF RotateCommit, history, outcome
  <2>2. Reached(pos)' = Reached(pos)
    BY <2>1 DEF Reached, FileOf, Empty, ReadFrom
  <2> QED
    BY <1>1, <1>2, <1>s, <2>1, <2>2 DEF LifeAll, LifeInv, PlaceInv, Ahead
<1>14. CASE Rename
  <2>1. /\ pc = "rename" /\ pc' = "reopen" /\ UNCHANGED <<inLife, pos, target>>
        /\ segments' = [n \in DOMAIN segments \cup {target} |-> IF n = target THEN active ELSE segments[n]]
        /\ active' = [base |-> active.base + active.len, len |-> 0]
    BY <1>14 DEF Rename, history, outcome
  <2>2. pos.seg = 0 /\ target \in Names /\ target # 0
    BY <1>1, <1>2, <2>1 DEF PlaceInv, TypeInv, ReadInv, Names
  <2>3. Ahead(Reached(pos)) /\ Reached(pos) = active.base + (IF pos.off > active.len THEN 0 ELSE pos.off)
    BY <1>2, <2>1, <2>2 DEF LifeInv, Reached, FileOf, ReadFrom
  <2>4. Reached([seg |-> target, off |-> pos.off])' = Reached(pos)
    BY <2>1, <2>2, <2>3 DEF Reached, FileOf, ReadFrom
  <2>5. active.base + active.len \in Nat /\ Reached(pos) <= active.base + active.len
    BY <1>1, <1>3, <2>2, Numbers DEF Reached, FileOf
  <2>6. Ahead(active.base + active.len)
    BY <1>3, <2>3, <2>5, AheadFurther
  <2>7. Ahead(active.base)' /\ Ahead(Reached([seg |-> target, off |-> pos.off]))'
    BY <2>1, <2>3, <2>4, <2>6 DEF Ahead
  <2> QED
    BY <1>1, <1>s, <2>1, <2>2, <2>7 DEF LifeAll, LifeInv, PlaceInv
<1>15. CASE RenameFails
  <2>1. pc = "rename" /\ pc' = "idle" /\ UNCHANGED <<inLife, active, segments, pos>>
    BY <1>15 DEF RenameFails, history, outcome, disk
  <2>2. Reached(pos)' = Reached(pos)
    BY <2>1 DEF Reached, FileOf, Empty, ReadFrom
  <2> QED
    BY <1>1, <1>2, <1>s, <2>1, <2>2 DEF LifeAll, LifeInv, PlaceInv, Ahead
<1>16. CASE Reopen
  <2>1. /\ pc = "reopen" /\ pc' = "idle" /\ UNCHANGED <<inLife, active, segments>>
        /\ pos' = [seg |-> target, off |-> pos.off]
    BY <1>16 DEF Reopen, history, outcome, disk
  <2>2. Reached(pos)' = Reached([seg |-> target, off |-> pos.off])
    BY <2>1 DEF Reached, FileOf, Empty, ReadFrom
  <2> QED
    BY <1>1, <1>2, <1>s, <2>1, <2>2 DEF LifeAll, LifeInv, PlaceInv, Ahead
<1>17. CASE ReopenFails
  <2>1. /\ pc = "reopen" /\ pc' = "idle" /\ UNCHANGED <<inLife, active, segments, pos>>
    BY <1>17 DEF ReopenFails, history, outcome, disk
  <2>2. pos.seg = 0 /\ active.len = 0 /\ Ahead(active.base)
    BY <1>2, <2>1 DEF PlaceInv, LifeInv
  <2>3. Reached(pos)' = active.base
    BY <1>1, <2>1, <2>2, Numbers DEF Reached, FileOf, ReadFrom
  <2> QED
    BY <1>1, <1>s, <2>1, <2>2, <2>3 DEF LifeAll, LifeInv, PlaceInv, Ahead
<1>18. CASE UNCHANGED vars
  <2>1. UNCHANGED <<inLife, active, segments, pos, pc, cur, upto, sweep, target>>
    BY <1>18 DEF vars, history, outcome, disk, batch
  <2>2. FileOf(pos)' = FileOf(pos) /\ Reached(pos)' = Reached(pos)
        /\ Reached([seg |-> target, off |-> pos.off])' = Reached([seg |-> target, off |-> pos.off])
    BY <2>1 DEF Reached, FileOf, Empty, ReadFrom
  <2> QED
    BY <1>1, <1>2, <1>s, <2>1, <2>2 DEF LifeAll, LifeInv, PlaceInv, Ahead
<1> QED
  BY <1>4, <1>5, <1>6, <1>7, <1>8, <1>9, <1>10, <1>11, <1>12, <1>13, <1>14, <1>15, <1>16, <1>17, <1>18 DEF Next, Work

\* Within one life of the process a record of the spool is stored once at most,
\* and no attempt at it begins after that: a duplicate of a stored record needs
\* a restart between the store and the cursor write, whatever else fails.
THEOREM StoredOnce == Spec => []StoredOncePerLife
<1>1. Init => LifeAll
  <2> SUFFICES ASSUME Init PROVE LifeAll
    OBVIOUS
  <2>1. TypeInv
    BY TypeInit
  <2>2. LifeInv /\ PlaceInv
    BY DEF Init, LifeInv, PlaceInv, Ahead
  <2> QED
    BY <2>1, <2>2 DEF LifeAll
<1>2. LifeAll => StoredOncePerLife
  <2> SUFFICES ASSUME LifeAll PROVE StoredOncePerLife
    OBVIOUS
  <2>1. ASSUME pc = "batch", cur < upto PROVE inLife[Current] = 0
    <3>1. Current \in Recs /\ Ahead(FileOf(pos).base + cur)
      BY <2>1, CurrentIsWritten DEF LifeAll, LifeInv
    <3>2. FileOf(pos).base \in Nat /\ cur \in Nat /\ Current = FileOf(pos).base + cur + 1
      BY ReachedFacts DEF LifeAll, TypeInv, TypeOK, Current
    <3>3. Current > FileOf(pos).base + cur
      BY <3>2
    <3> QED
      BY <3>1, <3>3 DEF Ahead
  <2> QED
    BY <2>1 DEF LifeAll, LifeInv, StoredOncePerLife
<1>3. LifeAll /\ [Next]_vars => LifeAll'
  BY LifeStep
<1> QED
  BY <1>1, <1>2, <1>3, PTL DEF Spec
=============================================================================
