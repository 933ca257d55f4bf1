--------------------------- MODULE SpoolForwarder ---------------------------
(***************************************************************************)
(* The reader pod's ingest buffer (internal/api/spool_forwarder.go): HTTP  *)
(* handlers append requests to forward.ndjson and answer 202, one drain    *)
(* goroutine sends them on to the writer (HTTP, or LPUSH on the Redis      *)
(* write queue) and moves a persisted cursor past them, an oversized file  *)
(* is deleted once it has been drained, and a shutdown drains what is left *)
(* (cmd/bugbarn/reader.go).                                                *)
(*                                                                         *)
(* A record is one unit of file; records are numbered as they are written. *)
(***************************************************************************)
EXTENDS Integers, Sequences, FiniteSets, SequencesExt

CONSTANTS
  MaxRecords,   \* bound: requests given to Forward
  RotateBytes,  \* rotateBytes, in records; 0 disables rotation
  Answers,      \* what a forward can meet: "ok", "rejected", "full", "error", "lost"
  Faults,       \* "crash", "stop", "sync", "cursor", "remove", "reset", "reopen"
  MaxFaults     \* bound: crashes, shutdowns, failed disk operations and lost replies

ASSUME ForwarderAssumption ==
  /\ MaxRecords \in Nat /\ RotateBytes \in Nat /\ MaxFaults \in Nat
  /\ Answers \subseteq {"ok", "rejected", "full", "error", "lost"}
  /\ Faults \subseteq {"crash", "stop", "sync", "cursor", "remove", "reset", "reopen"}

Recs == 1..MaxRecords

VARIABLES
  file,       \* the records of forward.ndjson, in order
  exists,     \* forward.ndjson is there
  cursor,     \* forward-cursor.json; 0 when it is absent
  fileOpen,   \* s.file can be written
  pending,    \* s.pending
  pc,         \* the drain goroutine: idle, forward, ack, rotate, reset, reopen
  phase,      \* serving, stopping, draining (DrainOnce), exited, gaveup
  offset,     \* the cursor the current pass started from
  next, last, \* the file positions of the pass's next and last record
  ackedTo,    \* where the pass will leave the cursor
  written,    \* how many records were ever written
  accepted,   \* those answered 202
  delivered,  \* how often the writer received each record
  dropped,    \* records passed over after a 4xx, with the answer
  orphan,     \* history: a start found a cursor and no file, and no rotation has cleared it
  faults

local == <<offset, next, last, ackedTo>>
disk == <<file, exists, cursor, orphan>>
outcome == <<delivered, dropped>>
vars == <<disk, fileOpen, pending, pc, phase, local, written, accepted, outcome, faults>>

\* The shape of every variable; a pass stays inside the file it read, and only a
\* rotation may leave the spool without its file.
TypeOK ==
  /\ file \in Seq(1..written) /\ written \in 0..MaxRecords /\ exists \in BOOLEAN
  /\ cursor \in Nat /\ fileOpen \in BOOLEAN /\ pending \in Int
  /\ pc \in {"idle", "forward", "ack", "rotate", "reset", "reopen"}
  /\ phase \in {"serving", "stopping", "draining", "exited", "gaveup"}
  /\ offset \in Nat /\ next \in Nat /\ last \in Nat /\ ackedTo \in Nat
  /\ pc = "forward" => next - 1 <= last /\ last <= Len(file)
  /\ ~exists => file = <<>> /\ (pc \in {"reset", "reopen"} \/ ~fileOpen)
  /\ accepted \subseteq 1..written
  /\ delivered \in [Recs -> 0..(MaxFaults + 2)]
  /\ dropped \subseteq Recs \X {"rejected", "full"}
  /\ faults \in 0..MaxFaults /\ orphan \in BOOLEAN

Init ==
  /\ file = <<>> /\ exists = TRUE /\ cursor = 0 /\ fileOpen = TRUE /\ pending = 0
  /\ pc = "idle" /\ phase = "serving"
  /\ offset = 0 /\ next = 0 /\ last = 0 /\ ackedTo = 0
  /\ written = 0 /\ accepted = {}
  /\ delivered = [r \in Recs |-> 0] /\ dropped = {} /\ faults = 0 /\ orphan = FALSE

\* One unit of the fault budget.
Fault(kind) == kind \in Faults /\ faults < MaxFaults /\ faults' = faults + 1

-----------------------------------------------------------------------------
\* HTTP handlers.  The mutex is held by a rotation from its first disk
\* operation to the last.
CanAppend == phase = "serving" /\ fileOpen /\ pc \notin {"reset", "reopen"}

\* Forward and append: written, synced, counted and answered 202.  Requests
\* refused before the append (too large, malformed, no project) change nothing,
\* nor does one whose write fails because s.file is closed.
Forward ==
  /\ CanAppend /\ written < MaxRecords
  /\ written' = written + 1
  /\ file' = Append(file, written')
  /\ accepted' = accepted \cup {written'}
  /\ pending' = pending + 1
  /\ UNCHANGED <<exists, cursor, orphan, fileOpen, pc, phase, local, outcome, faults>>

\* The write succeeds and the fsync fails: 503, but the record is in the file.
ForwardUnsynced ==
  /\ CanAppend /\ written < MaxRecords /\ Fault("sync")
  /\ written' = written + 1
  /\ file' = Append(file, written')
  /\ UNCHANGED <<exists, cursor, orphan, fileOpen, pending, pc, phase, local, accepted, outcome>>

-----------------------------------------------------------------------------
\* Mutant: a restarted drain follows the end of the file.
StartAtEnd(off) == Len(file)

\* readRecords: an offset past the end restarts the file.
Start(off) == IF off > Len(file) THEN 0 ELSE off

\* Mutant: the pass takes one record more than the file has.
ReadsOneTooMany ==
  /\ pc = "idle" /\ phase \in {"serving", "draining"}
  /\ Start(cursor) < Len(file)
  /\ offset' = cursor /\ ackedTo' = cursor
  /\ next' = Start(cursor) + 1 /\ last' = Len(file) + 1
  /\ pc' = "forward"
  /\ UNCHANGED <<disk, fileOpen, pending, phase, written, accepted, outcome, faults>>

\* readCursor and readRecords find records: a pass of Drain or DrainOnce begins.
ReadRecords ==
  /\ pc = "idle" /\ phase \in {"serving", "draining"}
  /\ Start(cursor) < Len(file)
  /\ offset' = cursor /\ ackedTo' = cursor
  /\ next' = Start(cursor) + 1 /\ last' = Len(file)
  /\ pc' = "forward"
  /\ UNCHANGED <<disk, fileOpen, pending, phase, written, accepted, outcome, faults>>

\* Mutant: the size alone decides about the rotation.
RotatesUndrained ==
  /\ pc = "idle" /\ phase = "serving"
  /\ RotateBytes > 0 /\ Len(file) >= RotateBytes
  /\ last' = Len(file) /\ pc' = "rotate"
  /\ UNCHANGED <<disk, fileOpen, pending, phase, offset, next, ackedTo, written, accepted, outcome, faults>>

\* Nothing to read.  When the end that was read has reached the limit,
\* maybeRotateLocked goes on to take the mutex; otherwise the loop sleeps.
ReadEmpty ==
  /\ pc = "idle" /\ phase = "serving"
  /\ Start(cursor) >= Len(file)
  /\ LET end == IF exists THEN Len(file) ELSE cursor
         rotate == RotateBytes > 0 /\ end >= RotateBytes
     IN  /\ pc' = (IF rotate THEN "rotate" ELSE "idle")
         /\ last' = (IF rotate THEN end ELSE last)
  /\ UNCHANGED <<disk, fileOpen, pending, phase, offset, next, ackedTo, written, accepted, outcome, faults>>

Deliver(r) == delivered' = [delivered EXCEPT ![r] = IF @ < MaxFaults + 2 THEN @ + 1 ELSE @]

\* From -MaxRecords on no append makes the counter positive again: it stays there.
Passed == /\ ackedTo' = next /\ next' = next + 1
          /\ pending' = IF pending > -MaxRecords THEN pending - 1 ELSE pending
          /\ UNCHANGED <<disk, fileOpen, pc, phase, offset, last, written, accepted, faults>>

\* forwardOne / publishOne returned nil: the writer has the record.  A call in
\* flight when the context is canceled may still end this way.
ForwardOne ==
  /\ pc = "forward" /\ next <= last /\ "ok" \in Answers
  /\ Deliver(file[next])
  /\ Passed /\ UNCHANGED dropped

\* A 4xx from the writer, 429 included; in queue mode a record of no kind.
ForwardRejected ==
  /\ pc = "forward" /\ next <= last
  /\ \E a \in {"rejected", "full"} \cap Answers : dropped' = dropped \cup {<<file[next], a>>}
  /\ Passed /\ UNCHANGED delivered

\* Mutant: the pass goes on to acknowledge what failed.
FailureAcked ==
  /\ pc' = "ack"
  /\ ackedTo' = next
  /\ UNCHANGED <<disk, fileOpen, pending, phase, offset, next, last, written, accepted, dropped>>

\* Mutant: the loop goes on with the next record.
FailureSkipped ==
  /\ pc' = pc
  /\ next' = next + 1
  /\ UNCHANGED <<disk, fileOpen, pending, phase, offset, last, ackedTo, written, accepted, dropped>>

\* A failed forward ends the pass.  Drain acknowledges what went before; under
\* a canceled context it returns, and DrainOnce returns, without doing so.
PassFails ==
  /\ pc' = (IF phase = "serving" THEN "ack" ELSE "idle")
  /\ UNCHANGED <<disk, fileOpen, pending, phase, local, written, accepted, dropped>>

\* A 5xx, a refused connection, a failed LPUSH; a canceled context.
ForwardFails ==
  /\ pc = "forward" /\ next <= last
  /\ \/ "error" \in Answers /\ phase = "serving" /\ UNCHANGED faults
     \/ "error" \in Answers /\ phase = "draining" /\ faults < MaxFaults /\ faults' = faults + 1
     \/ phase = "stopping" /\ UNCHANGED faults
  /\ PassFails /\ UNCHANGED delivered

\* The writer took the record and the answer never arrived.
ForwardLost ==
  /\ pc = "forward" /\ next <= last /\ "lost" \in Answers
  /\ faults < MaxFaults /\ faults' = faults + 1
  /\ Deliver(file[next])
  /\ PassFails

\* Every record of the pass was sent.
PassDone ==
  /\ pc = "forward" /\ next > last
  /\ pc' = "ack"
  /\ UNCHANGED <<disk, fileOpen, pending, phase, local, written, accepted, outcome, faults>>

\* Mutant: the cursor is written from the start of the pass.
AckForgets ==
  /\ pc = "ack" /\ pc' = "idle"
  /\ cursor' = offset
  /\ UNCHANGED <<file, exists, orphan, fileOpen, pending, phase, local, written, accepted, outcome, faults>>

\* writeCursor, by temporary file and rename: Drain only when the cursor moves
\* forward, DrainOnce always.
Ack ==
  /\ pc = "ack" /\ pc' = "idle"
  /\ cursor' = (IF ackedTo > offset \/ phase = "draining" THEN ackedTo ELSE cursor)
  /\ UNCHANGED <<file, exists, orphan, fileOpen, pending, phase, local, written, accepted, outcome, faults>>

\* writeCursor fails and the old cursor stays.
AckFails ==
  /\ pc = "ack" /\ pc' = "idle" /\ Fault("cursor")
  /\ UNCHANGED <<disk, fileOpen, pending, phase, local, written, accepted, outcome>>

-----------------------------------------------------------------------------
\* maybeRotateLocked, one disk operation at a time.  The file handle is closed
\* first; closing it a second time is an error.
RotateRemove ==
  /\ pc = "rotate" /\ fileOpen
  /\ fileOpen' = FALSE /\ file' = <<>> /\ exists' = FALSE
  /\ pc' = "reset"
  /\ UNCHANGED <<cursor, orphan, pending, phase, local, written, accepted, outcome, faults>>

RotateRefused ==
  /\ pc = "rotate" /\ pc' = "idle"
  /\ \/ ~fileOpen /\ UNCHANGED <<fileOpen, faults>>
     \/ fileOpen /\ Fault("remove") /\ fileOpen' = FALSE
  /\ UNCHANGED <<disk, pending, phase, local, written, accepted, outcome>>

RotateReset ==
  /\ pc = "reset"
  /\ \/ cursor' = 0 /\ orphan' = FALSE /\ pc' = "reopen" /\ UNCHANGED faults
     \/ Fault("reset") /\ pc' = "idle" /\ UNCHANGED <<cursor, orphan>>
  /\ UNCHANGED <<file, exists, fileOpen, pending, phase, local, written, accepted, outcome>>

RotateReopen ==
  /\ pc = "reopen" /\ pc' = "idle"
  /\ \/ fileOpen' = TRUE /\ exists' = TRUE /\ UNCHANGED faults
     \/ Fault("reopen") /\ UNCHANGED <<fileOpen, exists>>
  /\ UNCHANGED <<file, cursor, orphan, pending, phase, local, written, accepted, outcome>>

-----------------------------------------------------------------------------
\* SIGTERM: the server stops accepting, the drain loop's context is canceled.
Stop ==
  /\ phase = "serving" /\ Fault("stop")
  /\ phase' = "stopping"
  /\ UNCHANGED <<disk, fileOpen, pending, pc, local, written, accepted, outcome>>

\* Mutant: the shutdown trusts that the drain loop has caught up.
DrainReturnsEarly ==
  /\ phase = "stopping" /\ pc = "idle"
  /\ phase' = "exited"
  /\ UNCHANGED <<disk, fileOpen, pending, pc, local, written, accepted, outcome, faults>>

\* The drain goroutine has returned; the shutdown drains only a positive count.
DrainReturns ==
  /\ phase = "stopping" /\ pc = "idle"
  /\ phase' = (IF pending > 0 THEN "draining" ELSE "exited")
  /\ UNCHANGED <<disk, fileOpen, pending, pc, local, written, accepted, outcome, faults>>

\* DrainOnce found nothing to read.
DrainOnceDone ==
  /\ phase = "draining" /\ pc = "idle" /\ Start(cursor) >= Len(file)
  /\ phase' = "exited"
  /\ UNCHANGED <<disk, fileOpen, pending, pc, local, written, accepted, outcome, faults>>

\* The 45 seconds are over.
GiveUp ==
  /\ phase = "draining" /\ pc = "idle"
  /\ phase' = "gaveup"
  /\ UNCHANGED <<disk, fileOpen, pending, pc, local, written, accepted, outcome, faults>>

\* NewSpoolForwarder in a new process, after an exit or a crash at any point.
StartProcess ==
  /\ \/ phase \in {"exited", "gaveup"} /\ UNCHANGED faults
     \/ phase \notin {"exited", "gaveup"} /\ Fault("crash")
  /\ pc' = "idle" /\ phase' = "serving" /\ fileOpen' = TRUE /\ exists' = TRUE /\ pending' = 0
  /\ orphan' = (orphan \/ (~exists /\ cursor # 0))
  /\ UNCHANGED <<file, cursor, local, written, accepted, outcome>>

-----------------------------------------------------------------------------
Handler == Forward \/ ForwardUnsynced
Pass == ReadRecords \/ ForwardOne \/ ForwardRejected \/ ForwardFails \/ ForwardLost
          \/ PassDone \/ Ack \/ AckFails
Rotation == ReadEmpty \/ RotateRemove \/ RotateRefused \/ RotateReset \/ RotateReopen
Process == Stop \/ DrainReturns \/ DrainOnceDone \/ GiveUp \/ StartProcess

Next == Handler \/ Pass \/ Rotation \/ Process

Spec == Init /\ [][Next]_vars

\* The drain loop keeps running and the pod is restarted; a writer that is
\* asked again and again is up at some of those times, and so is the disk.
FairSpec ==
  /\ Spec
  /\ WF_vars(Pass \/ Rotation)
  /\ WF_vars(DrainReturns \/ DrainOnceDone \/ StartProcess)
  /\ SF_vars(ForwardOne) /\ SF_vars(Ack)

-----------------------------------------------------------------------------
Done == {r \in Recs : delivered[r] > 0} \cup {d[1] : d \in dropped}
InFile == {file[i] : i \in (Start(cursor) + 1)..Len(file)}
Lost == accepted \ (Done \cup {file[i] : i \in 1..Len(file)})

\* The contract of a 202 (ingestresp: "durably queued, will be processed"): an
\* accepted record has been sent on, or the drain will still read it.
NothingLost == accepted \subseteq Done \cup InFile

\* What is deleted unsent is what was appended between the read that found the
\* file drained and the rotation taking the mutex, or what was written behind the
\* cursor of an earlier file, when a process ended between removing that file and
\* clearing its cursor; nothing else is ever lost.
LostOnlyInRotationWindow ==
  [][\A r \in Lost' \ Lost :
       pc = "rotate" /\ (orphan \/ \E i \in (last + 1)..Len(file) : file[i] = r)]_vars

\* Every repeated delivery is the price of a crash, a shutdown, a lost reply, a
\* failed cursor write or a failed forward of the final drain: a restart resumes
\* where the cursor was left.
RedeliveryBounded == \A r \in Recs : delivered[r] <= 1 + faults

\* A shutdown that does not run out of time leaves no backlog on disk
\* (reader.go: "so the next reader version doesn't take over with our backlog").
ExitDrained == phase = "exited" => \A r \in accepted : r \in Done

\* A refusal the contract calls transient (429) does not discard the record.
TransientNotDropped == \A d \in dropped : d[2] = "full" => delivered[d[1]] > 0

\* Everything accepted reaches the writer, or is refused by it.
EverythingSent == \A r \in Recs : r \in accepted ~> r \in Done

\* With rotation out of the way the buffer is an ordered at-least-once queue.
Queue == INSTANCE AtLeastOnceQueue WITH submitted <- written, done <- Done
ImplementsQueue == Queue!QSpec

\* Below the rotation limit no accepted record is lost, and a record sent again
\* is paid for by a fault.
ForwarderSafe == TypeOK /\ NothingLost /\ RedeliveryBounded

\* The forwarder is an ordered at-least-once queue that is drained in the end.
ImplementsFairQueue == ImplementsQueue /\ EverythingSent
=============================================================================
