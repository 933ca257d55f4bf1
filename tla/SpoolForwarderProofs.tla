------------------------ MODULE SpoolForwarderProofs ------------------------
(***************************************************************************)
(* Proofs about SpoolForwarder, for every value of its constants.          *)
(*                                                                         *)
(* A position of the file is Sent when every record up to it has been sent *)
(* on or refused.  The cursor, the end of the pass and the end that a      *)
(* rotation has read are all Sent, as long as the cursor is not an orphan; *)
(* the three results are about what that leaves to be lost.                *)
(***************************************************************************)
EXTENDS SpoolForwarder, TLAPS

\* A pass is inside the file it read, a rotation has closed it.
TypeInv == TypeOK /\ (pc = "forward" => next \in Nat \ {0}) /\ (pc \in {"reset", "reopen"} => ~fileOpen)

\* The file holds the newest records, without a gap.
FileInv ==
  /\ Len(file) <= written
  /\ \A k \in 1..Len(file) : file[k] = written - Len(file) + k

Sent(n) == \A k \in 1..Len(file) : k <= n => file[k] \in Done

CursorInv == exists /\ ~orphan => cursor <= Len(file) /\ Sent(cursor)

PassInv ==
  pc \in {"forward", "ack"} =>
    /\ exists
    /\ ~orphan => /\ offset = cursor /\ cursor <= ackedTo /\ ackedTo <= Len(file) /\ Sent(ackedTo)
                  /\ pc = "forward" => next = ackedTo + 1

RotationInv ==
  /\ pc = "rotate" /\ exists => last <= Len(file) /\ (~orphan => Sent(last))
  /\ pc = "reset" => ~exists
  /\ pc = "reopen" => ~exists /\ cursor = 0 /\ ~orphan

\* The places of the forwarder: file, cursor, pass and rotation.
Places == FileInv /\ CursorInv /\ PassInv /\ RotationInv

\* Without rotation the file holds every record and records are done in order.
WholeInv ==
  /\ exists /\ ~orphan /\ pc \in {"idle", "forward", "ack"} /\ Len(file) = written
  /\ \A x \in Done : \A y \in 1..x : y \in Done

\* How often a record can have been delivered beyond the faults so far: once more
\* when it is behind the cursor, or passed by a pass whose end will be written.  A
\* shutdown has paid for the pass it cuts short.
Slack(r) ==
  IF r <= cursor THEN 1
  ELSE IF pc \notin {"forward", "ack"} THEN 0
  ELSE (IF r <= ackedTo THEN 1 ELSE 0) - (IF phase = "stopping" THEN 1 ELSE 0)

RedeliveryInv ==
  /\ phase \in {"exited", "gaveup"} => pc = "idle"
  /\ \A r \in Recs : delivered[r] <= faults + Slack(r)

IInv == TypeInv /\ Places /\ WholeInv /\ RedeliveryInv

-----------------------------------------------------------------------------
(* What the operators of the model do. *)

\* A record at the pass's position is one that was written.
LEMMA NextIsWritten ==
  ASSUME TypeInv, pc = "forward", next <= last
  PROVE  /\ next \in 1..Len(file) /\ file[next] \in 1..written /\ file[next] \in Recs
<1>1. /\ file \in Seq(1..written) /\ written \in 0..MaxRecords
      /\ next \in Nat \ {0} /\ last \in Nat /\ last <= Len(file)
  BY DEF TypeInv, TypeOK
<1>2. next \in 1..Len(file)
  BY <1>1
<1>3. file[next] \in 1..written
  BY <1>1, <1>2
<1>4. \A r \in 1..written : r \in Recs
  BY <1>1, ForwarderAssumption DEF Recs
<1> QED
  BY <1>2, <1>3, <1>4

\* Appending the next record.
LEMMA Appended ==
  ASSUME TypeInv, written < MaxRecords, written' = written + 1, file' = Append(file, written')
  PROVE  /\ file' \in Seq(1..written') /\ Len(file') = Len(file) + 1 /\ written' \in 0..MaxRecords
         /\ \A k \in 1..Len(file) : file'[k] = file[k]
         /\ file'[Len(file) + 1] = written + 1
BY ForwarderAssumption DEF TypeInv, TypeOK

\* Done changes with the deliveries and the refusals, by their record.
LEMMA DoneSame == UNCHANGED outcome => Done' = Done
BY DEF outcome, Done

\* A delivery settles its record.
LEMMA DoneDelivered ==
  ASSUME TypeInv, NEW r \in Recs, Deliver(r), UNCHANGED dropped
  PROVE  Done' = Done \cup {r} /\ delivered' \in [Recs -> 0..(MaxFaults + 2)]
<1>1. delivered' \in [Recs -> 0..(MaxFaults + 2)]
  BY ForwarderAssumption DEF Deliver, TypeInv, TypeOK
<1>2. \A x \in Recs : delivered'[x] > 0 <=> (delivered[x] > 0 \/ x = r)
  BY ForwarderAssumption DEF Deliver, TypeInv, TypeOK
<1> QED
  BY <1>1, <1>2 DEF Done

\* A refusal settles its record.
LEMMA DoneRefused ==
  ASSUME TypeInv, NEW r \in Recs, NEW a \in {"rejected", "full"}, dropped' = dropped \cup {<<r, a>>}, UNCHANGED delivered
  PROVE  Done' = Done \cup {r} /\ dropped' \subseteq Recs \X {"rejected", "full"}
<1>1. <<r, a>>[1] = r
  OBVIOUS
<1>2. \A x : (\E d \in dropped' : x = d[1]) <=> (x = r \/ \E d \in dropped : x = d[1])
  <2> TAKE x
  <2>1. ASSUME NEW d \in dropped', x = d[1] PROVE x = r \/ \E e \in dropped : x = e[1]
    BY <1>1, <2>1
  <2>2. ASSUME x = r PROVE \E d \in dropped' : x = d[1]
    BY <1>1, <2>2
  <2>3. ASSUME NEW d \in dropped, x = d[1] PROVE \E e \in dropped' : x = e[1]
    BY <2>3
  <2> QED
    BY <2>1, <2>2, <2>3
<1>3. {d[1] : d \in dropped'} = {d[1] : d \in dropped} \cup {r}
  BY <1>2
<1>4. Done' = Done \cup {r}
  BY <1>3, Zenon DEF Done
<1>5. dropped' \subseteq Recs \X {"rejected", "full"}
  <2>1. dropped \subseteq Recs \X {"rejected", "full"} /\ <<r, a>> \in Recs \X {"rejected", "full"}
    BY DEF TypeInv, TypeOK
  <2> QED
    BY <2>1
<1> QED
  BY <1>4, <1>5

-----------------------------------------------------------------------------
(* Type correctness. *)

\* The first state has an empty file and no cursor.
LEMMA TypeInit == Init => TypeInv
<1> SUFFICES ASSUME Init PROVE TypeInv
  OBVIOUS
<1>1. /\ delivered \in [Recs -> 0..(MaxFaults + 2)] /\ file \in Seq(1..written)
  BY ForwarderAssumption DEF Init
<1>2. exists \in BOOLEAN /\ fileOpen \in BOOLEAN /\ orphan \in BOOLEAN
  BY Zenon DEF Init
<1> QED
  BY <1>1, <1>2, ForwarderAssumption DEF Init, TypeInv, TypeOK

\* No step of a handler, of the drain goroutine or of the process leaves the types.
LEMMA TypeStep == TypeInv /\ [Next]_vars => TypeInv'
<1> SUFFICES ASSUME TypeInv, [Next]_vars PROVE TypeInv'
  OBVIOUS
<1> USE ForwarderAssumption DEF TypeInv, TypeOK, local, disk, outcome
<1>1. CASE Forward \/ ForwardUnsynced
  <2>1. exists /\ written < MaxRecords /\ written' = written + 1 /\ file' = Append(file, written')
    BY <1>1 DEF Forward, ForwardUnsynced, CanAppend
  <2>2. /\ file' \in Seq(1..written') /\ Len(file') = Len(file) + 1 /\ written' \in 0..MaxRecords
    BY <2>1, Appended
  <2>3. accepted' \subseteq accepted \cup {written'}
    BY <1>1 DEF Forward, ForwardUnsynced
  <2>3a. accepted' \subseteq 1..written'
    BY <2>1, <2>2, <2>3
  <2>4. CASE Forward
    BY <2>1, <2>2, <2>3a, <2>4 DEF Forward
  <2>5. CASE ForwardUnsynced
    BY <2>1, <2>2, <2>3a, <2>5 DEF ForwardUnsynced, Fault
  <2> QED
    BY <1>1, <2>4, <2>5
<1>2. CASE ReadRecords
  BY <1>2 DEF ReadRecords, Start
<1>3. CASE ForwardOne
  <2>1. file[next] \in Recs
    BY <1>3, NextIsWritten DEF ForwardOne
  <2>2. delivered' \in [Recs -> 0..(MaxFaults + 2)]
    BY <1>3, <2>1, DoneDelivered DEF ForwardOne
  <2> QED
    BY <1>3, <2>2 DEF ForwardOne, Passed
<1>4. CASE ForwardRejected
  <2>1. file[next] \in Recs
    BY <1>4, NextIsWritten DEF ForwardRejected
  <2>2. dropped' \subseteq Recs \X {"rejected", "full"}
    BY <1>4, <2>1 DEF ForwardRejected
  <2> QED
    BY <1>4, <2>2 DEF ForwardRejected, Passed
<1>5. CASE ForwardFails
  BY <1>5 DEF ForwardFails, PassFails
<1>6. CASE ForwardLost
  <2>1. file[next] \in Recs
    BY <1>6, NextIsWritten DEF ForwardLost
  <2>2. delivered' \in [Recs -> 0..(MaxFaults + 2)]
    BY <1>6, <2>1, DoneDelivered DEF ForwardLost, PassFails
  <2> QED
    BY <1>6, <2>2 DEF ForwardLost, PassFails
<1>7. CASE PassDone
  BY <1>7 DEF PassDone
<1>8. CASE Ack
  BY <1>8 DEF Ack
<1>8a. CASE AckFails
  BY <1>8a DEF AckFails, Fault
<1>9. CASE ReadEmpty
  BY <1>9 DEF ReadEmpty
<1>10. CASE RotateRemove
  <2>1. fileOpen' \in BOOLEAN /\ exists' \in BOOLEAN
    BY <1>10, Zenon DEF RotateRemove
  <2>2. file' = <<>> /\ file' \in Seq(1..written')
    BY <1>10 DEF RotateRemove
  <2> QED
    BY <1>10, <2>1, <2>2 DEF RotateRemove
<1>11. CASE RotateRefused
  <2>1. fileOpen' \in BOOLEAN /\ faults' \in 0..MaxFaults
    <3>1. fileOpen' \in BOOLEAN
      BY <1>11, Zenon DEF RotateRefused
    <3> QED
      BY <1>11, <3>1 DEF RotateRefused, Fault
  <2>2. ~exists => ~fileOpen'
    BY <1>11 DEF RotateRefused
  <2> QED
    BY <1>11, <2>1, <2>2 DEF RotateRefused
<1>12. CASE RotateReset
  <2>1. orphan' \in BOOLEAN
    BY <1>12, Zenon DEF RotateReset
  <2>2. faults' \in 0..MaxFaults /\ cursor' \in Nat /\ pc' \in {"reopen", "idle"}
    BY <1>12 DEF RotateReset, Fault
  <2> QED
    BY <1>12, <2>1, <2>2 DEF RotateReset
<1>13. CASE RotateReopen
  <2>1. exists' \in BOOLEAN /\ fileOpen' \in BOOLEAN
    BY <1>13, Zenon DEF RotateReopen
  <2>2. faults' \in 0..MaxFaults
    BY <1>13 DEF RotateReopen, Fault
  <2> QED
    BY <1>13, <2>1, <2>2 DEF RotateReopen
<1>14. CASE Stop
  BY <1>14 DEF Stop, Fault
<1>15. CASE DrainReturns
  BY <1>15 DEF DrainReturns
<1>16. CASE DrainOnceDone
  BY <1>16 DEF DrainOnceDone
<1>16a. CASE GiveUp
  BY <1>16a DEF GiveUp
<1>17. CASE StartProcess
  <2>1. orphan' \in BOOLEAN /\ exists' \in BOOLEAN /\ fileOpen' \in BOOLEAN
    BY <1>17, Zenon DEF StartProcess
  <2> QED
    BY <1>17, <2>1 DEF StartProcess, Fault
<1>18. CASE UNCHANGED vars
  BY <1>18 DEF vars
<1> QED
  BY <1>1, <1>2, <1>3, <1>4, <1>5, <1>6, <1>7, <1>8, <1>8a, <1>9, <1>10, <1>11, <1>12, <1>13, <1>14,
     <1>15, <1>16, <1>16a, <1>17, <1>18
     DEF Next, Handler, Pass, Rotation, Process

\* The types of the spool forwarder hold in every behaviour, whatever fails.
THEOREM ForwarderTypes == Spec => []TypeOK
<1>1. TypeInv => TypeOK
  BY DEF TypeInv
<1> QED
  BY <1>1, TypeInit, TypeStep, PTL DEF Spec

-----------------------------------------------------------------------------
(* What a rotation may delete. *)

\* At the start the file is empty.
LEMMA PlacesInit == Init => Places
BY DEF Init, Places, FileInv, CursorInv, PassInv, RotationInv, Sent

\* A step that only appends leaves every place where it was.
LEMMA AppendKeepsPlaces ==
  ASSUME TypeInv, Places, Forward \/ ForwardUnsynced
  PROVE  Places'
<1> USE DEF TypeInv, TypeOK, Places
<1>1. /\ exists /\ written < MaxRecords /\ written' = written + 1 /\ file' = Append(file, written')
      /\ pc \notin {"reset", "reopen"}
      /\ UNCHANGED <<exists, cursor, orphan, pc, offset, next, last, ackedTo, outcome>>
  BY DEF Forward, ForwardUnsynced, CanAppend, local
<1>2. /\ Len(file') = Len(file) + 1 /\ written' \in 0..MaxRecords
      /\ \A k \in 1..Len(file) : file'[k] = file[k]
      /\ file'[Len(file) + 1] = written + 1
  BY <1>1, Appended
<1>3. Done' = Done
  BY <1>1, DoneSame
<1>4. ASSUME NEW n \in Nat, n <= Len(file), Sent(n)
      PROVE  n <= Len(file') /\ \A k \in 1..Len(file') : k <= n => file'[k] \in Done'
  <2>1. n <= Len(file')
    BY <1>2, <1>4
  <2>2. ASSUME NEW k \in 1..Len(file'), k <= n PROVE file'[k] \in Done'
    <3>1. k \in 1..Len(file)
      BY <1>2, <1>4, <2>2
    <3> QED
      BY <1>2, <1>3, <1>4, <2>2, <3>1 DEF Sent
  <2> QED
    BY <2>1, <2>2
<1>5. FileInv'
  BY <1>1, <1>2 DEF FileInv
<1>6. CursorInv'
  BY <1>1, <1>4 DEF CursorInv, Sent
<1>7. PassInv'
  BY <1>1, <1>2, <1>4 DEF PassInv, Sent
<1>8. RotationInv'
  BY <1>1, <1>2, <1>4 DEF RotationInv, Sent
<1> QED
  BY <1>5, <1>6, <1>7, <1>8

\* A record that was sent or refused: the end of the pass moves past it.
LEMMA PassedKeepsPlaces ==
  ASSUME TypeInv, Places, pc = "forward", next <= last, Passed, Done' = Done \cup {file[next]}
  PROVE  Places'
<1> USE DEF TypeInv, TypeOK, Places
<1>1. UNCHANGED <<file, exists, cursor, orphan, pc, offset, written>> /\ ackedTo' = next /\ next' = next + 1
  BY DEF Passed, disk
<1>2. ~orphan => \A k \in 1..Len(file) : k <= next => file[k] \in Done'
  BY <1>1 DEF PassInv, Sent
<1>3. FileInv' /\ RotationInv'
  BY <1>1 DEF FileInv, RotationInv
<1>4. CursorInv'
  BY <1>1 DEF CursorInv, Sent
<1>5. PassInv'
  BY <1>1, <1>2 DEF PassInv, Sent
<1> QED
  BY <1>3, <1>4, <1>5

\* No step takes a place past a record that is not done.
LEMMA PlacesStep == TypeInv /\ Places /\ [Next]_vars => Places'
<1> SUFFICES ASSUME TypeInv, Places, [Next]_vars PROVE Places'
  OBVIOUS
<1> USE DEF TypeInv, TypeOK, Places, FileInv, CursorInv, PassInv, RotationInv, local, disk
<1>0. UNCHANGED outcome => Done' = Done
  BY DoneSame
<1>1. CASE Forward \/ ForwardUnsynced
  BY <1>1, AppendKeepsPlaces DEF Places
<1>2. CASE ReadRecords
  BY <1>2, <1>0 DEF ReadRecords, Start, Sent
<1>3. CASE ForwardOne
  <2>1. Done' = Done \cup {file[next]}
    BY <1>3, NextIsWritten, DoneDelivered DEF ForwardOne
  <2> QED
    BY <1>3, <2>1, PassedKeepsPlaces DEF ForwardOne
<1>4. CASE ForwardRejected
  <2>1. Done' = Done \cup {file[next]}
    BY <1>4, NextIsWritten, DoneRefused DEF ForwardRejected
  <2> QED
    BY <1>4, <2>1, PassedKeepsPlaces DEF ForwardRejected
<1>5. CASE ForwardFails
  <2>1. Done' = Done
    BY <1>5, <1>0 DEF ForwardFails, PassFails, outcome
  <2> QED
    BY <1>5, <2>1 DEF ForwardFails, PassFails, Sent
<1>6. CASE ForwardLost
  <2>1. Done' = Done \cup {file[next]}
    BY <1>6, NextIsWritten, DoneDelivered DEF ForwardLost, PassFails
  <2> QED
    BY <1>6, <2>1 DEF ForwardLost, PassFails, Sent
<1>7. CASE PassDone
  BY <1>7, <1>0 DEF PassDone, Sent
<1>8. CASE Ack
  BY <1>8, <1>0 DEF Ack, Sent
<1>9. CASE AckFails
  BY <1>9, <1>0 DEF AckFails, Sent
<1>10. CASE ReadEmpty
  BY <1>10, <1>0 DEF ReadEmpty, Start, Sent
<1>11. CASE RotateRemove
  BY <1>11, <1>0 DEF RotateRemove, Sent
<1>12. CASE RotateRefused
  BY <1>12, <1>0 DEF RotateRefused, Sent
<1>13. CASE RotateReset
  BY <1>13, <1>0 DEF RotateReset, Sent
<1>14. CASE RotateReopen
  BY <1>14, <1>0 DEF RotateReopen, Sent
<1>15. CASE Stop \/ DrainReturns \/ DrainOnceDone \/ GiveUp
  <2>1. UNCHANGED <<disk, pc, local, written, outcome>>
    BY <1>15 DEF Stop, DrainReturns, DrainOnceDone, GiveUp
  <2> QED
    BY <1>0, <2>1 DEF Sent
<1>16. CASE StartProcess
  <2>1. UNCHANGED <<file, cursor, written>> /\ Done' = Done /\ pc' = "idle"
    BY <1>16, <1>0 DEF StartProcess
  <2>2. CASE exists
    BY <1>16, <2>1, <2>2 DEF StartProcess, Sent
  <2>3. CASE ~exists
    <3>1. Len(file) = 0
      BY <2>3
    <3>2. ~orphan' => cursor = 0
      BY <1>16, <2>3 DEF StartProcess
    <3> QED
      BY <2>1, <3>1, <3>2 DEF Sent
  <2> QED
    BY <2>2, <2>3
<1>17. CASE UNCHANGED vars
  BY <1>17, <1>0 DEF vars, Sent
<1> QED
  BY <1>1, <1>2, <1>3, <1>4, <1>5, <1>6, <1>7, <1>8, <1>9, <1>10, <1>11, <1>12, <1>13, <1>14, <1>15, <1>16, <1>17
     DEF Next, Handler, Pass, Rotation, Process

\* Every behaviour of the forwarder keeps its types and its places.
LEMMA PlacesAlways == Spec => [](TypeInv /\ Places)
BY TypeInit, TypeStep, PlacesInit, PlacesStep, PTL DEF Spec

\* What was done stays done.
LEMMA DoneGrows == TypeInv /\ [Next]_vars => Done \subseteq Done'
<1> SUFFICES ASSUME TypeInv, [Next]_vars PROVE Done \subseteq Done'
  OBVIOUS
<1>1. CASE ForwardOne \/ ForwardLost
  BY <1>1, NextIsWritten, DoneDelivered DEF ForwardOne, ForwardLost, PassFails
<1>2. CASE ForwardRejected
  BY <1>2, NextIsWritten, DoneRefused DEF ForwardRejected
<1>3. CASE ~(ForwardOne \/ ForwardLost \/ ForwardRejected)
  <2>1. UNCHANGED outcome
    BY <1>3 DEF Next, Handler, Pass, Rotation, Process, Forward, ForwardUnsynced, ReadRecords,
       ForwardFails, PassFails,
       PassDone, Ack, AckFails, ReadEmpty, RotateRemove, RotateRefused, RotateReset, RotateReopen, Stop, DrainReturns,
       DrainOnceDone, GiveUp, StartProcess, vars, outcome
  <2> QED
    BY <2>1, DoneSame
<1> QED
  BY <1>1, <1>2, <1>3

\* Records enter the file with a request and leave it with a rotation only.
LEMMA FileChanges ==
  [Next]_vars => Forward \/ ForwardUnsynced \/ RotateRemove \/ UNCHANGED <<file, accepted>>
BY DEF Next, Handler, Pass, Rotation, Process, ReadRecords, ForwardOne, ForwardRejected, Passed,
   ForwardFails, ForwardLost,
   PassFails, PassDone, Ack, AckFails, ReadEmpty, RotateRefused, RotateReset, RotateReopen, Stop, DrainReturns,
   DrainOnceDone, GiveUp, StartProcess, vars, disk

\* A record is lost only by the removal of a rotation, and then it was appended
\* after the read that found the file drained, or the cursor was an orphan.
LEMMA LossStep ==
  ASSUME TypeInv, Places, [Next]_vars, NEW r \in Lost' \ Lost
  PROVE  pc = "rotate" /\ (orphan \/ \E k \in (last + 1)..Len(file) : file[k] = r)
<1>0. Done \subseteq Done'
  BY DoneGrows
<1>1. CASE Forward \/ ForwardUnsynced
  <2>1. /\ written < MaxRecords /\ written' = written + 1 /\ file' = Append(file, written')
        /\ accepted' \subseteq accepted \cup {written'}
    BY <1>1 DEF Forward, ForwardUnsynced
  <2>2. /\ Len(file') = Len(file) + 1 /\ \A k \in 1..Len(file) : file'[k] = file[k]
        /\ file'[Len(file) + 1] = written' /\ Len(file) \in Nat
    BY <2>1, Appended DEF TypeInv, TypeOK
  <2> QED
    BY <1>0, <2>1, <2>2 DEF Lost
<1>2. CASE RotateRemove
  <2>1. exists /\ pc = "rotate" /\ UNCHANGED accepted
    BY <1>2 DEF RotateRemove, TypeInv, TypeOK
  <2>2. PICK k \in 1..Len(file) : file[k] = r /\ r \notin Done
    BY <1>0, <2>1 DEF Lost
  <2>3. ~orphan => ~(k <= last)
    BY <2>1, <2>2 DEF Places, RotationInv, Sent
  <2> QED
    BY <2>1, <2>2, <2>3 DEF TypeInv, TypeOK
<1>3. CASE UNCHANGED <<file, accepted>>
  BY <1>0, <1>3 DEF Lost
<1> QED
  BY <1>1, <1>2, <1>3, FileChanges

\* With any faults, crashes between the disk operations of a rotation included, an
\* accepted record is lost only by a rotation, and only when it was appended while
\* the rotation waited for the mutex or lay behind an orphaned cursor.
THEOREM RotationLossBounded == Spec => LostOnlyInRotationWindow
<1>1. TypeInv /\ Places /\ [Next]_vars =>
        [\A r \in Lost' \ Lost :
           pc = "rotate" /\ (orphan \/ \E i \in (last + 1)..Len(file) : file[i] = r)]_vars
  BY LossStep
<1> QED
  BY <1>1, PlacesAlways, PTL DEF Spec, LostOnlyInRotationWindow

-----------------------------------------------------------------------------
(* Below the rotation limit: nothing is lost and every repeat is paid for. *)

\* Rotation is off, or its limit is never reached.
BelowLimit == RotateBytes = 0 \/ RotateBytes > MaxRecords

\* The invariants without rotation hold initially.
LEMMA WholeInit == Init => WholeInv /\ RedeliveryInv
<1> SUFFICES ASSUME Init PROVE WholeInv /\ RedeliveryInv
  OBVIOUS
<1>1. Done = {}
  BY DEF Init, Done
<1>2. \A r \in Recs : delivered[r] = 0 /\ Slack(r) = 0
  BY DEF Init, Slack, Recs
<1> QED
  BY <1>1, <1>2 DEF Init, WholeInv, RedeliveryInv

\* A pass moves on from a prefix of done records: it completes the oldest one
\* that is outstanding, or repeats one.
LEMMA PassPosition ==
  ASSUME TypeInv, Places, WholeInv, pc = "forward", next <= last
  PROVE  /\ file[next] = next /\ next \in 1..written /\ next \in Recs /\ next = ackedTo + 1
         /\ \A y \in 1..(next - 1) : y \in Done
<1>1. next \in 1..Len(file) /\ file[next] \in Recs
  BY NextIsWritten
<1>2. file[next] = next /\ next = ackedTo + 1 /\ Len(file) = written
  BY <1>1 DEF TypeInv, TypeOK, Places, FileInv, PassInv, WholeInv
<1>3. \A y \in 1..(next - 1) : y \in 1..Len(file) /\ y <= ackedTo /\ file[y] = y
  BY <1>1, <1>2 DEF TypeInv, TypeOK, Places, FileInv
<1>4. Sent(ackedTo)
  BY DEF Places, PassInv, WholeInv
<1> QED
  BY <1>1, <1>2, <1>3, <1>4 DEF Sent

\* Below the limit no rotation begins, and records are done in order.
LEMMA WholeStep ==
  ASSUME BelowLimit, TypeInv, Places, WholeInv, [Next]_vars
  PROVE  WholeInv'
<1> USE DEF WholeInv
<1>1. CASE ForwardOne \/ ForwardLost \/ ForwardRejected
  <2>1. pc = "forward" /\ next <= last
    BY <1>1 DEF ForwardOne, ForwardLost, ForwardRejected
  <2>2. Done' = Done \cup {next}
    <3>1. CASE ForwardOne \/ ForwardLost
      BY <2>1, <3>1, PassPosition, DoneDelivered DEF ForwardOne, ForwardLost, PassFails
    <3>2. CASE ForwardRejected
      BY <2>1, <3>2, PassPosition, DoneRefused DEF ForwardRejected
    <3> QED
      BY <1>1, <3>1, <3>2
  <2>3. \A x \in Done' : \A y \in 1..x : y \in Done'
    BY <2>1, <2>2, PassPosition DEF TypeInv, TypeOK
  <2>4. UNCHANGED <<file, exists, orphan, written>> /\ pc' \in {"idle", "forward", "ack"}
    BY <1>1, <2>1 DEF ForwardOne, ForwardLost, ForwardRejected, PassFails, Passed, disk
  <2> QED
    BY <2>3, <2>4
<1>2. CASE ~(ForwardOne \/ ForwardLost \/ ForwardRejected)
  <2>1. UNCHANGED outcome /\ Done' = Done
    BY <1>2, DoneSame DEF Next, Handler, Pass, Rotation, Process, Forward, ForwardUnsynced, ReadRecords, ForwardFails,
       PassFails, PassDone, Ack, AckFails, ReadEmpty, RotateRemove, RotateRefused, RotateReset, RotateReopen, Stop,
       DrainReturns, DrainOnceDone, GiveUp, StartProcess, vars, outcome
  <2>2. CASE Forward \/ ForwardUnsynced
    <3>1. /\ written < MaxRecords /\ written' = written + 1 /\ file' = Append(file, written')
          /\ UNCHANGED <<exists, orphan, pc>>
      BY <2>2 DEF Forward, ForwardUnsynced
    <3> QED
      BY <2>1, <3>1, Appended
  <2>3. CASE ReadEmpty
    <3>1. ~(RotateBytes > 0 /\ Len(file) >= RotateBytes)
      BY ForwarderAssumption DEF BelowLimit, TypeInv, TypeOK
    <3> QED
      BY <2>1, <2>3, <3>1 DEF ReadEmpty, disk
  <2>4. CASE StartProcess
    BY <2>1, <2>4 DEF StartProcess
  <2>5. CASE Next /\ ~(Handler \/ ReadEmpty \/ StartProcess)
    <3>1. UNCHANGED <<file, exists, orphan, written>> /\ pc' \in {"idle", "forward", "ack"}
      BY <1>2, <2>5 DEF Next, Pass, Rotation, Process, ReadRecords, ForwardFails, PassFails, PassDone, Ack, AckFails,
         RotateRemove, RotateRefused, RotateReset, RotateReopen, Stop, DrainReturns, DrainOnceDone, GiveUp, disk
    <3> QED
      BY <2>1, <3>1
  <2>6. CASE UNCHANGED vars
    BY <2>1, <2>6 DEF vars, disk
  <2> QED
    BY <2>2, <2>3, <2>4, <2>5, <2>6 DEF Handler
<1> QED
  BY <1>1, <1>2

\* A repeated delivery has been paid for: a cut-off pass, a lost reply and a
\* cursor that was not written each cost a fault, and a written cursor none.
LEMMA RedeliveryStep ==
  ASSUME TypeInv, Places, WholeInv, RedeliveryInv, [Next]_vars
  PROVE  RedeliveryInv'
<1> USE DEF RedeliveryInv, Slack, local, disk, outcome
<1>a. /\ faults \in Nat /\ cursor \in Nat /\ ackedTo \in Nat /\ cursor' \in Nat /\ ackedTo' \in Nat
      /\ \A r \in Recs : r \in Nat /\ delivered[r] \in Nat /\ delivered'[r] \in Nat
  <2>1. TypeInv'
    BY TypeStep
  <2>2. faults \in Nat /\ cursor \in Nat /\ ackedTo \in Nat /\ cursor' \in Nat /\ ackedTo' \in Nat
    BY <2>1 DEF TypeInv, TypeOK
  <2>3. delivered \in [Recs -> 0..(MaxFaults + 2)] /\ delivered' \in [Recs -> 0..(MaxFaults + 2)]
    BY <2>1 DEF TypeInv, TypeOK
  <2>4. ASSUME NEW r \in Recs PROVE r \in Nat /\ delivered[r] \in Nat /\ delivered'[r] \in Nat
    BY <2>3, ForwarderAssumption DEF Recs
  <2> QED
    BY <2>2, <2>4
<1>0. pc \in {"forward", "ack"} => offset = cursor /\ cursor <= ackedTo
  BY DEF Places, PassInv, WholeInv
<1>1. CASE Forward
  BY <1>a, <1>1 DEF Forward
<1>1a. CASE ForwardUnsynced
  BY <1>a, <1>1a DEF ForwardUnsynced, Fault
<1>2. CASE ReadRecords
  BY <1>a, <1>2 DEF ReadRecords
<1>3. CASE ForwardOne
  <2>1. file[next] = next /\ next \in Recs /\ next = ackedTo + 1
    BY <1>3, PassPosition DEF ForwardOne
  <2>2. /\ UNCHANGED <<cursor, pc, phase, faults>> /\ ackedTo' = ackedTo + 1 /\ pc = "forward"
        /\ \A r \in Recs : delivered'[r] <= (IF r = next THEN delivered[r] + 1 ELSE delivered[r])
    BY <1>3, <2>1, ForwarderAssumption DEF ForwardOne, Passed, Deliver, TypeInv, TypeOK
  <2> QED
    BY <1>a, <1>0, <2>1, <2>2
<1>4. CASE ForwardRejected
  <2>1. next = ackedTo + 1
    BY <1>4, PassPosition DEF ForwardRejected
  <2>2. UNCHANGED <<cursor, pc, phase, faults, delivered>> /\ ackedTo' = ackedTo + 1 /\ pc = "forward"
    BY <1>4, <2>1 DEF ForwardRejected, Passed
  <2> QED
    BY <1>a, <1>0, <2>1, <2>2
<1>5. CASE ForwardFails
  <2>1. /\ UNCHANGED <<cursor, phase, ackedTo, delivered>> /\ pc = "forward"
        /\ pc' = (IF phase = "serving" THEN "ack" ELSE "idle")
        /\ phase \notin {"serving", "stopping"} => faults' = faults + 1
        /\ phase \in {"serving", "stopping"} => faults' = faults
    BY <1>5 DEF ForwardFails, PassFails
  <2> QED
    BY <1>a, <1>0, <2>1
<1>6. CASE ForwardLost
  <2>1. file[next] = next /\ next \in Recs /\ next = ackedTo + 1
    BY <1>6, PassPosition DEF ForwardLost
  <2>2. /\ UNCHANGED <<cursor, phase, ackedTo>> /\ pc = "forward" /\ faults' = faults + 1
        /\ pc' = (IF phase = "serving" THEN "ack" ELSE "idle")
        /\ \A r \in Recs : delivered'[r] <= (IF r = next THEN delivered[r] + 1 ELSE delivered[r])
    BY <1>6, <2>1, ForwarderAssumption DEF ForwardLost, PassFails, Deliver, TypeInv, TypeOK
  <2> QED
    BY <1>a, <1>0, <2>1, <2>2
<1>7. CASE PassDone
  BY <1>a, <1>7 DEF PassDone
<1>8. CASE Ack
  BY <1>a, <1>0, <1>8 DEF Ack
<1>9. CASE AckFails
  BY <1>a, <1>0, <1>9 DEF AckFails, Fault
<1>10. CASE ReadEmpty
  BY <1>a, <1>10 DEF ReadEmpty
<1>11. CASE RotateRemove \/ RotateRefused \/ RotateReset \/ RotateReopen
  BY <1>a, <1>11 DEF RotateRemove, RotateRefused, RotateReset, RotateReopen, WholeInv
<1>12. CASE Stop
  BY <1>a, <1>0, <1>12 DEF Stop, Fault
<1>13. CASE DrainReturns \/ DrainOnceDone \/ GiveUp
  <2>1. UNCHANGED <<cursor, pc, faults, delivered>> /\ pc = "idle"
    BY <1>13 DEF DrainReturns, DrainOnceDone, GiveUp
  <2> QED
    BY <1>a, <2>1
<1>14. CASE StartProcess
  BY <1>a, <1>0, <1>14 DEF StartProcess, Fault
<1>15. CASE UNCHANGED vars
  BY <1>a, <1>15 DEF vars
<1> QED
  BY <1>1, <1>1a, <1>2, <1>3, <1>4, <1>5, <1>6, <1>7, <1>8, <1>9, <1>10, <1>11, <1>12, <1>13, <1>14, <1>15
     DEF Next, Handler, Pass, Rotation, Process

\* The inductive invariant holds in every behaviour below the limit.
LEMMA Inductive == ASSUME BelowLimit PROVE Spec => []IInv
<1>1. Init => IInv
  BY TypeInit, PlacesInit, WholeInit DEF IInv
<1>2. IInv /\ [Next]_vars => IInv'
  BY TypeStep, PlacesStep, WholeStep, RedeliveryStep DEF IInv
<1> QED
  BY <1>1, <1>2, PTL DEF Spec

\* What the drain has not sent it will still read.
LEMMA WholeLosesNothing == ASSUME TypeInv, Places, WholeInv PROVE NothingLost
<1>1. Len(file) = written /\ Start(cursor) = cursor /\ Sent(cursor) /\ cursor \in 0..written /\ written \in Nat
  BY DEF TypeInv, TypeOK, Places, CursorInv, WholeInv, Start
<1>2. \A k \in 1..written : file[k] = k
  BY <1>1 DEF Places, FileInv
<1>3. ASSUME NEW r \in accepted PROVE r \in Done \cup InFile
  <2>1. r \in 1..written
    BY DEF TypeInv, TypeOK
  <2>2. CASE r <= cursor
    BY <1>1, <1>2, <2>1, <2>2 DEF Sent
  <2>3. CASE ~(r <= cursor)
    <3>1. r \in (Start(cursor) + 1)..Len(file) /\ file[r] = r
      BY <1>1, <1>2, <2>1, <2>3
    <3> QED
      BY <3>1 DEF InFile
  <2> QED
    BY <2>2, <2>3
<1> QED
  BY <1>3 DEF NothingLost

\* Below the rotation limit a 202 is kept, whatever crashes, stops, is lost or
\* fails to be written, and a record reaches the writer again only for a fault.
THEOREM ForwarderKeepsItsPromise == ASSUME BelowLimit PROVE Spec => []ForwarderSafe
<1>1. IInv => ForwarderSafe
  <2> SUFFICES ASSUME IInv PROVE ForwarderSafe
    OBVIOUS
  <2>1. TypeOK /\ NothingLost
    BY WholeLosesNothing DEF IInv, TypeInv
  <2>2. \A r \in Recs : Slack(r) <= 1 /\ Slack(r) \in Int /\ faults \in Nat /\ delivered[r] \in Nat
    BY ForwarderAssumption DEF IInv, TypeInv, TypeOK, Slack
  <2>3. RedeliveryBounded
    BY <2>2 DEF IInv, RedeliveryInv, RedeliveryBounded
  <2> QED
    BY <2>1, <2>3 DEF ForwarderSafe
<1> QED
  BY <1>1, Inductive, PTL

\* Below the limit every step of the forwarder is a step of an ordered at-least-once
\* queue or leaves it alone: a record sent again after a crash or a lost reply is a
\* stuttering step.
THEOREM ForwarderImplementsQueue == ASSUME BelowLimit PROVE Spec => ImplementsQueue
<1>1. Init => Queue!QInit
  BY DEF Init, Queue!QInit, Done
<1>2. ASSUME IInv, [Next]_vars PROVE [Queue!QNext]_(Queue!qvars)
  <2> USE <1>2
  <2>1. written \in Nat /\ TypeInv /\ Places /\ WholeInv
    BY DEF IInv, TypeInv, TypeOK
  <2>2. CASE Forward \/ ForwardUnsynced
    <3>1. Done' = Done
      BY <2>2, DoneSame DEF Forward, ForwardUnsynced
    <3> QED
      BY <2>1, <2>2, <3>1 DEF Forward, ForwardUnsynced, Queue!QNext, Queue!Submit
  <2>3. CASE ForwardOne \/ ForwardLost \/ ForwardRejected
    <3>1. pc = "forward" /\ next <= last /\ written' = written
      BY <2>3 DEF ForwardOne, ForwardLost, ForwardRejected, Passed, PassFails
    <3>2. file[next] = next /\ next \in 1..written /\ next \in Recs /\ \A y \in 1..(next - 1) : y \in Done
      BY <2>1, <3>1, PassPosition
    <3>3. Done' = Done \cup {next}
      <4>1. CASE ForwardOne \/ ForwardLost
        BY <2>1, <3>2, <4>1, DoneDelivered DEF ForwardOne, ForwardLost, PassFails
      <4>2. CASE ForwardRejected
        BY <2>1, <3>2, <4>2, DoneRefused DEF ForwardRejected
      <4> QED
        BY <2>3, <4>1, <4>2
    <3>4. CASE next \in Done
      BY <3>1, <3>3, <3>4 DEF Queue!qvars
    <3>5. CASE next \notin Done
      BY <3>1, <3>2, <3>3, <3>5 DEF Queue!QNext, Queue!Complete
    <3> QED
      BY <3>4, <3>5
  <2>4. CASE ~(Forward \/ ForwardUnsynced \/ ForwardOne \/ ForwardLost \/ ForwardRejected)
    <3>1. UNCHANGED outcome /\ written' = written
      BY <2>4 DEF Next, Handler, Pass, Rotation, Process, ReadRecords, ForwardFails, PassFails,
         PassDone, Ack, AckFails,
         ReadEmpty, RotateRemove, RotateRefused, RotateReset, RotateReopen, Stop, DrainReturns, DrainOnceDone, GiveUp,
         StartProcess, vars, outcome
    <3> QED
      BY <3>1, DoneSame DEF Queue!qvars
  <2> QED
    BY <2>2, <2>3, <2>4
<1> QED
  BY <1>1, <1>2, Inductive, PTL DEF Spec, ImplementsQueue, Queue!QSpec
=============================================================================
