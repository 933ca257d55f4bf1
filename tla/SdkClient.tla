----------------------------- MODULE SdkClient -----------------------------
(***************************************************************************)
(* The Go SDK (sdks/go): captures put events into a bounded queue, one     *)
(* goroutine sends them without retry, check-ins are sent by goroutines of *)
(* their own, and Flush, Shutdown and a second Init race all of them.      *)
(***************************************************************************)
EXTENDS Integers, Sequences, FiniteSets, SequencesExt

CONSTANTS
  SdkCallers,          \* goroutines of the application that capture and check in
  SdkQueueSize,
  SdkReasons,          \* what describeDrop may call the reason of a drop
  DropEvery,           \* one line per key of a drop log in so much time
  SdkMaxItems, SdkMaxInits, SdkMaxTime   \* bounds

ASSUME SdkAssumption == {SdkQueueSize, DropEvery} \subseteq Nat \ {0}

SdkKeys == {"event", "check-in"} \X SdkReasons

VARIABLES
  sdkTp,        \* the current transport, 0 for none; transports are numbered
  sdkInits,     \* transports made
  sdkT,         \* per transport: its queue, what it sends, whether the queue is closed,
                \* whether run has ended, its check-ins in flight
  sdkCall,      \* per caller: what it is doing with which transport
  sdkControl,   \* a goroutine in Flush, Shutdown or Init, which holds the mutex in Init
  sdkNext,      \* the next event or check-in
  sdkDrops,     \* per transport its dropLog.seen: per key when its last line was and the count since
  sdkNow,
  sdkDelivered, sdkLost,   \* history: what the server got, what was dropped
  sdkPrinted               \* history: per transport and key when it had a line on stderr, how many
                           \* drops its lines reported, and what was dropped

sdkVars == <<sdkTp, sdkInits, sdkT, sdkCall, sdkControl, sdkNext, sdkDrops, sdkNow, sdkDelivered, sdkLost, sdkPrinted>>
sdkLog == <<sdkDrops, sdkLost, sdkPrinted>>

NewTransport == [queue |-> <<>>, sending |-> 0, closed |-> FALSE, done |-> FALSE, checkins |-> {}]
FreshLog == [k \in SdkKeys |-> [last |-> 0, count |-> 0]]
NoLines == [k \in SdkKeys |-> [at |-> <<>>, count |-> 0, lost |-> {}]]
IdleCaller == [pc |-> "idle", t |-> 0]
NoControl == [pc |-> "none", t |-> 0, due |-> {}, late |-> {}]
Transports == 1..sdkInits
Locked == sdkControl.pc = "init"

----------------------------------------------------------------------------
\* The application

\* CaptureError, CaptureMessage and CheckIn read the transport under the mutex ...
CallBegins(c) ==
  /\ sdkCall[c].pc = "idle" /\ ~Locked /\ sdkTp # 0 /\ sdkNext <= SdkMaxItems
  /\ sdkCall' = [sdkCall EXCEPT ![c] = [pc |-> "holds", t |-> sdkTp]]
  /\ UNCHANGED <<sdkTp, sdkInits, sdkT, sdkControl, sdkNext, sdkNow, sdkDelivered, sdkLog>>

\* ... and use it without: enqueue, a full queue refuses the event.
EnqueueEvent(c) ==
  LET t == sdkCall[c].t
  IN /\ sdkCall[c].pc = "holds" /\ ~sdkT[t].closed
     /\ sdkT' = IF Len(sdkT[t].queue) < SdkQueueSize THEN [sdkT EXCEPT ![t].queue = Append(@, sdkNext)] ELSE sdkT
     /\ sdkNext' = sdkNext + 1
     /\ sdkCall' = [sdkCall EXCEPT ![c] = IdleCaller]
     /\ UNCHANGED <<sdkTp, sdkInits, sdkControl, sdkNow, sdkDelivered, sdkLog>>

\* A queue that was closed in between panics.
EnqueuePanics(c) ==
  /\ sdkCall[c].pc = "holds" /\ sdkT[sdkCall[c].t].closed
  /\ sdkCall' = [sdkCall EXCEPT ![c].pc = "panicked"]
  /\ UNCHANGED <<sdkTp, sdkInits, sdkT, sdkControl, sdkNext, sdkNow, sdkDelivered, sdkLog>>

\* CheckIn: counted in flight before its goroutine starts.
CheckInBegins(c) ==
  LET t == sdkCall[c].t
  IN /\ sdkCall[c].pc = "holds" /\ sdkNext <= SdkMaxItems
     /\ sdkT' = [sdkT EXCEPT ![t].checkins = @ \cup {sdkNext}]
     /\ sdkNext' = sdkNext + 1
     /\ sdkControl' = IF sdkControl.t = t THEN [sdkControl EXCEPT !.late = @ \cup {sdkNext}] ELSE sdkControl
     /\ sdkCall' = [sdkCall EXCEPT ![c] = IdleCaller]
     /\ UNCHANGED <<sdkTp, sdkInits, sdkNow, sdkDelivered, sdkLog>>

----------------------------------------------------------------------------
\* The transport

\* Mutant: the counter starts anew for a line that is held back.
RecordForgets(t, what, item, reason) ==
  LET k == <<what, reason>>
      c == sdkDrops[t][k]
      prints == c.last = 0 \/ sdkNow - c.last >= DropEvery
  IN /\ sdkLost' = sdkLost \cup {item}
     /\ sdkPrinted' = [sdkPrinted EXCEPT ![t][k] =
                         [at |-> IF prints THEN Append(@.at, sdkNow) ELSE @.at,
                          count |-> IF prints THEN @.count + 1 ELSE @.count,
                          lost |-> @.lost \cup {item}]]
     /\ sdkDrops' = [sdkDrops EXCEPT ![t][k] = [last |-> IF prints THEN sdkNow ELSE c.last, count |-> 0]]

\* dropLog.record, of the transport's own log: a line, or one more in the count.
Record(t, what, item, reason) ==
  LET k == <<what, reason>>
      c == sdkDrops[t][k]
      prints == c.last = 0 \/ sdkNow - c.last >= DropEvery
  IN /\ sdkLost' = sdkLost \cup {item}
     /\ sdkPrinted' = [sdkPrinted EXCEPT ![t][k] =
                         [at |-> IF prints THEN Append(@.at, sdkNow) ELSE @.at,
                          count |-> IF prints THEN @.count + c.count + 1 ELSE @.count,
                          lost |-> @.lost \cup {item}]]
     /\ sdkDrops' = [sdkDrops EXCEPT ![t][k] = [last |-> IF prints THEN sdkNow ELSE c.last,
                                              count |-> IF prints THEN 0 ELSE c.count + 1]]

Accepted(item) == sdkDelivered' = sdkDelivered \cup {item} /\ UNCHANGED sdkLog

\* run takes the next event off the queue ...
RunTakes(t) ==
  /\ sdkT[t].sending = 0 /\ sdkT[t].queue # <<>>
  /\ sdkT' = [sdkT EXCEPT ![t].sending = Head(sdkT[t].queue), ![t].queue = Tail(@)]
  /\ UNCHANGED <<sdkTp, sdkInits, sdkCall, sdkControl, sdkNext, sdkNow, sdkDelivered, sdkLog>>

\* ... and sends it once.
RunSends(t) ==
  /\ sdkT[t].sending # 0
  /\ sdkT' = [sdkT EXCEPT ![t].sending = 0]
  /\ \/ Accepted(sdkT[t].sending)
     \/ \E reason \in SdkReasons : Record(t, "event", sdkT[t].sending, reason) /\ UNCHANGED sdkDelivered
  /\ UNCHANGED <<sdkTp, sdkInits, sdkCall, sdkControl, sdkNext, sdkNow>>

RunReturns(t) ==
  /\ sdkT[t].closed /\ ~sdkT[t].done /\ sdkT[t].sending = 0 /\ sdkT[t].queue = <<>>
  /\ sdkT' = [sdkT EXCEPT ![t].done = TRUE]
  /\ UNCHANGED <<sdkTp, sdkInits, sdkCall, sdkControl, sdkNext, sdkNow, sdkDelivered, sdkLog>>

\* sendCheckIn
CheckInSent(t, i) ==
  /\ i \in sdkT[t].checkins
  /\ sdkT' = [sdkT EXCEPT ![t].checkins = @ \ {i}]
  /\ \/ Accepted(i)
     \/ \E reason \in SdkReasons : Record(t, "check-in", i, reason) /\ UNCHANGED sdkDelivered
  /\ UNCHANGED <<sdkTp, sdkInits, sdkCall, sdkControl, sdkNext, sdkNow>>

----------------------------------------------------------------------------
\* Flush, Shutdown, Init

\* What transport t still has to deliver.
Unsettled(t) == ToSet(sdkT[t].queue) \cup ({sdkT[t].sending} \ {0}) \cup sdkT[t].checkins

FlushBegins ==
  /\ sdkControl.pc \in {"none", "flushed", "stopped"} /\ sdkTp # 0
  /\ sdkControl' = [pc |-> "flush", t |-> sdkTp, due |-> Unsettled(sdkTp), late |-> {}]
  /\ UNCHANGED <<sdkTp, sdkInits, sdkT, sdkCall, sdkNext, sdkNow, sdkDelivered, sdkLog>>

\* Mutant: only the check-ins are waited for.
IdleOnly(t) == sdkT[t].checkins = {}

\* flush: the queue is empty and no check-in is being delivered.
Drained(t) == sdkT[t].queue = <<>> /\ sdkT[t].checkins = {}

FlushTrue ==
  /\ sdkControl.pc = "flush" /\ Drained(sdkControl.t)
  /\ sdkControl' = [sdkControl EXCEPT !.pc = "flushed"]
  /\ UNCHANGED <<sdkTp, sdkInits, sdkT, sdkCall, sdkNext, sdkNow, sdkDelivered, sdkLog>>

Close(t) == sdkT' = [sdkT EXCEPT ![t].closed = TRUE]

\* Shutdown takes the transport, closes its queue and waits.
ShutdownBegins ==
  /\ sdkControl.pc \in {"none", "flushed", "stopped"} /\ sdkTp # 0
  /\ sdkControl' = [pc |-> "stopping", t |-> sdkTp, due |-> Unsettled(sdkTp), late |-> {}]
  /\ sdkTp' = 0 /\ Close(sdkTp)
  /\ UNCHANGED <<sdkInits, sdkCall, sdkNext, sdkNow, sdkDelivered, sdkLog>>

ShutdownTrue ==
  /\ sdkControl.pc = "stopping" /\ sdkT[sdkControl.t].done /\ sdkT[sdkControl.t].checkins = {}
  /\ sdkControl' = [sdkControl EXCEPT !.pc = "stopped"]
  /\ UNCHANGED <<sdkTp, sdkInits, sdkT, sdkCall, sdkNext, sdkNow, sdkDelivered, sdkLog>>

\* The deadline of a Flush or of a Shutdown passes.
GivesUp ==
  /\ sdkControl.pc \in {"flush", "stopping"}
  /\ sdkControl' = NoControl
  /\ UNCHANGED <<sdkTp, sdkInits, sdkT, sdkCall, sdkNext, sdkNow, sdkDelivered, sdkLog>>

\* Init shuts the old transport down under the mutex, for at most two seconds ...
InitBegins ==
  /\ sdkControl.pc \in {"none", "flushed", "stopped"} /\ sdkInits < SdkMaxInits
  /\ sdkControl' = [NoControl EXCEPT !.pc = "init", !.t = sdkTp]
  /\ IF sdkTp = 0 THEN UNCHANGED sdkT ELSE Close(sdkTp)
  /\ UNCHANGED <<sdkTp, sdkInits, sdkCall, sdkNext, sdkNow, sdkDelivered, sdkLog>>

\* ... and makes the new one, which has a drop log of its own.
InitDone ==
  /\ sdkControl.pc = "init"
  /\ sdkInits' = sdkInits + 1 /\ sdkTp' = sdkInits + 1
  /\ sdkT' = Append(sdkT, NewTransport)
  /\ sdkDrops' = Append(sdkDrops, FreshLog) /\ sdkPrinted' = Append(sdkPrinted, NoLines)
  /\ sdkControl' = NoControl
  /\ UNCHANGED <<sdkCall, sdkNext, sdkNow, sdkDelivered, sdkLost>>

SdkTick ==
  /\ sdkNow < SdkMaxTime
  /\ sdkNow' = sdkNow + 1
  /\ UNCHANGED <<sdkTp, sdkInits, sdkT, sdkCall, sdkControl, sdkNext, sdkDelivered, sdkLog>>

SdkInit ==
  /\ sdkTp = 0 /\ sdkInits = 0 /\ sdkT = <<>> /\ sdkCall = [c \in SdkCallers |-> IdleCaller]
  /\ sdkControl = NoControl /\ sdkNext = 1 /\ sdkNow = 1
  /\ sdkDrops = <<>> /\ sdkPrinted = <<>>
  /\ sdkDelivered = {} /\ sdkLost = {}

SdkNext ==
  \/ \E c \in SdkCallers : CallBegins(c) \/ EnqueueEvent(c) \/ EnqueuePanics(c) \/ CheckInBegins(c)
  \/ \E t \in Transports : \/ RunTakes(t) \/ RunSends(t) \/ RunReturns(t)
                           \/ \E i \in 1..SdkMaxItems : CheckInSent(t, i)
  \/ FlushBegins \/ FlushTrue \/ ShutdownBegins \/ ShutdownTrue \/ GivesUp \/ InitBegins \/ InitDone \/ SdkTick

SdkSpec == SdkInit /\ [][SdkNext]_sdkVars

----------------------------------------------------------------------------
\* Correctness

\* The drops with this key that a transport reported or keeps for the next line.
Counted(t, k) == sdkPrinted[t][k].count + sdkDrops[t][k].count

\* A Shutdown that returns true has settled all that was queued or in flight
\* when it began; a Flush that returns true has too, but for the one event that
\* run was sending.
DrainedMeansSettled ==
  LET left == sdkControl.due \ (sdkDelivered \cup sdkLost)
  IN /\ sdkControl.pc = "stopped" => left = {}
     /\ sdkControl.pc = "flushed" => Cardinality(left) <= 1

\* Every drop is in the log of the one transport that had the item, under one key:
\* on stderr or in the key's count for its next line, whichever goroutines drop and
\* however often Init is called; and a key has one line per DropEvery.  (A count that
\* waits in the log of a transport that Init replaced is reported only if that
\* transport drops again, and the new one starts with lines of its own.)
DropsAccounted ==
  /\ \A t \in Transports, k \in SdkKeys :
       LET at == sdkPrinted[t][k].at
       IN /\ \A i, j \in DOMAIN at : i < j => at[j] - at[i] >= DropEvery
          /\ Counted(t, k) = Cardinality(sdkPrinted[t][k].lost)
  /\ \A t, u \in Transports : \A k, l \in SdkKeys :
       <<t, k>> # <<u, l>> => sdkPrinted[t][k].lost \cap sdkPrinted[u][l].lost = {}
  /\ sdkLost = UNION {sdkPrinted[t][k].lost : t \in Transports, k \in SdkKeys}

\* No event disappears silently: what is waited for is settled, what is dropped
\* is counted.
EventsAccounted == DrainedMeansSettled /\ DropsAccounted
=============================================================================
