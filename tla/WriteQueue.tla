----------------------------- MODULE WriteQueue -----------------------------
(***************************************************************************)
(* The Redis write queue (internal/queue) and the writer pod's Consumer    *)
(* (internal/ingestproc/consumer.go).  Reader pods LPUSH entries of one or *)
(* more items; the single writer moves an entry into its processing list   *)
(* (BLMOVE), stores the items one by one, and acks the entry (LREM).  A    *)
(* shutdown hands the unfinished tail of an entry back to the queue; a     *)
(* start, and a failed read, first moves the processing list back.         *)
(*                                                                         *)
(* Both lists are written oldest entry first.  An entry is the sequence of *)
(* its items and is its own payload, which is what LREM compares.          *)
(***************************************************************************)
EXTENDS Integers, Sequences, FiniteSets, SequencesExt

CONSTANTS
  MaxItems,    \* bound: items ever published
  MaxBatch,    \* bound: items of one entry (maxItemsPerBatch)
  MaxRetries,  \* consumerMaxRetries
  Telemetry,   \* the items of kind security or metrics,
  Events,      \* and those of kind event; the rest are logs
  Faults,      \* "crash", "reserve", "ack", "requeue": what may go wrong
  MaxFaults,   \* bound: of those
  MaxStops     \* bound: orderly shutdowns

ASSUME WriteQueueAssumption ==
  /\ MaxItems \in Nat /\ MaxBatch \in Nat \ {0} /\ MaxRetries \in Nat \ {0}
  /\ Telemetry \subseteq Nat /\ Events \subseteq Nat \ Telemetry /\ MaxFaults \in Nat /\ MaxStops \in Nat
  /\ Faults \subseteq {"crash", "reserve", "ack", "requeue"}

Items == 1..MaxItems

VARIABLES
  queue,       \* bugbarn:write-queue, next entry to be taken first
  processing,  \* bugbarn:write-queue:processing:writer
  pc,          \* the consumer: replay, ready, batch, item, requeue, ack, stopped
  stopping,    \* its context is canceled
  delivery,    \* the entry it holds
  i,           \* the item it is at
  attempt,     \* attempts at that item
  published,   \* how many items were published
  ran,         \* how often each item's effects were applied in full
  torn,        \* how often an attempt at it failed that may have left a part of them
  final,       \* items with a final disposition: stored, parked or unprocessable
  gaveUp,      \* items dropped after an error the retries did not cure
  faults, stops

redis == <<queue, processing>>
disposed == <<ran, torn, final, gaveUp>>
vars == <<redis, pc, stopping, delivery, i, attempt, published, disposed, faults, stops>>

Entry(e) == e # <<>> /\ \A k \in 1..Len(e) : e[k] \in 1..published

\* The shape of every variable; while the consumer works on an entry, that entry
\* is in the processing list and the position is inside it.
TypeOK ==
  /\ \A k \in 1..Len(queue) : Entry(queue[k])
  /\ \A k \in 1..Len(processing) : Entry(processing[k])
  /\ pc \in {"replay", "ready", "batch", "item", "requeue", "ack", "stopped"}
  /\ stopping \in BOOLEAN /\ attempt \in 0..MaxRetries
  /\ i \in 0..(MaxBatch + 1) /\ published \in 0..MaxItems
  /\ pc \in {"batch", "item", "requeue", "ack"} =>
       delivery \in Range(processing) /\ i \in 1..(Len(delivery) + 1)
  /\ pc \in {"item", "requeue"} => i <= Len(delivery)
  /\ ran \in [Items -> 0..(MaxFaults + MaxStops + 2)] /\ torn \in [Items -> Nat]
  /\ final \subseteq 1..published /\ gaveUp \subseteq 1..published
  /\ faults \in 0..MaxFaults /\ stops \in 0..MaxStops

Init ==
  /\ queue = <<>> /\ processing = <<>>
  /\ pc = "replay" /\ stopping = FALSE /\ delivery = <<>> /\ i = 0 /\ attempt = 0
  /\ published = 0 /\ ran = [x \in Items |-> 0] /\ torn = [x \in Items |-> 0]
  /\ final = {} /\ gaveUp = {}
  /\ faults = 0 /\ stops = 0

Fault(kind) == kind \in Faults /\ faults < MaxFaults /\ faults' = faults + 1

-----------------------------------------------------------------------------
\* A reader's Publish: one LPUSH of the next k items.
Publish(k) ==
  /\ published + k <= MaxItems
  /\ published' = published + k
  /\ queue' = Append(queue, [j \in 1..k |-> published + j])
  /\ UNCHANGED <<processing, pc, stopping, delivery, i, attempt, disposed, faults, stops>>

-----------------------------------------------------------------------------
\* RecoverProcessing, one LMOVE LEFT RIGHT: the newest entry goes to the
\* consuming end.  An LMOVE that fails leaves the rest for the next attempt.
RecoverOne ==
  /\ pc = "replay" /\ ~stopping /\ processing # <<>>
  /\ queue' = <<Last(processing)>> \o queue
  /\ processing' = Front(processing)
  /\ UNCHANGED <<pc, stopping, delivery, i, attempt, published, disposed, faults, stops>>

RecoverDone ==
  /\ pc = "replay" /\ ~stopping /\ processing = <<>>
  /\ pc' = "ready"
  /\ UNCHANGED <<redis, stopping, delivery, i, attempt, published, disposed, faults, stops>>

\* Mutant: the entry is popped instead of moved.
ReservePops ==
  /\ queue' = Tail(queue)
  /\ UNCHANGED processing

\* BLMOVE RIGHT LEFT.
Move ==
  /\ queue' = Tail(queue)
  /\ processing' = Append(processing, Head(queue))

Reserve ==
  /\ pc = "ready" /\ ~stopping /\ queue # <<>>
  /\ Move
  /\ delivery' = Head(queue) /\ i' = 1 /\ pc' = "batch"
  /\ UNCHANGED <<stopping, attempt, published, disposed, faults, stops>>

\* Mutant: a failed read is not followed by a replay.
FailedReadGoesOn ==
  /\ pc = "ready" /\ ~stopping
  /\ \/ queue # <<>> /\ Move
     \/ UNCHANGED redis
  /\ Fault("reserve")
  /\ UNCHANGED <<pc, stopping, delivery, i, attempt, published, disposed, stops>>

\* The call fails before or after Redis has moved the entry: in either case
\* the writer holds nothing and replays the list.
ReserveFails ==
  /\ pc = "ready" /\ ~stopping
  /\ \/ queue # <<>> /\ Move
     \/ UNCHANGED redis
  /\ Fault("reserve")
  /\ pc' = "replay"
  /\ UNCHANGED <<stopping, delivery, i, attempt, published, disposed, stops>>

\* The five seconds are over without an entry.
ReserveIdle ==
  /\ pc = "ready" /\ ~stopping /\ queue = <<>>
  /\ UNCHANGED vars

-----------------------------------------------------------------------------
\* processBatch: the loop over the items.
BeginItem ==
  /\ pc = "batch" /\ i <= Len(delivery) /\ ~stopping
  /\ pc' = "item" /\ attempt' = 1
  /\ UNCHANGED <<redis, stopping, delivery, i, published, disposed, faults, stops>>

\* Mutant: the whole entry is handed back.
RequeuesAll ==
  /\ pc = "batch" /\ i <= Len(delivery) /\ stopping
  /\ pc' = "requeue" /\ i' = 1
  /\ UNCHANGED <<redis, stopping, delivery, attempt, published, disposed, faults, stops>>

BatchInterrupted ==
  /\ pc = "batch" /\ i <= Len(delivery) /\ stopping
  /\ pc' = "requeue"
  /\ UNCHANGED <<redis, stopping, delivery, i, attempt, published, disposed, faults, stops>>

BatchDone ==
  /\ pc = "batch" /\ i > Len(delivery)
  /\ pc' = "ack"
  /\ UNCHANGED <<redis, stopping, delivery, i, attempt, published, disposed, faults, stops>>

Item == delivery[i]

Effect(x) == ran' = [ran EXCEPT ![x] = IF @ < MaxFaults + MaxStops + 2 THEN @ + 1 ELSE @]

\* PersistProcessedEvent commits the issue's count, the event's row and its facets
\* in transactions of their own: an attempt at an event that fails may leave those
\* before the failure behind.  A batch of logs is one transaction.
Tears ==
  \/ UNCHANGED torn
  \/ Item \in Events /\ torn' = [torn EXCEPT ![Item] = @ + 1]

NextItem == pc' = "batch" /\ i' = i + 1 /\ attempt' = 0

\* "success": the item is persisted, or parked for a pending project.
ItemStored ==
  /\ pc = "item"
  /\ Effect(Item) /\ final' = final \cup {Item}
  /\ NextItem
  /\ UNCHANGED <<redis, stopping, delivery, published, torn, gaveUp, faults, stops>>

\* "parse_error", "decode_error", "dropped", "empty", "unknown_kind".
ItemUnprocessable ==
  /\ pc = "item"
  /\ final' = final \cup {Item}
  /\ NextItem
  /\ UNCHANGED <<redis, stopping, delivery, published, ran, torn, gaveUp, faults, stops>>

\* A transient error of an event or a log with attempts left.
ItemRetried ==
  /\ pc = "item" /\ ~stopping /\ Item \notin Telemetry
  /\ attempt < MaxRetries
  /\ attempt' = attempt + 1 /\ Tears
  /\ UNCHANGED <<redis, pc, stopping, delivery, i, published, ran, final, gaveUp, faults, stops>>

\* "persist_error", "insert_error", "held_error", "resolve_error",
\* "retry_exhausted": not a final disposition, but the loop moves on.  The
\* telemetry ingester has run its detections before it fails.
ItemFailed ==
  /\ pc = "item" /\ ~stopping
  /\ IF Item \in Telemetry THEN Effect(Item) ELSE UNCHANGED ran
  /\ Tears
  /\ gaveUp' = gaveUp \cup {Item}
  /\ NextItem
  /\ UNCHANGED <<redis, stopping, delivery, published, final, faults, stops>>

\* Mutant: an unfinished item is taken for handled.
UnfinishedIsHandled ==
  /\ pc = "item" /\ stopping
  /\ IF Item \in Telemetry THEN Effect(Item) ELSE UNCHANGED ran
  /\ Tears
  /\ NextItem
  /\ UNCHANGED <<redis, stopping, delivery, published, final, gaveUp, faults, stops>>

\* The same outcomes, or "transient_drop", once the shutdown has begun: the
\* tail that is handed back starts with this item.
ItemInterrupted ==
  /\ pc = "item" /\ stopping
  /\ IF Item \in Telemetry THEN Effect(Item) ELSE UNCHANGED ran
  /\ Tears
  /\ pc' = "requeue"
  /\ UNCHANGED <<redis, stopping, delivery, i, attempt, published, final, gaveUp, faults, stops>>

-----------------------------------------------------------------------------
\* requeue: Publish of the unfinished tail, at the far end of the queue.
PushTail == queue' = Append(queue, SubSeq(delivery, i, Len(delivery)))

Requeue ==
  /\ pc = "requeue"
  /\ PushTail
  /\ pc' = "ack"
  /\ UNCHANGED <<processing, stopping, delivery, i, attempt, published, disposed, faults, stops>>

\* The LPUSH fails, or succeeds without an answer: the entry is not acked.
RequeueFails ==
  /\ pc = "requeue" /\ Fault("requeue")
  /\ PushTail \/ UNCHANGED queue
  /\ pc' = "stopped"
  /\ UNCHANGED <<processing, stopping, delivery, i, attempt, published, disposed, stops>>

\* Where Run goes after consumeOne: the canceled context ends the loop.
Loop == pc' = (IF stopping THEN "stopped" ELSE "ready")

\* LREM key 1 payload.
Ack ==
  /\ pc = "ack"
  /\ LET at == CHOOSE k \in 1..Len(processing) :
                 processing[k] = delivery /\ \A j \in (k + 1)..Len(processing) : processing[j] # delivery
     IN  processing' = RemoveAt(processing, at)
  /\ Loop
  /\ UNCHANGED <<queue, stopping, delivery, i, attempt, published, disposed, faults, stops>>

\* The LREM fails and is only logged.
AckFails ==
  /\ pc = "ack" /\ Fault("ack")
  /\ Loop
  /\ UNCHANGED <<redis, stopping, delivery, i, attempt, published, disposed, stops>>

-----------------------------------------------------------------------------
\* SIGTERM at any point; it is noticed where the code looks at the context.
Stop ==
  /\ ~stopping /\ stops < MaxStops
  /\ stopping' = TRUE /\ stops' = stops + 1
  /\ UNCHANGED <<redis, pc, delivery, i, attempt, published, disposed, faults>>

RunEnds ==
  /\ pc \in {"replay", "ready"} /\ stopping
  /\ pc' = "stopped"
  /\ UNCHANGED <<redis, stopping, delivery, i, attempt, published, disposed, faults, stops>>

\* Mutant: a new process does not replay the list.
StartsWithoutReplay ==
  /\ \/ pc = "stopped" /\ UNCHANGED faults
     \/ pc # "stopped" /\ Fault("crash")
  /\ pc' = "ready" /\ stopping' = FALSE /\ delivery' = <<>> /\ i' = 0 /\ attempt' = 0
  /\ UNCHANGED <<redis, published, disposed, stops>>

\* A new writer process, after the old one has stopped or was killed, which may
\* have cut an attempt short.
StartWriter ==
  /\ \/ pc = "stopped" /\ UNCHANGED faults
     \/ pc # "stopped" /\ Fault("crash")
  /\ IF pc = "item" THEN Tears ELSE UNCHANGED torn
  /\ pc' = "replay" /\ stopping' = FALSE /\ delivery' = <<>> /\ i' = 0 /\ attempt' = 0
  /\ UNCHANGED <<redis, published, ran, final, gaveUp, stops>>

-----------------------------------------------------------------------------
Recovery == RecoverOne \/ RecoverDone
Take == Reserve \/ ReserveFails \/ ReserveIdle
Batch == BeginItem \/ BatchInterrupted \/ BatchDone
Process == ItemStored \/ ItemUnprocessable \/ ItemRetried \/ ItemFailed \/ ItemInterrupted
Finish == Requeue \/ RequeueFails \/ Ack \/ AckFails
Lifecycle == Stop \/ RunEnds \/ StartWriter

Next == (\E k \in 1..MaxBatch : Publish(k))
          \/ Recovery \/ Take \/ Batch \/ Process \/ Finish \/ Lifecycle

Spec == Init /\ [][Next]_vars

\* The writer keeps running and is restarted; Redis calls that are repeated
\* succeed at some of the attempts (the faults are bounded).
FairSpec ==
  /\ Spec
  /\ WF_vars(Recovery \/ Take \/ Batch \/ Process \/ Finish)
  /\ WF_vars(RunEnds) /\ WF_vars(pc = "stopped" /\ StartWriter)

-----------------------------------------------------------------------------
InList(l) == UNION {Range(l[k]) : k \in 1..Len(l)}
Settled == final \cup gaveUp

\* Every published item is in one of the two lists until it is stored, parked,
\* found unprocessable, or given up on after its retries (bugbarn#257).
NothingLost == 1..published \subseteq Settled \cup InList(queue) \cup InList(processing)

\* An item that was stored in full is stored again only after a kill, a failed ack
\* or requeue, or a lost reply: an orderly shutdown repeats no item that it finished
\* ("Requeueing only the unfinished tail keeps the items already stored in this
\* batch from being stored again"), nor does a recovery that is itself interrupted.
\* For a log there is no other way.  An event is also repeated after an attempt that
\* failed between two of its transactions; of these there are at most MaxRetries each
\* time its entry is taken, and it is taken again only for one of those faults, or
\* for a shutdown that cut its attempt short and handed it back.
RepeatsHaveACause ==
  /\ \A x \in Items \ Telemetry : ran[x] <= 1 + faults
  /\ \A x \in Items : torn[x] <= MaxRetries * (1 + faults + stops)

\* persistTelemetry: "There is no retry ... a second attempt would count the
\* same lines twice".
TelemetryRunsOnce == faults = 0 => \A x \in Telemetry \cap Items : ran[x] <= 1

\* Without shutdowns the writer takes items in the order they were published,
\* whatever was replayed: no younger item is settled before an older one.
SettledInOrder == stops = 0 => \A x \in Settled : \A y \in 1..x : y \in Settled

\* What the writer promises of the queue at every moment: no item is lost,
\* repeated without a cause or overtaken by a younger one.
QueueSafe == TypeOK /\ NothingLost /\ RepeatsHaveACause /\ SettledInOrder

\* Every published item is settled.
EveryItemSettled == \A x \in Items : x <= published ~> x \in Settled

\* Without shutdowns the queue and its consumer are an ordered at-least-once
\* queue.
Queue == INSTANCE AtLeastOnceQueue WITH submitted <- published, done <- Settled
ImplementsQueue == Queue!QSpec
=============================================================================
