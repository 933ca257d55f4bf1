------------------------------ MODULE EventFeed ------------------------------
(***************************************************************************)
(* Reading events: the live stream (api/events.go streamEvents), which     *)
(* polls the newest events since a cursor and moves the cursor past what   *)
(* it wrote, and the pages of one issue's events, which go back from the   *)
(* newest by id.  An event carries the sender's observed time, which may   *)
(* be ahead of the clock, and the time it was received, which may be well  *)
(* before it is stored (a backlog in a spool or in the queue).             *)
(***************************************************************************)
EXTENDS Integers, FiniteSets, Sequences

CONSTANTS
  FeedLimit,       \* the newest events one poll may return (100)
  FeedLookback,    \* streamSince: how far back a new stream starts (15 minutes)
  EventPage,       \* listIssueEvents: limit
  Skews,           \* how far observed_at may be ahead of received_at
  Delays,          \* how long an event may wait before it is stored
  EfMaxTime,       \* bound: ticks
  EfMaxEvents,     \* bound: stored events
  EfMaxFaults      \* bound: failed queries and lost connections

ASSUME EventFeedAssumption ==
  /\ {FeedLimit, EventPage} \subseteq Nat \ {0} /\ Skews \cup Delays \subseteq Nat
  /\ {FeedLookback, EfMaxTime, EfMaxEvents, EfMaxFaults} \subseteq Nat

VARIABLES
  efNow,
  efEvents,    \* the events table: received_at and observed_at by id, in order of ids
  efRemoved,   \* the oldest ids, deleted by retention
  efSince, efCursor,    \* streamEvents: where the stream began, and its cursor
  efStream,    \* "off", "open", or "polled": open, and nothing stored since its last poll
  efWritten,   \* how often each event was written to the client
  efPages,     \* the pages of the issue's events: where the next ends, how often each id was shown
  efFaults

efVars == <<efNow, efEvents, efRemoved, efSince, efCursor, efStream, efWritten, efPages, efFaults>>

EventIds == 1 .. EfMaxEvents
LiveIds == {e \in DOMAIN efEvents : e > efRemoved}

\* When writeLiveEvents takes an event to have happened.
FeedTime(e) == IF efEvents[e].observed > efEvents[e].received THEN efEvents[e].observed ELSE efEvents[e].received

NotStreamed == [e \in EventIds |-> 0]

\* insertEvent
InsertEvent(skew, delay) ==
  /\ Len(efEvents) < EfMaxEvents
  /\ efEvents' = Append(efEvents, [received |-> efNow - delay, observed |-> efNow - delay + skew])
  /\ efStream' = IF efStream = "polled" THEN "open" ELSE efStream
  /\ UNCHANGED <<efNow, efRemoved, efSince, efCursor, efWritten, efPages, efFaults>>

\* Retention deletes the oldest event.
DeleteOldest ==
  /\ efRemoved < Len(efEvents)
  /\ efRemoved' = efRemoved + 1
  /\ UNCHANGED <<efNow, efEvents, efSince, efCursor, efStream, efWritten, efPages, efFaults>>

----------------------------------------------------------------------------
\* The live stream

\* streamEvents, streamSince
StreamOpens ==
  /\ efStream = "off"
  /\ efSince' = efNow - FeedLookback /\ efCursor' = efSince'
  /\ efStream' = "open" /\ efWritten' = NotStreamed
  /\ UNCHANGED <<efNow, efEvents, efRemoved, efPages, efFaults>>

\* The order of the poll's query, by received_at and id.
ReceivedBefore(e, f) ==
  \/ efEvents[e].received < efEvents[f].received
  \/ efEvents[e].received = efEvents[f].received /\ e < f

\* ListRecentEvents: the newest FeedLimit received at or after since.
ListRecentEvents(since) ==
  LET due == {e \in LiveIds : efEvents[e].received >= since}
  IN {e \in due : Cardinality({f \in due : ReceivedBefore(e, f)}) < FeedLimit}

\* writeLiveEvents: oldest first, an event later than the cursor is written and
\* becomes the cursor.
WritesOf(events) ==
  {e \in events : FeedTime(e) > efCursor /\ \A f \in events : ReceivedBefore(f, e) => FeedTime(f) < FeedTime(e)}

\* Mutant: the cursor goes to the clock.
CursorToClock(written) == efNow

NextCursor(written) ==
  IF written = {} THEN efCursor ELSE FeedTime(CHOOSE e \in written : \A f \in written : f = e \/ ReceivedBefore(f, e))

Poll ==
  /\ efStream = "open"
  /\ LET written == WritesOf(ListRecentEvents(efCursor))
     IN /\ efCursor' = NextCursor(written)
        /\ efWritten' = [e \in EventIds |-> efWritten[e] + (IF e \in written THEN 1 ELSE 0)]
  /\ efStream' = "polled"
  /\ UNCHANGED <<efNow, efEvents, efRemoved, efSince, efPages, efFaults>>

\* The query or the connection fails, which ends the stream.
StreamEnds ==
  /\ efStream # "off" /\ efFaults < EfMaxFaults
  /\ efFaults' = efFaults + 1 /\ efStream' = "off"
  /\ UNCHANGED <<efNow, efEvents, efRemoved, efSince, efCursor, efWritten, efPages>>

----------------------------------------------------------------------------
\* The pages of an issue's events

NoPages == [pc |-> "idle", before |-> 0, top |-> 0, shown |-> NotStreamed]

\* Mutant: the next page begins with the last event shown.
PageOverlaps(before) ==
  LET due == {e \in LiveIds : before > 0 => e <= before}
  IN {e \in due : Cardinality({f \in due : f > e}) < EventPage + 1}

\* ListIssueEvents: the newest EventPage + 1 before an id (0: from the newest).
ListIssueEvents(before) ==
  LET due == {e \in LiveIds : before > 0 => e < before}
  IN {e \in due : Cardinality({f \in due : f > e}) < EventPage + 1}

\* The rows of the page, without the extra one.
PageOf(rows) == {e \in rows : Cardinality({f \in rows : f > e}) < EventPage}
OldestId(ids) == CHOOSE e \in ids : \A f \in ids : e <= f
NewestId(ids) == CHOOSE e \in ids : \A f \in ids : f <= e

\* A reader asks for the next page; the extra row says whether there is one more.
NextPage ==
  /\ efPages.pc # "done"
  /\ LET rows == ListIssueEvents(efPages.before)
         page == PageOf(rows)
     IN efPages' = [pc |-> IF Cardinality(rows) > EventPage THEN "more" ELSE "done",
                    before |-> IF page = {} THEN efPages.before ELSE OldestId(page),
                    top |-> IF efPages.pc = "idle" /\ page # {} THEN NewestId(page) ELSE efPages.top,
                    shown |-> [e \in EventIds |-> efPages.shown[e] + (IF e \in page THEN 1 ELSE 0)]]
  /\ UNCHANGED <<efNow, efEvents, efRemoved, efSince, efCursor, efStream, efWritten, efFaults>>

EfTick ==
  /\ efNow < EfMaxTime
  /\ efNow' = efNow + 1
  /\ efStream' = IF efStream = "polled" THEN "open" ELSE efStream
  /\ UNCHANGED <<efEvents, efRemoved, efSince, efCursor, efWritten, efPages, efFaults>>

EfInit ==
  /\ efNow = 1 /\ efEvents = <<>> /\ efRemoved = 0 /\ efFaults = 0 /\ efPages = NoPages
  /\ efSince = 0 /\ efCursor = 0 /\ efStream = "off" /\ efWritten = NotStreamed

EfNext ==
  \/ \E skew \in Skews, delay \in Delays : InsertEvent(skew, delay)
  \/ DeleteOldest \/ StreamOpens \/ Poll \/ StreamEnds \/ NextPage \/ EfTick

EfSpec == EfInit /\ [][EfNext]_efVars

----------------------------------------------------------------------------
\* Correctness

StreamedIds == {e \in DOMAIN efEvents : efWritten[e] > 0}

\* What lets the stream pass over event e: one written that is not earlier and is
\* from the future, has the same time, or was stored before e; or FeedLimit others
\* that were received later and filled a poll.
PassedOver(e) ==
  \/ \E f \in StreamedIds :
       /\ FeedTime(f) >= efEvents[e].received
       /\ FeedTime(f) = FeedTime(e) \/ efEvents[f].observed > efEvents[f].received \/ f < e
  \/ Cardinality({f \in DOMAIN efEvents : ReceivedBefore(e, f)}) >= FeedLimit

\* The live stream writes no event twice, and after a poll the only events
\* received after its start and not written were passed over for a cause above:
\* with a backlog, two events in one instant, a sender's clock ahead, or a burst.
StreamSkipsHaveACause ==
  /\ \A e \in EventIds : efWritten[e] <= 1
  /\ efStream = "polled" =>
       \A e \in LiveIds : efEvents[e].received > efSince /\ e \notin StreamedIds => PassedOver(e)

\* A reader who pages back through an issue's events sees each one that is kept
\* all along exactly once, whatever is stored or deleted between two pages.
PagesShowEachEventOnce ==
  /\ \A e \in EventIds : efPages.shown[e] <= 1
  /\ efPages.pc = "done" => \A e \in LiveIds : e <= efPages.top => efPages.shown[e] = 1

\* The live stream and the pages show every event once, but for the skips that
\* have a cause.
FeedsShowEvents == StreamSkipsHaveACause /\ PagesShowEachEventOnce
=============================================================================
