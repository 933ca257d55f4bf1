------------------------------ MODULE CfPoller ------------------------------
(***************************************************************************)
(* The Cloudflare poller (internal/cfpoller): firewall events carry a      *)
(* timestamp of one second; pages are cut anywhere, also inside a second.  *)
(* The cursor is a second and the events already stored at it, and is      *)
(* stored in one transaction with the rows of the page.  Several events    *)
(* with the same content are told apart by their number (eventKey), so     *)
(* here every event has an identity.                                       *)
(***************************************************************************)
EXTENDS Integers, FiniteSets, FiniteSetsExt

CONSTANTS
  CfIds,              \* events of one second
  PageSize, SecondLimit, MaxPagesPerZone, CfLag, MaxLookback, CfInterval, CfMaxBackoff,
  CfMaxTime,          \* bound: seconds
  CfMaxEvents,        \* bound: events
  CfMaxFaults         \* bound: failed queries and inserts, full files, restarts

ASSUME CfAssumption ==
  /\ {PageSize, SecondLimit, MaxPagesPerZone, CfInterval} \subseteq Nat \ {0}
  /\ PageSize <= SecondLimit /\ CfLag \in Nat /\ MaxLookback \in Nat /\ MaxLookback > CfLag

VARIABLES
  cfNow,
  cfEvents,    \* events Cloudflare has: [at, id]; each within CfLag of its second
  cfCursor,    \* the stored cursor of the zone: [ts, seen], or NoCursor
  cfRows,      \* security_logs: how often each event was stored
  cfPass,      \* the pass over the zone: until, the cursor in memory, pages left
  cfFailures, cfNextPoll,
  cfSkipped,   \* events lost for a reason the poller reports
  cfFaults

cfVars == <<cfNow, cfEvents, cfCursor, cfRows, cfPass, cfFailures, cfNextPoll, cfSkipped, cfFaults>>

NoCursor == [ts |-> -1, seen |-> {}]
IdlePass == [pc |-> "idle", until |-> 0, now |-> 0, cur |-> NoCursor, pages |-> 0, fresh |-> {}, next |-> NoCursor, done |-> FALSE]
Stored(e) == IF e \in DOMAIN cfRows THEN cfRows[e] ELSE 0

\* An event shows up at Cloudflare.
CfEvent(at, i) ==
  LET e == [at |-> at, id |-> i]
  IN /\ Cardinality(cfEvents) < CfMaxEvents /\ at <= cfNow /\ cfNow - at < CfLag /\ e \notin cfEvents
     /\ cfEvents' = cfEvents \cup {e}
     /\ UNCHANGED <<cfNow, cfCursor, cfRows, cfPass, cfFailures, cfNextPoll, cfSkipped, cfFaults>>

\* A query's answers: in datetime order, cut at the limit, in any order within a second.
Answers(from, to, limit) ==
  LET all == {e \in cfEvents : e.at >= from /\ e.at <= to}
  IN {R \in SUBSET all : /\ Cardinality(R) = Min({limit, Cardinality(all)})
                         /\ \A e \in R, f \in all \ R : e.at <= f.at}

\* apply: what is new, and the cursor after it.
Fresh(cur, R) == {e \in R : ~(e.at = cur.ts /\ e \in cur.seen)}

\* Mutant: the next cursor does not remember what it has at its second.
ApplyForgets(cur, R) ==
  LET ts == Max({cur.ts} \cup {e.at : e \in Fresh(cur, R)})
  IN [ts |-> ts, seen |-> IF ts = cur.ts THEN cur.seen ELSE {}]

Apply(cur, R) ==
  LET ts == Max({cur.ts} \cup {e.at : e \in Fresh(cur, R)})
      at == {e \in Fresh(cur, R) : e.at = ts}
  IN [ts |-> ts, seen |-> IF ts = cur.ts THEN cur.seen \cup at ELSE at]

\* delay: doubling after every failed poll, or what the server asks for.
Delay(failures, retryAfter) ==
  IF failures = 0 THEN CfInterval
  ELSE Max({Min({CfInterval * 2^failures, CfMaxBackoff}), retryAfter})

PassEnds(failures, retryAfter) ==
  /\ cfPass' = IdlePass /\ cfFailures' = failures
  /\ cfNextPoll' = cfNow + Delay(failures, retryAfter)

\* pollZone begins with loadCursor, which skips ahead to the lookback window.
LoadCursor ==
  LET floor == cfNow - MaxLookback
      cur == IF cfCursor = NoCursor \/ cfCursor.ts < floor THEN [ts |-> Max({floor, 0}), seen |-> {}] ELSE cfCursor
  IN /\ cfPass = IdlePass /\ cfNow >= cfNextPoll
     /\ cfPass' = [IdlePass EXCEPT !.pc = "fetch", !.until = cfNow - CfLag, !.now = cfNow, !.cur = cur,
                                   !.pages = MaxPagesPerZone]
     /\ cfSkipped' = cfSkipped \cup {e \in cfEvents : Stored(e) = 0 /\ e.at < cur.ts}
     /\ UNCHANGED <<cfNow, cfEvents, cfCursor, cfRows, cfFailures, cfNextPoll, cfFaults>>

\* The window is read, or the pages of this tick are used up.
PollDone ==
  /\ cfPass.pc = "fetch" /\ (cfPass.cur.ts > cfPass.until \/ cfPass.pages = 0)
  /\ PassEnds(0, 0)
  /\ UNCHANGED <<cfNow, cfEvents, cfCursor, cfRows, cfSkipped, cfFaults>>

\* fetch and advance: a short page ends the window; a full page of rows already
\* stored, all at the cursor's second, cannot be got past by paging.
FetchPage(R) ==
  LET cur == cfPass.cur  fresh == Fresh(cur, R)  next == Apply(cur, R)
      short == Cardinality(R) < PageSize
      stalled == ~short /\ fresh = {} /\ next.ts = cur.ts
  IN /\ cfPass.pc = "fetch" /\ cfPass.cur.ts <= cfPass.until /\ cfPass.pages > 0
     /\ R \in Answers(cur.ts, cfPass.until, PageSize)
     /\ cfPass' = [cfPass EXCEPT !.pc = IF stalled THEN "drain" ELSE "store", !.fresh = fresh,
                                 !.next = IF short /\ next.ts < cfPass.until THEN [ts |-> cfPass.until, seen |-> {}] ELSE next,
                                 !.done = short]
     /\ UNCHANGED <<cfNow, cfEvents, cfCursor, cfRows, cfFailures, cfNextPoll, cfSkipped, cfFaults>>

\* drainSecond: that second alone with the largest limit, then on to the next one.
DrainSecond(R) ==
  LET cur == cfPass.cur
  IN /\ cfPass.pc = "drain" /\ R \in Answers(cur.ts, cur.ts, SecondLimit)
     /\ cfPass' = [cfPass EXCEPT !.pc = "store", !.fresh = Fresh(cur, R), !.next = [ts |-> cur.ts + 1, seen |-> {}]]
     /\ cfSkipped' = IF Cardinality(R) >= SecondLimit
                     THEN cfSkipped \cup {e \in cfEvents : e.at = cur.ts /\ e \notin R /\ Stored(e) = 0} ELSE cfSkipped
     /\ UNCHANGED <<cfNow, cfEvents, cfCursor, cfRows, cfFailures, cfNextPoll, cfFaults>>

\* IngestRecords: rows and cursor in one transaction; a full file takes only
\* the cursor.
StorePage(full) ==
  /\ cfPass.pc = "store"
  /\ ~full \/ cfFaults < CfMaxFaults
  /\ cfFaults' = cfFaults + (IF full THEN 1 ELSE 0)
  /\ cfRows' = IF full THEN cfRows
               ELSE [e \in DOMAIN cfRows \cup cfPass.fresh |-> Stored(e) + (IF e \in cfPass.fresh THEN 1 ELSE 0)]
  /\ cfSkipped' = IF full THEN cfSkipped \cup cfPass.fresh ELSE cfSkipped
  /\ cfCursor' = cfPass.next
  /\ IF cfPass.done THEN PassEnds(0, 0)
     ELSE /\ cfPass' = [cfPass EXCEPT !.pc = "fetch", !.cur = cfPass.next, !.pages = @ - 1, !.fresh = {}]
          /\ UNCHANGED <<cfFailures, cfNextPoll>>
  /\ UNCHANGED <<cfNow, cfEvents>>

\* A query or the transaction fails; a rate limit may name a longer wait.
PollFails(retryAfter) ==
  /\ cfPass.pc # "idle" /\ cfFaults < CfMaxFaults
  /\ cfFaults' = cfFaults + 1
  /\ PassEnds(cfFailures + 1, retryAfter)
  /\ UNCHANGED <<cfNow, cfEvents, cfCursor, cfRows, cfSkipped>>

\* A new process polls at once.
CfRestart ==
  /\ cfFaults < CfMaxFaults
  /\ cfFaults' = cfFaults + 1
  /\ cfPass' = IdlePass /\ cfFailures' = 0 /\ cfNextPoll' = cfNow
  /\ UNCHANGED <<cfNow, cfEvents, cfCursor, cfRows, cfSkipped>>

\* A pass takes less than a second of this clock, or many.
CfTick ==
  /\ cfNow < CfMaxTime
  /\ cfNow' = cfNow + 1
  /\ UNCHANGED <<cfEvents, cfCursor, cfRows, cfPass, cfFailures, cfNextPoll, cfSkipped, cfFaults>>

CfInit ==
  /\ cfNow = CfLag /\ cfEvents = {} /\ cfCursor = NoCursor /\ cfRows = [e \in {} |-> 0]
  /\ cfPass = IdlePass /\ cfFailures = 0 /\ cfNextPoll = 0 /\ cfSkipped = {} /\ cfFaults = 0

CfNext ==
  \/ \E at \in 0 .. CfMaxTime, i \in CfIds : CfEvent(at, i)
  \/ LoadCursor \/ PollDone
  \/ \E R \in SUBSET cfEvents : FetchPage(R) \/ DrainSecond(R)
  \/ \E full \in BOOLEAN : StorePage(full)
  \/ \E retryAfter \in {0, CfMaxBackoff} : PollFails(retryAfter)
  \/ CfRestart \/ CfTick

CfSpec == CfInit /\ [][CfNext]_cfVars

----------------------------------------------------------------------------
\* Correctness

\* No event is stored twice, and none the cursor has passed is missing, unless
\* the poller reported it lost: wherever pages are cut, a second overflows, a
\* pass fails or the process restarts.
StoredExactlyOnce ==
  \A e \in cfEvents :
    /\ Stored(e) <= 1
    /\ (e.at < cfCursor.ts \/ e \in cfCursor.seen) => (Stored(e) = 1 \/ e \in cfSkipped)
=============================================================================
