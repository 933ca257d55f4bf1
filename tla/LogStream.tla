----------------------------- MODULE LogStream -----------------------------
(***************************************************************************)
(* Log entries: the batched insert with its retries and trim, the pages    *)
(* the dashboard reads, and the hub that hands stored entries to the live  *)
(* subscribers (internal/logstream, internal/service/logs,                 *)
(* internal/storage/logs.go, internal/api/logs.go).                        *)
(* The hub's list of channels is a Go slice: a publisher copies its header *)
(* under the lock and walks the shared array without it, while a cancel    *)
(* shifts that array in place.                                             *)
(***************************************************************************)
EXTENDS Integers, Sequences, FiniteSets, FiniteSetsExt, SequencesExt

CONSTANTS
  Subscribers,       \* each subscribes at most once, to one project or to all
  Publishers,        \* ingest requests for the project; each stores batch after batch
  BatchSizes,
  ChannelBuffer, InsertMaxAttempts,
  RetentionCap, TrimInterval, PageLimit,
  LsMaxRows          \* bound

ASSUME LsAssumption ==
  /\ {ChannelBuffer, InsertMaxAttempts, RetentionCap, TrimInterval, PageLimit} \subseteq Nat \ {0}
  /\ BatchSizes \subseteq Nat \ {0}

Lists == {"project", "all"}

VARIABLES
  lsRows, lsNext,   \* log_entries of the project, and the next id
  lsInserts,        \* logInsertCount
  lsArrays,         \* the arrays behind the slices, in the order they were made
  lsSlice,          \* Hub.subs: for each list its slice [array, len]
  lsChan,           \* per subscriber: state of its channel, its buffer, what it got
  lsPub,            \* the ingest requests
  lsPage,           \* a client that pages through the log
  lsPanics          \* history: sends on a closed channel

lsVars == <<lsRows, lsNext, lsInserts, lsArrays, lsSlice, lsChan, lsPub, lsPage, lsPanics>>
hub == <<lsArrays, lsSlice, lsChan>>
store == <<lsRows, lsNext, lsInserts>>

NoSlice == [array |-> 0, len |-> 0]
NewChan == [state |-> "none", list |-> "none", buffer |-> <<>>]
NewPub == [pc |-> "insert", attempts |-> 0, todo |-> {}, walk |-> <<>>, owed |-> {}, offered |-> <<>>, disturbed |-> FALSE]

Slots(slice) == IF slice.array = 0 THEN 0 ELSE Len(lsArrays[slice.array])

----------------------------------------------------------------------------
\* The hub

\* Subscribe: append to the list, in place while the array has room, into a
\* new array of twice the size otherwise.
Subscribe(c, list) ==
  LET s == lsSlice[list]
  IN /\ lsChan[c].state = "none"
     /\ lsChan' = [lsChan EXCEPT ![c].state = "open", ![c].list = list]
     /\ IF s.len < Slots(s)
        THEN /\ lsArrays' = [lsArrays EXCEPT ![s.array][s.len + 1] = c]
             /\ lsSlice' = [lsSlice EXCEPT ![list].len = @ + 1]
        ELSE /\ lsArrays' = Append(lsArrays, [i \in 1..Max({1, 2 * s.len}) |->
                                                IF i <= s.len THEN lsArrays[s.array][i]
                                                ELSE IF i = s.len + 1 THEN c ELSE "none"])
             /\ lsSlice' = [lsSlice EXCEPT ![list] = [array |-> Len(lsArrays) + 1, len |-> s.len + 1]]
     /\ UNCHANGED <<store, lsPub, lsPage, lsPanics>>

\* The cancel of a subscriber whose client went away: the rest of the array moves
\* down, the last slot keeps what it held, and the channel is closed.
Cancel(c) ==
  LET list == lsChan[c].list
      s    == lsSlice[list]
      a    == lsArrays[s.array]
      at   == Min({i \in 1..s.len : a[i] = c})
  IN /\ lsChan[c].state = "open"
     /\ lsArrays' = [lsArrays EXCEPT ![s.array] = [i \in DOMAIN a |-> IF i >= at /\ i < s.len THEN a[i + 1] ELSE a[i]]]
     /\ lsSlice' = [lsSlice EXCEPT ![list] = IF s.len = 1 THEN NoSlice ELSE [s EXCEPT !.len = @ - 1]]
     /\ lsChan' = [lsChan EXCEPT ![c].state = "closed", ![c].buffer = <<>>]
     /\ lsPub' = [p \in Publishers |-> [lsPub[p] EXCEPT !.disturbed = TRUE]]
     /\ UNCHANGED <<store, lsPage, lsPanics>>

\* serveLogsStream writes the next buffered entry to its client.
StreamEntry(c) ==
  /\ lsChan[c].state = "open" /\ lsChan[c].buffer # <<>>
  /\ lsChan' = [lsChan EXCEPT ![c].buffer = Tail(@)]
  /\ UNCHANGED <<store, lsArrays, lsSlice, lsPub, lsPage, lsPanics>>

\* The channels that are on a list.
Members(slice) == {lsArrays[slice.array][i] : i \in 1..slice.len}

\* A copied slice header, walked from its first channel on; nothing of an empty one.
Walk(slice) == IF slice.len = 0 THEN <<>> ELSE <<[array |-> slice.array, len |-> slice.len, at |-> 1]>>

\* Mutant: only the project's own subscribers are read.
ProjectOnly == Walk(lsSlice["project"])

\* Publish reads the slices of the project and of all projects ...
Headers == Walk(lsSlice["project"]) \o Walk(lsSlice["all"])

PublishCopy(p) ==
  /\ lsPub[p].pc = "publish" /\ lsPub[p].todo # {}
  /\ lsPub' = [lsPub EXCEPT ![p].pc = "send", ![p].walk = Headers, ![p].disturbed = FALSE,
                            ![p].owed = UNION {Members(lsSlice[l]) : l \in Lists}, ![p].offered = <<>>]
  /\ UNCHANGED <<store, hub, lsPage, lsPanics>>

\* ... and walks them without the lock: the channel is the one that is in the
\* array now.  A full buffer misses the entry; a closed channel panics, which
\* ends the request.
PublishSend(p) ==
  LET walk == lsPub[p].walk
      head == Head(walk)
      c    == lsArrays[head.array][head.at]
      rest == IF head.at = head.len THEN Tail(walk) ELSE [walk EXCEPT ![1].at = @ + 1]
  IN /\ lsPub[p].pc = "send" /\ walk # <<>>
     /\ IF lsChan[c].state = "closed"
        THEN /\ lsPanics' = lsPanics \cup {p}
             /\ lsPub' = [lsPub EXCEPT ![p].pc = "panicked"]
             /\ UNCHANGED lsChan
        ELSE /\ lsChan' = IF Len(lsChan[c].buffer) < ChannelBuffer
                          THEN [lsChan EXCEPT ![c].buffer = Append(@, Min(lsPub[p].todo))] ELSE lsChan
             /\ lsPub' = [lsPub EXCEPT ![p].walk = rest, ![p].offered = Append(@, c)]
             /\ UNCHANGED lsPanics
     /\ UNCHANGED <<store, lsArrays, lsSlice, lsPage>>

\* The entry has been published; the next one of the batch, or the answer.
PublishDone(p) ==
  /\ lsPub[p].pc = "send" /\ lsPub[p].walk = <<>>
  /\ lsPub' = [lsPub EXCEPT ![p].pc = IF Cardinality(lsPub[p].todo) = 1 THEN "answered" ELSE "publish",
                            ![p].todo = @ \ {Min(lsPub[p].todo)}]
  /\ UNCHANGED <<store, hub, lsPage, lsPanics>>

----------------------------------------------------------------------------
\* The store

Newest(rows, n) == {r \in rows : Cardinality({q \in rows : q > r}) < n}

\* Mutant: the trim takes the newest row.
TrimsNewest(rows) ==
  IF Cardinality(rows) > RetentionCap
  THEN {r \in rows : r < Max(rows)} ELSE rows

\* trimLogRetention: everything up to and with the oldest of the newest
\* RetentionCap rows goes, so one row fewer than the cap stays.
TrimLogRetention(rows) ==
  IF Cardinality(rows) > RetentionCap
  THEN {r \in rows : r > Min(Newest(rows, RetentionCap))} ELSE rows

\* InsertLogEntries: the rows in one transaction, the trim now and then.
InsertLogEntries(p, n) ==
  LET ids   == lsNext..(lsNext + n - 1)
      count == IF n >= TrimInterval THEN lsInserts ELSE (lsInserts + 1) % TrimInterval
      trims == n >= TrimInterval \/ count = 0
  IN /\ lsPub[p].pc = "insert" /\ lsNext + n - 1 <= LsMaxRows
     /\ lsNext' = lsNext + n
     /\ lsInserts' = count
     /\ lsRows' = IF trims THEN TrimLogRetention(lsRows \cup ids) ELSE lsRows \cup ids
     /\ lsPub' = [lsPub EXCEPT ![p].pc = "publish", ![p].todo = ids]
     /\ UNCHANGED <<hub, lsPage, lsPanics>>

\* Insert: a contended writer is tried again, any other failure or the last
\* attempt is the request's answer.  The rows go, and the batch may have been counted for
\* the trim: a trim or a commit that fails comes after the count.
InsertFails(p, contended) ==
  /\ lsPub[p].pc = "insert" /\ lsPub[p].attempts < InsertMaxAttempts
  /\ lsPub' = [lsPub EXCEPT ![p].attempts = @ + 1,
                            ![p].pc = IF contended /\ lsPub[p].attempts + 1 < InsertMaxAttempts THEN "insert" ELSE "failed"]
  /\ lsInserts' \in {lsInserts, (lsInserts + 1) % TrimInterval}
  /\ UNCHANGED <<lsRows, lsNext, hub, lsPage, lsPanics>>

\* The client sends its next batch.
NextBatch(p) ==
  /\ lsPub[p].pc \in {"answered", "failed", "panicked"}
  /\ lsPub' = [lsPub EXCEPT ![p] = NewPub]
  /\ lsPanics' = lsPanics \ {p}
  /\ UNCHANGED <<store, hub, lsPage>>

\* Mutant: the cursor is left out of the next page's query.
PageAgain(before) == Newest(lsRows, PageLimit)

\* ListLogEntries: the newest entries below the cursor.
ListLogEntries(before) == Newest({r \in lsRows : before = 0 \/ r < before}, PageLimit)

\* serveLogs: the next page; an empty one ends the list.
ServeLogs ==
  LET page == ListLogEntries(lsPage.before)
  IN /\ ~lsPage.done
     /\ lsPage' = [before |-> IF page = {} THEN 0 ELSE Min(page), seen |-> lsPage.seen \cup page,
                   again |-> lsPage.again \cup (lsPage.seen \cap page), done |-> page = {},
                   first |-> IF lsPage.before = 0 THEN lsRows ELSE lsPage.first]
     /\ UNCHANGED <<store, hub, lsPub, lsPanics>>

LsInit ==
  /\ lsRows = {} /\ lsNext = 1 /\ lsInserts = 0 /\ lsPanics = {}
  /\ lsArrays = <<>> /\ lsSlice = [l \in Lists |-> NoSlice]
  /\ lsChan = [c \in Subscribers |-> NewChan] /\ lsPub = [p \in Publishers |-> NewPub]
  /\ lsPage = [before |-> 0, seen |-> {}, again |-> {}, done |-> FALSE, first |-> {}]

LsNext ==
  \/ \E c \in Subscribers : Cancel(c) \/ StreamEntry(c) \/ \E list \in Lists : Subscribe(c, list)
  \/ \E p \in Publishers : \/ PublishCopy(p) \/ PublishSend(p) \/ PublishDone(p) \/ NextBatch(p)
                           \/ \E n \in BatchSizes : InsertLogEntries(p, n)
                           \/ \E contended \in BOOLEAN : InsertFails(p, contended)
  \/ ServeLogs

LsSpec == LsInit /\ [][LsNext]_lsVars

----------------------------------------------------------------------------
\* Correctness

Offers(p, c) == Cardinality({i \in DOMAIN lsPub[p].offered : lsPub[p].offered[i] = c})
Walked(p) == lsPub[p].pc = "send" /\ lsPub[p].walk = <<>>

\* A published entry is offered exactly once to every subscriber of its project
\* and of all projects, unless another subscriber left during the walk; and a
\* publisher panics only then.
PublishServesSubscribers ==
  \A p \in Publishers :
    /\ (Walked(p) /\ ~lsPub[p].disturbed) => \A c \in lsPub[p].owed : Offers(p, c) = 1
    /\ p \in lsPanics => lsPub[p].disturbed

\* What the comment of Publish says: every subscriber that is there from the
\* copy to the end gets the entry, once.
AllCurrentSubscribersServed ==
  \A p \in Publishers :
    Walked(p) => \A c \in lsPub[p].owed : lsChan[c].state = "open" => Offers(p, c) = 1

\* The newest entries stay, however the trims fall between the batches, and a
\* client that pages to the end has seen every entry that was there when it
\* began and is still there, and none twice.
NewestLogsKeptAndPaged ==
  /\ {r \in 1..(lsNext - 1) : r >= lsNext - (RetentionCap - 1)} \subseteq lsRows
  /\ lsPage.again = {}
  /\ lsPage.done => (lsPage.first \cap lsRows) \subseteq lsPage.seen

\* Log entries reach the live subscribers and the readers who page.
LogsReachReaders == PublishServesSubscribers /\ NewestLogsKeptAndPaged
=============================================================================
