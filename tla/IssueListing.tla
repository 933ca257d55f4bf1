---------------------------- MODULE IssueListing ----------------------------
(***************************************************************************)
(* Listing issues: the filtered and ordered page query, `bb issues --all`  *)
(* that follows hasMore by offset while events and status changes move the *)
(* issues underneath it.                                                   *)
(***************************************************************************)
EXTENDS Integers, FiniteSets

CONSTANTS
  LiIssues, LiFirst,    \* issue ids; the ones that exist at the start
  LiFilters, LiSorts,   \* the listings asked for
  LiPageSize, LiCap,    \* collectIssuePages: pageSize, maxIssues
  LiMaxTime,            \* bound: ticks
  LiMaxChanges,         \* bound: events and status changes
  LiMaxFaults           \* bound: failed reads

ASSUME IssueListingAssumption ==
  /\ LiIssues \subseteq Nat /\ IsFiniteSet(LiIssues) /\ LiFirst \subseteq LiIssues
  /\ LiFilters \subseteq {"all", "open", "regressed", "muted", "resolved"}
  /\ LiSorts \subseteq {"first_seen", "last_seen", "event_count"}
  /\ {LiPageSize, LiCap} \subseteq Nat \ {0}
  /\ {LiMaxTime, LiMaxChanges, LiMaxFaults} \subseteq Nat

VARIABLES
  liRows,        \* [LiIssues -> row of issues; event_count 0: no such issue]
  liNow, liVersion,   \* the clock; committed changes so far
  liWalk,        \* collectIssuePages: its state and the issues gathered so far
  liFaults

liVars == <<liRows, liNow, liVersion, liWalk, liFaults>>

ListingExists(rows, i) == rows[i].events > 0
OpenStatus == {"unresolved", "regressed"}

\* issueWhereConditions: the status filter.
Matching(rows, filter) ==
  {i \in LiIssues :
     /\ ListingExists(rows, i)
     /\ CASE filter = "open" -> rows[i].status \in OpenStatus
          [] filter = "regressed" -> rows[i].status \in OpenStatus /\ rows[i].regressions > 0
          [] filter = "muted" -> rows[i].status = "muted"
          [] filter = "resolved" -> rows[i].status = "resolved"
          [] OTHER -> TRUE}

SortKey(row, sort) ==
  CASE sort = "first_seen" -> row.first [] sort = "event_count" -> row.events [] OTHER -> row.last

\* issueOrderBy: the sort column descending, then the id descending; the open
\* list puts regressed issues first.
Precedes(rows, filter, sort, i, j) ==
  LET group(k) == IF filter = "open" /\ rows[k].status # "regressed" THEN 1 ELSE 0
      key(k) == SortKey(rows[k], sort)
  IN \/ group(i) < group(j)
     \/ group(i) = group(j) /\ (key(i) > key(j) \/ (key(i) = key(j) /\ i > j))

Rank(rows, filter, sort, i) ==
  Cardinality({j \in Matching(rows, filter) : j # i /\ Precedes(rows, filter, sort, j, i)})

\* Mutant: only the page itself is fetched.
NoExtraRow(rows, filter, sort, offset) ==
  LET fetched == {i \in Matching(rows, filter) : Rank(rows, filter, sort, i) \in offset .. offset + LiPageSize - 1}
  IN [issues |-> fetched, more |-> Cardinality(fetched) > LiPageSize]

\* listIssues: one row more than the page is fetched, and tells whether there is more.
ListIssuesPage(rows, filter, sort, offset) ==
  LET fetched == {i \in Matching(rows, filter) : Rank(rows, filter, sort, i) \in offset .. offset + LiPageSize}
  IN [issues |-> {i \in fetched : Rank(rows, filter, sort, i) < offset + LiPageSize},
      more |-> Cardinality(fetched) > LiPageSize]

----------------------------------------------------------------------------
\* The pages of one listing

Walking == liWalk.pc = "walk"

\* What a change from liRows to rows does to the listing under way.
Disturbed(rows, i) ==
  IF ~Walking THEN liWalk
  ELSE LET was == i \in Matching(liRows, liWalk.filter)
           is == i \in Matching(rows, liWalk.filter)
           from == Rank(liRows, liWalk.filter, liWalk.sort, i)
           to == Rank(rows, liWalk.filter, liWalk.sort, i)
       IN [liWalk EXCEPT !.touched = @ \cup {i},
                         !.back = @ \/ (was /\ (~is \/ to > from)),
                         !.ahead = @ \/ (is /\ (~was \/ to < from))]

FetchAllIssues(filter, sort) ==
  /\ liWalk.pc = "idle"
  /\ liWalk' = [pc |-> "walk", filter |-> filter, sort |-> sort, offset |-> 0, size |-> 0,
                listed |-> [i \in LiIssues |-> 0], touched |-> {}, back |-> FALSE, ahead |-> FALSE,
                due |-> Matching(liRows, filter)]
  /\ UNCHANGED <<liRows, liNow, liVersion, liFaults>>

\* One round of collectIssuePages.
CollectIssuePage ==
  /\ Walking
  /\ LET page == ListIssuesPage(liRows, liWalk.filter, liWalk.sort, liWalk.offset)
         size == liWalk.size + Cardinality(page.issues)
         done == ~page.more \/ page.issues = {} \/ size >= LiCap
     IN liWalk' = [liWalk EXCEPT !.pc = IF ~done THEN "walk" ELSE IF page.more /\ size >= LiCap THEN "capped" ELSE "done",
                                 !.offset = @ + Cardinality(page.issues), !.size = size,
                                 !.listed = [i \in LiIssues |-> @[i] + (IF i \in page.issues THEN 1 ELSE 0)]]
  /\ UNCHANGED <<liRows, liNow, liVersion, liFaults>>

\* A request fails and the whole listing with it.
CollectFails ==
  /\ Walking /\ liFaults < LiMaxFaults
  /\ liFaults' = liFaults + 1
  /\ liWalk' = [liWalk EXCEPT !.pc = "failed"]
  /\ UNCHANGED <<liRows, liNow, liVersion>>

----------------------------------------------------------------------------
\* Changes of the issues

LiCommit(i, row) ==
  /\ liVersion < LiMaxChanges
  /\ liVersion' = liVersion + 1
  /\ liRows' = [liRows EXCEPT ![i] = row]
  /\ liWalk' = Disturbed(liRows', i)

\* applyRegressionTransition and the counters of an issue's new event.
Bumped(row) ==
  LET back == \/ row.status = "resolved" /\ row.mute # "forever"
              \/ row.status = "muted" /\ row.mute = "until"
      status == IF ~back THEN row.status ELSE IF row.mute = "until" THEN "regressed" ELSE "unresolved"
  IN [status |-> status, mute |-> IF back THEN "" ELSE row.mute,
      regressions |-> row.regressions + (IF back THEN 1 ELSE 0),
      first |-> IF row.events = 0 THEN liNow ELSE row.first, last |-> liNow, events |-> row.events + 1]

\* The writer stores an event of issue i.
EventStored(i) ==
  /\ LiCommit(i, Bumped(liRows[i]))
  /\ UNCHANGED <<liNow, liFaults>>

\* The row after Resolve, Reopen, Unmute or Mute.
ChangedTo(row, op) ==
  CASE op = "resolve" -> [row EXCEPT !.status = "resolved"]
    [] op = "reopen" -> [row EXCEPT !.status = "unresolved"]
    [] op = "unmute" -> [row EXCEPT !.status = "unresolved", !.mute = ""]
    [] op = "mute_until" -> [row EXCEPT !.status = "muted", !.mute = "until"]
    [] OTHER -> [row EXCEPT !.status = "muted", !.mute = "forever"]

ListingOps == {"resolve", "reopen", "unmute", "mute_until", "mute_forever"}

\* changeStatus, Mute and applyMutation commit.
ChangeStatus(i, op) ==
  /\ ListingExists(liRows, i)
  /\ LiCommit(i, ChangedTo(liRows[i], op))
  /\ UNCHANGED <<liNow, liFaults>>

LiTick ==
  /\ liNow < LiMaxTime
  /\ liNow' = liNow + 1
  /\ UNCHANGED <<liRows, liVersion, liWalk, liFaults>>

LiInit ==
  /\ liNow = 1 /\ liVersion = 0 /\ liFaults = 0
  /\ liRows = [i \in LiIssues |-> [status |-> "unresolved", mute |-> "", regressions |-> 0, first |-> 0, last |-> 0,
                                   events |-> IF i \in LiFirst THEN 1 ELSE 0]]
  /\ liWalk = [pc |-> "idle"]

LiNext ==
  \/ \E filter \in LiFilters, sort \in LiSorts : FetchAllIssues(filter, sort)
  \/ CollectIssuePage \/ CollectFails
  \/ \E i \in LiIssues : EventStored(i)
  \/ \E i \in LiIssues, op \in ListingOps : ChangeStatus(i, op)
  \/ LiTick

LiSpec == LiInit /\ [][LiNext]_liVars

----------------------------------------------------------------------------
\* Correctness

\* A finished `bb issues --all` that did not stop at its cap has every issue
\* that matched when it began and was not changed while it ran, unless another
\* issue left the filter or moved back in the order meanwhile (which moves later
\* ones across the offset); and it has none of them twice unless another issue
\* entered the filter or moved ahead.
ListingCoversUntouched ==
  liWalk.pc = "done" =>
    \A i \in liWalk.due \ liWalk.touched :
      /\ liWalk.listed[i] = 0 => liWalk.back
      /\ liWalk.listed[i] > 1 => liWalk.ahead
=============================================================================
