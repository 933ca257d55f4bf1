----------------------------- MODULE IssueCounts -----------------------------
(***************************************************************************)
(* The per-status issue counts of service/issues: cached per scope for     *)
(* CountsTTL, refreshed under the cache's mutex, and dropped after every   *)
(* status change the service makes.                                        *)
(***************************************************************************)
EXTENDS Integers, FiniteSets

CONSTANTS
  IcIssues,
  IcScopes,             \* the scopes asked for, each as the set of issues in it
  CountsTTL, CountsMaxScopes,
  IcMaxTime,            \* bound: ticks
  IcMaxChanges,         \* bound: committed changes
  IcMaxFaults           \* bound: failed refreshes

ASSUME IssueCountsAssumption ==
  /\ IcScopes \subseteq SUBSET IcIssues
  /\ {CountsTTL, CountsMaxScopes} \subseteq Nat \ {0}
  /\ {IcMaxTime, IcMaxChanges, IcMaxFaults} \subseteq Nat

VARIABLES
  icRows,        \* [IcIssues -> its status and whether it came back]
  icNow, icVersion,   \* the clock; committed changes so far
  icChange,      \* versions of the status changes between their commit and their invalidation
  icCache,       \* countsCache.entries
  icRefresh,     \* the refresh that holds countsCache.mu, or NoRefresh
  icAcked,       \* history: the newest version a status change of the service returned at
  icServed,      \* the last counts handed to a caller
  icFaults

icVars == <<icRows, icNow, icVersion, icChange, icCache, icRefresh, icAcked, icServed, icFaults>>

NoCount == [all |-> 0, open |-> 0, regressed |-> 0, resolved |-> 0, muted |-> 0]
NoRefresh == [scope |-> {}, ver |-> 0, counts |-> NoCount, held |-> FALSE]
NoEntry == [ver |-> -1, counts |-> NoCount, fetched |-> 0]
IcStatuses == {"unresolved", "regressed", "resolved", "muted"}

\* IssueStatusCounts of a scope.
IssueStatusCounts(scope) ==
  LET n(status) == Cardinality({i \in scope : icRows[i].status \in status})
  IN [all |-> Cardinality(scope), open |-> n({"unresolved", "regressed"}),
      regressed |-> Cardinality({i \in scope : \/ icRows[i].status = "regressed"
                                               \/ icRows[i].status = "unresolved" /\ icRows[i].back}),
      resolved |-> n({"resolved"}), muted |-> n({"muted"})]

CommitStatus(i, status) ==
  /\ icVersion < IcMaxChanges
  /\ icRows[i].status # status
  /\ icRows' = [icRows EXCEPT ![i] = [status |-> status, back |-> icRows[i].back \/ status = "regressed"]]
  /\ icVersion' = icVersion + 1

\* changeStatus and Mute: the change commits ...
ChangeApplies(i, status) ==
  /\ status # "regressed"
  /\ CommitStatus(i, status)
  /\ icChange' = icChange \cup {icVersion'}
  /\ UNCHANGED <<icNow, icCache, icRefresh, icAcked, icServed, icFaults>>

\* ... an event or a queued mutation (applyMutation) does, and keeps the counts.
OtherChange(i, status) ==
  /\ CommitStatus(i, status)
  /\ UNCHANGED <<icNow, icChange, icCache, icRefresh, icAcked, icServed, icFaults>>

\* Mutant: the refresh runs outside the mutex.
AlwaysFree == TRUE

\* countsCache.mu is free.
CountsFree == ~icRefresh.held

\* invalidateCounts, and the status change returns.
InvalidateCounts(change) ==
  /\ CountsFree
  /\ icCache' = [s \in IcScopes |-> NoEntry]
  /\ icAcked' = IF icAcked < change THEN change ELSE icAcked
  /\ icChange' = icChange \ {change}
  /\ UNCHANGED <<icRows, icNow, icVersion, icRefresh, icServed, icFaults>>

CountsKept(scope) == icCache[scope] # NoEntry

CountsFresh(scope) == CountsKept(scope) /\ icNow - icCache[scope].fetched < CountsTTL

Serve(entry, failed) ==
  icServed' = [ver |-> entry.ver, acked |-> icAcked, age |-> icNow - entry.fetched, failed |-> failed]

CountsHit(scope) ==
  /\ CountsFree /\ CountsFresh(scope)
  /\ Serve(icCache[scope], FALSE)
  /\ UNCHANGED <<icRows, icNow, icVersion, icChange, icCache, icRefresh, icAcked, icFaults>>

\* The refresh takes its snapshot, under the mutex.
CountsQuery(scope) ==
  /\ CountsFree /\ ~CountsFresh(scope)
  /\ icRefresh' = [scope |-> scope, ver |-> icVersion, counts |-> IssueStatusCounts(scope), held |-> TRUE]
  /\ UNCHANGED <<icRows, icNow, icVersion, icChange, icCache, icAcked, icServed, icFaults>>

\* Its result is cached; a full cache is started anew.
CountsStore ==
  /\ icRefresh.held
  /\ LET entry == [ver |-> icRefresh.ver, counts |-> icRefresh.counts, fetched |-> icNow]
         full == Cardinality({s \in IcScopes : CountsKept(s)}) >= CountsMaxScopes
     IN /\ icCache' = [s \in IcScopes |-> IF s = icRefresh.scope THEN entry
                                          ELSE IF full THEN NoEntry ELSE icCache[s]]
        /\ Serve(entry, FALSE)
  /\ icRefresh' = NoRefresh
  /\ UNCHANGED <<icRows, icNow, icVersion, icChange, icAcked, icFaults>>

\* It fails: the older value is served, or the error.
CountsFail ==
  /\ icRefresh.held /\ icFaults < IcMaxFaults
  /\ icFaults' = icFaults + 1
  /\ IF CountsKept(icRefresh.scope) THEN Serve(icCache[icRefresh.scope], TRUE) ELSE UNCHANGED icServed
  /\ icRefresh' = NoRefresh
  /\ UNCHANGED <<icRows, icNow, icVersion, icChange, icCache, icAcked>>

IcTick ==
  /\ icNow < IcMaxTime
  /\ icNow' = icNow + 1
  /\ UNCHANGED <<icRows, icVersion, icChange, icCache, icRefresh, icAcked, icServed, icFaults>>

IcInit ==
  /\ icRows = [i \in IcIssues |-> [status |-> "unresolved", back |-> FALSE]]
  /\ icNow = 1 /\ icVersion = 0 /\ icChange = {} /\ icRefresh = NoRefresh /\ icAcked = 0 /\ icFaults = 0
  /\ icCache = [s \in IcScopes |-> NoEntry]
  /\ icServed = [ver |-> 0, acked |-> 0, age |-> 0, failed |-> FALSE]

IcNext ==
  \/ \E i \in IcIssues, status \in IcStatuses : ChangeApplies(i, status) \/ OtherChange(i, status)
  \/ \E change \in icChange : InvalidateCounts(change)
  \/ CountsStore \/ CountsFail \/ IcTick
  \/ \E s \in IcScopes : CountsHit(s) \/ CountsQuery(s)

IcSpec == IcInit /\ [][IcNext]_icVars

----------------------------------------------------------------------------
\* Correctness

\* Counts served after a resolve, reopen, mute or unmute of the service has
\* returned include that change, even when a refresh read the old rows just
\* before it committed; and they are older than CountsTTL only when the refresh
\* failed.
CountsIncludeOwnChanges ==
  /\ icServed.ver >= icServed.acked
  /\ icServed.age < CountsTTL \/ icServed.failed
=============================================================================
