---------------------------- MODULE IssueTracker ----------------------------
(***************************************************************************)
(* An issue's life (internal/storage/issues_upsert.go, issue_status.go,    *)
(* issues_mutate.go, storage.go): events create it, count and regress it,  *)
(* users resolve, reopen, mute and unmute it.  A mutation that misses its  *)
(* five second deadline goes to the durable mutation queue                 *)
(* (internal/mutqueue), which the worker drains at the start of each tick  *)
(* (cmd/bugbarn/worker.go) before it ingests events.                       *)
(*                                                                         *)
(* Persisting an event is not one transaction: the issue row is committed  *)
(* first, the event row, its facets and the announcement of a new or       *)
(* regressed issue follow, and a failure or a stop in between makes the    *)
(* worker persist the same event again.                                    *)
(***************************************************************************)
EXTENDS Integers, Sequences, FiniteSets, SequencesExt

CONSTANTS
  Issues,       \* the fingerprints of one project
  MaxEvents,    \* bound: events ingested
  MaxRequests,  \* bound: mutation requests
  Faults,       \* "busy", "crash", "apply", "remove", "reopen"
  MaxFaults     \* bound: of those

ASSUME TrackerAssumption ==
  /\ MaxEvents \in Nat /\ MaxRequests \in Nat /\ MaxFaults \in Nat
  /\ Faults \subseteq {"busy", "crash", "apply", "remove", "reopen"}

Ops == {"resolve", "reopen", "until_regression", "forever", "unmute"}
None == [issue |-> {}, new |-> FALSE, regressed |-> FALSE]

VARIABLES
  row,        \* the issues table: status, mute_mode, event_count, regression_count
  wpc,        \* the worker: idle, drain1, claim, drain2, ingest, upserted, published
  event,      \* the event being persisted, and what the upsert reported of it
  todo,       \* the mutation records the drain has read and not applied
  active,     \* mutations.ndjson; empty also while it does not exist
  processing, \* mutations.processing.ndjson
  fd,         \* what the queue's handle writes to: active, processing, unlinked
  given,      \* how many events were ingested
  handled,    \* events of each issue persisted to the end
  created, regressions,  \* announcements published for each issue
  requests,   \* how many mutations were requested
  queued,     \* those answered with 202 "queued", in order
  stray,      \* of those, the ones written while the handle was not on the active file
  applied,    \* queued mutations the worker has applied
  closings,   \* how often each issue was resolved or muted
  faults

queue == <<active, processing, fd>>
ledger == <<given, handled, created, regressions>>
asked == <<requests, queued, stray>>
vars == <<row, wpc, event, todo, queue, ledger, asked, applied, closings, faults>>

\* mutations.ndjson exists exactly as long as the handle is open on it.
HasActive == fd = "active"

Rows == [status : {"absent", "unresolved", "resolved", "muted", "regressed"},
         mute : {"", "until_regression", "forever"}, count : Nat, regressions : Nat]

\* The shape of every variable; an issue is absent exactly as long as it has no
\* event, and a muted issue always has a mute mode.
TypeOK ==
  /\ row \in [Issues -> Rows]
  /\ \A f \in Issues : /\ row[f].status = "absent" <=> row[f].count = 0
                       /\ row[f].status = "muted" => row[f].mute # ""
  /\ wpc \in {"idle", "drain1", "claim", "drain2", "ingest", "upserted", "published"}
  /\ event.issue \subseteq Issues /\ Cardinality(event.issue) <= 1
  /\ fd \in {"active", "processing", "unlinked"}
  /\ ~HasActive => active = <<>>
  /\ Range(todo) \subseteq Range(queued)
  /\ given \in 0..MaxEvents /\ requests \in 0..MaxRequests
  /\ applied \subseteq Range(queued) /\ stray \subseteq Range(queued)
  /\ faults \in 0..MaxFaults

Zeros == [f \in Issues |-> 0]

Init ==
  /\ row = [f \in Issues |-> [status |-> "absent", mute |-> "", count |-> 0, regressions |-> 0]]
  /\ wpc = "idle" /\ event = None /\ todo = <<>>
  /\ active = <<>> /\ processing = <<>> /\ fd = "active"
  /\ given = 0 /\ handled = Zeros /\ created = Zeros /\ regressions = Zeros
  /\ requests = 0 /\ queued = <<>> /\ stray = {} /\ applied = {} /\ closings = Zeros /\ faults = 0

Fault(kind) == kind \in Faults /\ faults < MaxFaults /\ faults' = faults + 1

-----------------------------------------------------------------------------
\* Mutant: unmuting forgets the status.
UnmutesModeOnly(r, op) ==
  CASE op = "resolve" -> [r EXCEPT !.status = "resolved"]
    [] op = "reopen"  -> [r EXCEPT !.status = "unresolved"]
    [] op = "unmute"  -> [r EXCEPT !.mute = ""]
    [] OTHER          -> [r EXCEPT !.status = "muted", !.mute = op]

\* ResolveIssue, ReopenIssue, MuteIssue, UnmuteIssue: one UPDATE each.  Only
\* mute and unmute touch the mute mode.
Mutated(r, op) ==
  CASE op = "resolve" -> [r EXCEPT !.status = "resolved"]
    [] op = "reopen"  -> [r EXCEPT !.status = "unresolved"]
    [] op = "unmute"  -> [r EXCEPT !.status = "unresolved", !.mute = ""]
    [] OTHER          -> [r EXCEPT !.status = "muted", !.mute = op]

Mutate(f, op) ==
  /\ row' = [row EXCEPT ![f] = Mutated(@, op)]
  /\ closings' = [closings EXCEPT ![f] = IF op \in {"reopen", "unmute"} THEN @ ELSE @ + 1]

\* A request that completes within its deadline.
MutateDirect(f, op) ==
  /\ row[f].count > 0 /\ requests < MaxRequests
  /\ requests' = requests + 1
  /\ Mutate(f, op)
  /\ UNCHANGED <<wpc, event, todo, queue, ledger, queued, stray, applied, faults>>

\* Append: the record goes to whatever file the handle is open on.
Enqueue(m) ==
  /\ active' = (IF fd = "active" THEN Append(active, m) ELSE active)
  /\ processing' = (IF fd = "processing" THEN Append(processing, m) ELSE processing)
  /\ UNCHANGED fd

\* tryMutate at its deadline: the mutation is queued, whether or not the attempt
\* had been committed by then.
MutateQueued(f, op) ==
  /\ row[f].count > 0 /\ requests < MaxRequests
  /\ requests' = requests + 1
  /\ LET m == [id |-> requests', issue |-> f, op |-> op]
     IN  /\ Enqueue(m) /\ queued' = Append(queued, m)
         /\ stray' = (IF HasActive THEN stray ELSE stray \cup {m})
  /\ Mutate(f, op) \/ UNCHANGED <<row, closings>>
  /\ UNCHANGED <<wpc, event, todo, ledger, applied, faults>>

-----------------------------------------------------------------------------
\* Mutant: a drain forgets the file an earlier one left behind.
StartsAtClaim ==
  /\ wpc = "idle"
  /\ wpc' = "claim"
  /\ UNCHANGED <<row, event, todo, queue, ledger, asked, applied, closings, faults>>

\* Queue.Drain.  First the file an earlier drain left behind is read.
DrainStart ==
  /\ wpc = "idle"
  /\ wpc' = "drain1" /\ todo' = processing
  /\ UNCHANGED <<row, event, queue, ledger, asked, applied, closings, faults>>

\* applyMutation of the next record.
ApplyOne ==
  /\ wpc \in {"drain1", "drain2"} /\ todo # <<>>
  /\ Mutate(Head(todo).issue, Head(todo).op)
  /\ applied' = applied \cup {Head(todo)}
  /\ todo' = Tail(todo)
  /\ UNCHANGED <<wpc, event, queue, ledger, asked, faults>>

\* It fails: Drain returns, the file stays, the tick goes on with the events.
ApplyFails ==
  /\ wpc \in {"drain1", "drain2"} /\ todo # <<>> /\ Fault("apply")
  /\ wpc' = "ingest" /\ todo' = <<>>
  /\ UNCHANGED <<row, event, queue, ledger, asked, applied, closings>>

\* Mutant: the file is removed as soon as it has been read.
RemovesFirst ==
  /\ wpc \in {"drain1", "drain2"}
  /\ processing' = <<>>
  /\ fd' = (IF fd = "processing" THEN "unlinked" ELSE fd)
  /\ wpc' = (IF todo # <<>> THEN wpc ELSE IF wpc = "drain1" THEN "claim" ELSE "ingest")
  /\ UNCHANGED <<row, event, todo, active, ledger, asked, applied, closings, faults>>

\* Every record read was applied and the file is removed.
DrainFileDone ==
  /\ wpc \in {"drain1", "drain2"} /\ todo = <<>>
  /\ processing' = <<>>
  /\ fd' = (IF fd = "processing" THEN "unlinked" ELSE fd)
  /\ wpc' = (IF wpc = "drain1" THEN "claim" ELSE "ingest")
  /\ UNCHANGED <<row, event, todo, active, ledger, asked, applied, closings, faults>>

\* The removal fails after a drain that applied something.
RemoveFails ==
  /\ wpc \in {"drain1", "drain2"} /\ todo = <<>> /\ processing # <<>> /\ Fault("remove")
  /\ wpc' = "ingest"
  /\ UNCHANGED <<row, event, todo, queue, ledger, asked, applied, closings>>

\* Mutant: the claim does not wait for a leftover file.
ClaimsOver ==
  /\ wpc \in {"drain1", "claim"} /\ HasActive
  /\ processing' = active /\ todo' = active
  /\ active' = <<>> /\ wpc' = "drain2"
  /\ UNCHANGED <<row, event, fd, ledger, asked, applied, closings, faults>>

\* Under the mutex: rename, then open a fresh active file.
Claim ==
  /\ wpc = "claim" /\ HasActive
  /\ processing' = active /\ todo' = active
  /\ active' = <<>> /\ wpc' = "drain2"
  /\ UNCHANGED <<row, event, fd, ledger, asked, applied, closings, faults>>

\* No active file: "nothing queued".
ClaimNothing ==
  /\ wpc = "claim" /\ ~HasActive
  /\ wpc' = "ingest"
  /\ UNCHANGED <<row, event, todo, queue, ledger, asked, applied, closings, faults>>

\* The open fails after the rename: the handle still writes to the renamed file.
ClaimReopenFails ==
  /\ wpc = "claim" /\ HasActive /\ Fault("reopen")
  /\ processing' = active /\ active' = <<>> /\ fd' = "processing"
  /\ wpc' = "ingest"
  /\ UNCHANGED <<row, event, todo, ledger, asked, applied, closings>>

-----------------------------------------------------------------------------
\* applyRegressionTransition: does an event on this row regress the issue?
Regresses(r) ==
  /\ r.status = "resolved" \/ (r.mute = "until_regression" /\ r.status = "muted")
  /\ r.mute # "forever"

\* Mutant: every event on an issue that is not open counts as a regression.
CountedAlways(r) ==
  [r EXCEPT !.count = @ + 1, !.regressions = @ + 1,
            !.status = IF r.count = 0 THEN "unresolved" ELSE "regressed", !.mute = ""]

\* Mutant: the update that regresses an issue does not count the event.
RegressionUncounted(r) ==
  IF r.count = 0 THEN [r EXCEPT !.status = "unresolved", !.count = 1]
  ELSE IF ~Regresses(r) THEN [r EXCEPT !.count = @ + 1]
  ELSE [r EXCEPT !.regressions = @ + 1, !.status = "unresolved", !.mute = ""]

\* The row after one more event: insertNewIssue, or updateExistingIssue.
Counted(r) ==
  IF r.count = 0 THEN [r EXCEPT !.status = "unresolved", !.count = 1]
  ELSE IF ~Regresses(r) THEN [r EXCEPT !.count = @ + 1]
  ELSE IF r.mute = "until_regression"
       THEN [r EXCEPT !.count = @ + 1, !.regressions = @ + 1, !.status = "regressed", !.mute = ""]
       ELSE [r EXCEPT !.count = @ + 1, !.regressions = @ + 1, !.status = "unresolved"]

\* upsertIssue, committed: for the event in hand, or for a new one.  isNew is
\* judged by the count the upsert returns.
Upsert(f) ==
  /\ wpc = "ingest"
  /\ \/ event.issue = {f} /\ UNCHANGED given
     \/ event.issue = {} /\ given < MaxEvents /\ given' = given + 1
  /\ row' = [row EXCEPT ![f] = Counted(@)]
  /\ LET reg == row[f].count > 0 /\ Regresses(row[f])
     IN  event' = [issue |-> {f}, new |-> row'[f].count = 1 /\ ~reg, regressed |-> reg]
  /\ wpc' = "upserted"
  /\ UNCHANGED <<todo, queue, handled, created, regressions, asked, applied, closings, faults>>

Bump(f, when, fn) == [fn EXCEPT ![f] = IF when THEN @ + 1 ELSE @]

\* Mutant: a retried event is announced from the row, not from the upsert.
AnnouncesByRow ==
  /\ wpc = "upserted"
  /\ \E f \in event.issue :
       /\ handled' = Bump(f, TRUE, handled)
       /\ created' = Bump(f, row[f].status = "unresolved", created)
       /\ regressions' = Bump(f, row[f].regressions > 0, regressions)
  /\ wpc' = "published"
  /\ UNCHANGED <<row, event, todo, queue, given, asked, applied, closings, faults>>

\* insertEvent, the facets and PublishIssueEvent.
FinishEvent ==
  /\ wpc = "upserted"
  /\ \E f \in event.issue :
       /\ handled' = Bump(f, TRUE, handled)
       /\ created' = Bump(f, event.new, created)
       /\ regressions' = Bump(f, event.regressed, regressions)
  /\ wpc' = "published"
  /\ UNCHANGED <<row, event, todo, queue, given, asked, applied, closings, faults>>

\* advanceCursor: the event is done.
AdvanceCursor ==
  /\ wpc = "published"
  /\ event' = None /\ wpc' = "ingest"
  /\ UNCHANGED <<row, todo, queue, ledger, asked, applied, closings, faults>>

\* A locked database after the upsert: the tick ends and the same event is
\* persisted again in a later one.
PersistFails ==
  /\ wpc = "upserted" /\ Fault("busy")
  /\ wpc' = "idle"
  /\ event' = [None EXCEPT !.issue = event.issue]
  /\ UNCHANGED <<row, todo, queue, ledger, asked, applied, closings>>

\* The tick is over.
TickDone ==
  /\ wpc = "ingest"
  /\ wpc' = "idle"
  /\ UNCHANGED <<row, event, todo, queue, ledger, asked, applied, closings, faults>>

\* The process stops and a new one starts: mutqueue.New creates the active file
\* if it is missing, and the spool hands out the unfinished event again.
Restart ==
  /\ Fault("crash")
  /\ wpc' = "idle" /\ todo' = <<>>
  /\ event' = [None EXCEPT !.issue = event.issue]
  /\ fd' = "active"
  /\ UNCHANGED <<row, active, processing, ledger, asked, applied, closings>>

-----------------------------------------------------------------------------
Request == \E f \in Issues, op \in Ops : MutateDirect(f, op) \/ MutateQueued(f, op)
Drain == DrainStart \/ ApplyOne \/ ApplyFails \/ DrainFileDone \/ RemoveFails
           \/ Claim \/ ClaimNothing \/ ClaimReopenFails
Ingest == (\E f \in Issues : Upsert(f)) \/ FinishEvent \/ AdvanceCursor \/ PersistFails \/ TickDone

Next == Request \/ Drain \/ Ingest \/ Restart

Spec == Init /\ [][Next]_vars

\* The worker ticks every second; its ingest phase is bounded by what was read.
FairSpec == Spec /\ WF_vars(Drain) /\ WF_vars(Ingest) /\ SF_vars(TickDone)

-----------------------------------------------------------------------------
\* A mutation answered with 202 is in one of the two files until it is applied
\* (Append "durably appends a mutation record to the queue").
QueuedMutationKept == Range(queued) \subseteq applied \cup Range(active) \cup Range(processing)

\* The only queued mutations that Drain can lose, across failed applies, failed
\* removals, restarts and a failed reopen, are those appended between that failed
\* reopen and the next start of the process.
LostOnlyAfterReopenFailure ==
  Range(queued) \ stray \subseteq applied \cup Range(active) \cup Range(processing)

\* Those mutations take effect in the order they were queued.
QueuedInOrder ==
  \A j \in 1..Len(queued) :
    queued[j] \in applied => \A k \in 1..j : queued[k] \in applied \cup stray

\* An issue never regresses more often than somebody resolved or muted it, however
\* often the same event is persisted.
RegressionsJustified == \A f \in Issues : row[f].regressions <= closings[f]

\* The event count of an issue never falls behind the events persisted on it, and
\* exceeds them only by the persists that were interrupted after the upsert.
CountBounded ==
  \A f \in Issues : LET open == IF wpc = "upserted" /\ event.issue = {f} THEN 1 ELSE 0
                    IN  handled[f] + open <= row[f].count /\ row[f].count <= handled[f] + open + faults

\* However often an event is persisted again, an issue is announced as new at most
\* once, and never more regressions are announced than it has had.
AnnouncedOnce == \A f \in Issues : created[f] <= 1 /\ regressions[f] <= row[f].regressions

\* alerts.md: "After a new issue is created -> new_issue condition is evaluated".
CreationAnnounced == \A f \in Issues : handled[f] > 0 => created[f] = 1

\* issues.md: reopening "Also clears any active mute".
ReopenClearsMute ==
  [][\A f \in Issues : row[f].status # "unresolved" /\ row'[f].status = "unresolved" => row'[f].mute = ""]_vars

\* Every mutation queued on the active file is applied in the end.
EveryQueuedApplied ==
  \A n \in 1..MaxRequests : Len(queued) >= n ~> Len(queued) >= n /\ queued[n] \in applied \cup stray

\* Every acknowledged change of an issue's state is applied once, in order, and
\* announced once; what regresses or reopens an issue has a reason.
IssuesSafe ==
  /\ TypeOK /\ LostOnlyAfterReopenFailure /\ QueuedInOrder /\ RegressionsJustified
  /\ CountBounded /\ AnnouncedOnce
=============================================================================
