-------------------------- MODULE ProjectApproval --------------------------
(***************************************************************************)
(* Projects pending an administrator's approval and the ingest parked for  *)
(* them.  The queue consumer runs PersistRecord for one record after       *)
(* another: it resolves the record's slug (creating a pending project for  *)
(* a new one) and then, by the status it read, parks the record in         *)
(* held_events or stores it.  Approving a project sets it active and       *)
(* replays its parked records through the same PersistRecord, deleting     *)
(* each one after it was stored.  Approvals, deletions, renames and merges *)
(* are HTTP requests that run beside the consumer; each SQL statement or   *)
(* transaction is one step.                                                *)
(***************************************************************************)
EXTENDS Integers, Sequences, FiniteSetsExt

CONSTANTS Slugs,        \* project slugs that records and requests name
          Logs,         \* the records that are log batches, not events
          MaxRecords,   \* records on the write queue
          Approvals,    \* approval requests that may run at the same time
          MaxApprovals, \* approvals in one behaviour
          Ops,          \* among "create", "delete", "rename", "merge"
          MaxOps,       \* creations, deletions, renames and merges in one behaviour
          MaxProjects,  \* projects ever created
          MaxRows,      \* rows ever parked
          AutoApprove,  \* BUGBARN_AUTO_APPROVE_PROJECTS
          Faults,       \* among "crash", "busy", "resolve", "cancel", "timeout"
          MaxFaults,    \* failures in one behaviour
          MaxAttempts   \* consumerMaxRetries

Records == 1..MaxRecords
Ids == 1..MaxProjects
MaxCopies == 2          \* copies of a record are counted up to "more than one"
Default == 0            \* the default project
None == -1
Consumer == "consumer"
Actors == Approvals \cup {Consumer}

ASSUME ApprovalAssumption ==
    /\ MaxRecords \in Nat /\ MaxApprovals \in Nat /\ MaxOps \in Nat /\ MaxFaults \in Nat
    /\ MaxProjects \in Nat /\ MaxRows \in Nat
    /\ MaxAttempts \in Nat \ {0} /\ AutoApprove \in BOOLEAN
    /\ Logs \subseteq Records /\ Consumer \notin Approvals
    /\ Ops \subseteq {"create", "delete", "rename", "merge"}
    /\ Faults \subseteq {"crash", "busy", "resolve", "cancel", "timeout"}

VARIABLES slugOf,    \* the slug each record carries
          projects,  \* the projects table: id -> slug and status
          nextId,    \* the next id AUTOINCREMENT gives
          aliases,   \* project_aliases: slug -> id
          held,      \* held_events, a set of rows
          nextRow,   \* the next id of a held row
          stored,    \* copies of each record in each project
          dropped,   \* records the consumer gave up on, each logged as an error
          taken,     \* records the consumer has taken off the queue
          at,        \* where each actor is
          batch,     \* the held rows an approval has read and not yet replayed
          del,       \* the deletion under way
          approvals, ops, faults,                \* what has happened, for the bounds
          replayed,  \* history: the held rows in the order they were first replayed
          deleted,   \* history: projects whose deletion was asked for, or that were merged into themselves
          discarded, \* history: records a deletion, or a merge of a project into itself, took along
          merged,    \* history: both projects of every merge
          misdrained,\* history: projects drained in place of the one that was approved
          reparked,  \* history: projects a replay took a row of only to park it again for another
          undrained, \* history: projects an approval could not drain
          overlap    \* history: two approvals drained one project at once

db == <<projects, nextId, aliases, held, nextRow, stored>>
history == <<replayed, deleted, discarded, merged, misdrained, reparked, undrained, overlap>>
counters == <<approvals, ops, faults>>
vars == <<slugOf, db, dropped, taken, at, batch, del, counters, history>>

Idle == [pc |-> "idle", rec |-> None, pid |-> None, attempt |-> 0,
         slug |-> None, drains |-> None]

-----------------------------------------------------------------------------
(* The tables.                                                             *)

Exists(p) == p = Default \/ p \in DOMAIN projects

ProjectBySlug(s) ==
    IF \E p \in DOMAIN projects : projects[p].slug = s
    THEN CHOOSE p \in DOMAIN projects : projects[p].slug = s ELSE None

\* a project by its slug, or the target of an alias of that name
Resolve(s) ==
    IF ProjectBySlug(s) # None THEN ProjectBySlug(s)
    ELSE IF s \in DOMAIN aliases /\ aliases[s] \in DOMAIN projects THEN aliases[s] ELSE None

HeldOf(p) == {row \in held : row.proj = p}

Oldest(rows) == CHOOSE row \in rows : \A other \in rows : row.id <= other.id

OneMoreCopy(r, p) == [stored EXCEPT ![r][p] = Min({MaxCopies, @ + 1})]

\* foreign keys cascade from projects to events and aliases, not to held_events or log_entries
CascadeStored(p) ==
    [r \in Records |-> [q \in {Default} \cup Ids |->
        IF q = p /\ r \notin Logs THEN 0 ELSE stored[r][q]]]

Without(f, S) == [x \in DOMAIN f \ S |-> f[x]]

AliasesOf(p) == {s \in DOMAIN aliases : aliases[s] = p}

-----------------------------------------------------------------------------
\* slugs are interchangeable, so the first record carries a fixed one
Init ==
    /\ slugOf \in {f \in [Records -> Slugs] : MaxRecords > 0 => f[1] = CHOOSE s \in Slugs : TRUE}
    /\ projects = <<>> /\ nextId = 1 /\ aliases = <<>> /\ held = {} /\ nextRow = 1
    /\ stored = [r \in Records |-> [p \in {Default} \cup Ids |-> 0]]
    /\ dropped = {} /\ taken = 0
    /\ at = [a \in Actors |-> Idle] /\ batch = [a \in Approvals |-> {}]
    /\ del = [pc |-> "idle", pid |-> None]
    /\ approvals = 0 /\ ops = 0 /\ faults = 0
    /\ replayed = <<>> /\ deleted = {} /\ discarded = {} /\ merged = {}
    /\ misdrained = {} /\ reparked = {} /\ undrained = {} /\ overlap = FALSE

-----------------------------------------------------------------------------
(* PersistRecord, run by the consumer and by every replay.                 *)

\* the actor has a final outcome for its record: the consumer goes on to acknowledge
\* it, a replay to delete the held row
Done(a) == at' = [at EXCEPT ![a].pc = IF a = Consumer THEN "ack" ELSE "forget"]

\* an error ends the drain (the row stays); the consumer tries again, up to its limit:
\* an event from the start of PersistRecord, logs only the call that failed
Retry(a) ==
    IF a = Consumer
    THEN /\ IF at[a].attempt + 1 < MaxAttempts
            THEN /\ at' = [at EXCEPT ![a].attempt = @ + 1, ![a].pc =
                             IF at[a].rec \in Logs /\ @ = "persist" THEN "persist" ELSE "resolve"]
                 /\ UNCHANGED dropped
            ELSE at' = [at EXCEPT ![a] = Idle] /\ dropped' = dropped \cup {at[a].rec}
         /\ UNCHANGED <<batch, undrained>>
    ELSE /\ at' = [at EXCEPT ![a] = Idle] /\ batch' = [batch EXCEPT ![a] = {}]
         /\ undrained' = undrained \cup {at[a].drains} /\ UNCHANGED dropped

\* the slug cannot be resolved: an event goes to the default project, a log is retried
Unresolved(a) ==
    IF at[a].rec \in Logs THEN Retry(a)
    ELSE /\ at' = [at EXCEPT ![a].pc = "persist", ![a].pid = Default]
         /\ UNCHANGED <<batch, undrained, dropped>>

Take ==
    /\ at[Consumer].pc = "idle" /\ taken < MaxRecords
    /\ taken' = taken + 1
    /\ at' = [at EXCEPT ![Consumer] = [Idle EXCEPT !.pc = "resolve", !.rec = taken + 1]]
    /\ UNCHANGED <<slugOf, db, dropped, batch, del, counters, history>>

Ack ==
    /\ at[Consumer].pc = "ack"
    /\ at' = [at EXCEPT ![Consumer] = Idle]
    /\ UNCHANGED <<slugOf, db, dropped, taken, batch, del, counters, history>>

\* EnsureProjectForIngest finds the project; its status decides what happens next
Found(a) ==
    /\ at[a].pc = "resolve"
    /\ LET p == Resolve(slugOf[at[a].rec]) IN
         /\ p # None
         /\ at' = [at EXCEPT ![a].pid = p, ![a].attempt = IF at[a].rec \in Logs THEN 0 ELSE @,
                     ![a].pc = IF projects[p].status = "pending" THEN "hold" ELSE "persist"]
    /\ UNCHANGED <<slugOf, db, dropped, taken, batch, del, counters, history>>

NotFound(a) ==
    /\ at[a].pc = "resolve" /\ Resolve(slugOf[at[a].rec]) = None
    /\ at' = [at EXCEPT ![a].pc = "create"]
    /\ UNCHANGED <<slugOf, db, dropped, taken, batch, del, counters, history>>

\* the slug is UNIQUE: the insert fails when another request has created it meanwhile
CreateProjectPending(a) ==
    /\ at[a].pc = "create"
    /\ LET s == slugOf[at[a].rec]
           st == IF AutoApprove THEN "active" ELSE "pending"
       IN \/ /\ ProjectBySlug(s) = None /\ nextId \in Ids
             /\ projects' = [p \in DOMAIN projects \cup {nextId} |->
                   IF p = nextId THEN [slug |-> s, status |-> st] ELSE projects[p]]
             /\ nextId' = nextId + 1
             /\ at' = [at EXCEPT ![a].pid = nextId,
                         ![a].pc = IF st = "pending" THEN "hold" ELSE "persist"]
             /\ UNCHANGED <<batch, undrained, dropped>>
          \/ /\ ProjectBySlug(s) # None
             /\ Unresolved(a) /\ UNCHANGED <<projects, nextId>>
    /\ UNCHANGED <<slugOf, aliases, held, nextRow, stored, taken, del, counters,
                   replayed, deleted, discarded, merged, misdrained, reparked, overlap>>

ResolveFails(a) ==
    /\ at[a].pc \in {"resolve", "create"}
    /\ "resolve" \in Faults /\ faults < MaxFaults
    /\ faults' = faults + 1
    /\ Unresolved(a)
    /\ UNCHANGED <<slugOf, db, taken, del, approvals, ops, replayed, deleted, discarded, merged, misdrained, reparked, overlap>>

\* the row is late when its project stopped being pending since the status was read
Hold(a) ==
    /\ at[a].pc = "hold" /\ nextRow <= MaxRows
    /\ LET p == at[a].pid IN
         held' = held \cup {[id |-> nextRow, proj |-> p, rec |-> at[a].rec,
                             late |-> p \notin DOMAIN projects \/ projects[p].status = "active"]}
    /\ nextRow' = nextRow + 1
    /\ reparked' = IF a = Consumer THEN reparked ELSE reparked \cup {at[a].drains}
    /\ Done(a)
    /\ UNCHANGED <<slugOf, projects, nextId, aliases, stored, dropped, taken, batch, del,
                   counters, replayed, deleted, discarded, merged, misdrained, undrained, overlap>>

\* a batch of logs whose parking fails is not retried
HoldFails(a) ==
    /\ at[a].pc = "hold"
    /\ "busy" \in Faults /\ faults < MaxFaults
    /\ faults' = faults + 1
    /\ IF at[a].rec \in Logs
       THEN at' = [at EXCEPT ![a] = Idle] /\ dropped' = dropped \cup {at[a].rec}
            /\ UNCHANGED <<batch, undrained>>
       ELSE Retry(a)
    /\ UNCHANGED <<slugOf, db, taken, del, approvals, ops, replayed, deleted, discarded, merged, misdrained, reparked, overlap>>

ReplayedRow(row) == \E i \in 1..Len(replayed) : replayed[i] = row

Persist(a) ==
    /\ at[a].pc = "persist"
    /\ Exists(at[a].pid) \/ at[a].rec \in Logs
    /\ stored' = OneMoreCopy(at[a].rec, at[a].pid)
    /\ replayed' = IF a = Consumer \/ ReplayedRow(Oldest(batch[a])) THEN replayed
                   ELSE Append(replayed, Oldest(batch[a]))
    /\ Done(a)
    /\ UNCHANGED <<slugOf, projects, nextId, aliases, held, nextRow, dropped, taken, batch, del,
                   counters, deleted, discarded, merged, misdrained, reparked, undrained, overlap>>

\* events reference their project: the insert fails for good when it is gone
PersistRefused(a) ==
    /\ at[a].pc = "persist" /\ ~Exists(at[a].pid) /\ at[a].rec \notin Logs
    /\ IF a = Consumer
       THEN dropped' = dropped \cup {at[a].rec} /\ UNCHANGED <<batch, undrained>>
       ELSE batch' = [batch EXCEPT ![a] = {}] /\ undrained' = undrained \cup {at[a].drains}
            /\ UNCHANGED dropped
    /\ at' = [at EXCEPT ![a] = Idle]
    /\ UNCHANGED <<slugOf, db, taken, del, counters, replayed, deleted, discarded, merged, misdrained, reparked, overlap>>

PersistBusy(a) ==
    /\ at[a].pc = "persist"
    /\ "busy" \in Faults /\ faults < MaxFaults
    /\ faults' = faults + 1
    /\ Retry(a)
    /\ UNCHANGED <<slugOf, db, taken, del, approvals, ops, replayed, deleted, discarded, merged, misdrained, reparked, overlap>>

-----------------------------------------------------------------------------
(* Approve: activate, look the project up, then ReplayHeld until nothing   *)
(* is left.                                                                *)

Draining(p) == {a \in Approvals : at[a].drains = p}

\* requests are interchangeable: a new one gets the first free place
ApproveProject(a, s) ==
    /\ at[a].pc = "idle" /\ approvals < MaxApprovals
    /\ a = CHOOSE b \in Approvals : at[b].pc = "idle"
    /\ approvals' = approvals + 1
    /\ LET p == ProjectBySlug(s) IN
         /\ p # None
         /\ projects' = [projects EXCEPT ![p].status = "active"]
         /\ at' = [at EXCEPT ![a] = [Idle EXCEPT !.pc = "lookup", !.pid = p, !.slug = s]]
    /\ UNCHANGED <<slugOf, nextId, aliases, held, nextRow, stored, dropped, taken, batch, del,
                   ops, faults, history>>

\* the slug is looked up again: after a rename, merge or deletion nothing is drained
LookUp(a) ==
    /\ at[a].pc = "lookup"
    /\ LET p == ProjectBySlug(at[a].slug) IN
         /\ at' = [at EXCEPT ![a] = IF p = None THEN Idle
                                    ELSE [@ EXCEPT !.pc = "list", !.drains = p]]
         /\ overlap' = (overlap \/ (p # None /\ Draining(p) # {}))
         /\ undrained' = undrained \cup ({at[a].pid} \ {p})
         /\ misdrained' = misdrained \cup ({p} \ {at[a].pid, None})
    /\ UNCHANGED <<slugOf, db, dropped, taken, batch, del, counters, replayed, deleted, discarded, merged,
                   reparked>>

\* the approval goes on with these rows, or ends when there are none
ReplayRows(a, rows) ==
    /\ at[a].pc = "list"
    /\ batch' = [batch EXCEPT ![a] = rows]
    /\ at' = [at EXCEPT ![a] = IF rows = {} THEN Idle ELSE [@ EXCEPT !.pc = "next"]]
    /\ UNCHANGED <<slugOf, db, dropped, taken, del, counters, history>>

\* mutant: parked logs are not listed
ListsEventsOnly(a) ==
    ReplayRows(a, {row \in HeldOf(at[a].drains) : row.rec \notin Logs})

ListHeld(a) == ReplayRows(a, HeldOf(at[a].drains))

\* replayOne: an event goes through PersistRecord, logs straight into the row's project
ReplayOne(a) ==
    /\ at[a].pc = "next"
    /\ LET row == Oldest(batch[a]) IN
         at' = [at EXCEPT ![a].rec = row.rec, ![a].pid = row.proj,
                          ![a].pc = IF row.rec \in Logs THEN "persist" ELSE "resolve"]
    /\ UNCHANGED <<slugOf, db, dropped, taken, batch, del, counters, history>>

DeleteHeldEvent(a) ==
    /\ at[a].pc = "forget"
    /\ LET row == Oldest(batch[a])
           rest == batch[a] \ {row}
       IN /\ held' = {other \in held : other.id # row.id}
          /\ batch' = [batch EXCEPT ![a] = rest]
          /\ at' = [at EXCEPT ![a] = [Idle EXCEPT !.drains = at[a].drains,
                         !.pc = IF rest = {} THEN "list" ELSE "next"]]
    /\ UNCHANGED <<slugOf, projects, nextId, aliases, nextRow, stored, dropped, taken, del,
                   counters, history>>

\* the client that asked for the approval goes away, or a statement of the drain fails
Abandon(a) ==
    /\ at[a].pc \in {"lookup", "list", "next", "forget"}
    /\ "cancel" \in Faults /\ faults < MaxFaults
    /\ faults' = faults + 1
    /\ at' = [at EXCEPT ![a] = Idle] /\ batch' = [batch EXCEPT ![a] = {}]
    /\ undrained' = undrained \cup {at[a].pid, at[a].drains}
    /\ UNCHANGED <<slugOf, db, dropped, taken, del, approvals, ops, replayed, deleted, discarded, merged,
                   misdrained, reparked, overlap>>

-----------------------------------------------------------------------------
(* The other requests that change the projects table.                      *)

MayOperate(op) == op \in Ops /\ ops < MaxOps /\ ops' = ops + 1

CreateProject(s) ==
    /\ MayOperate("create") /\ ProjectBySlug(s) = None /\ nextId \in Ids
    /\ projects' = [p \in DOMAIN projects \cup {nextId} |->
          IF p = nextId THEN [slug |-> s, status |-> "active"] ELSE projects[p]]
    /\ nextId' = nextId + 1
    /\ UNCHANGED <<slugOf, aliases, held, nextRow, stored, dropped, taken, at, batch, del,
                   approvals, faults, history>>

\* DeleteProject finds the project and deletes its rows table by table
DeleteProject(s) ==
    /\ del.pc = "idle" /\ MayOperate("delete") /\ ProjectBySlug(s) # None
    /\ LET p == ProjectBySlug(s) IN
         /\ del' = [pc |-> "children", pid |-> p]
         /\ stored' = CascadeStored(p)
         /\ deleted' = deleted \cup {p}
         /\ discarded' = discarded \cup {r \in Records \ Logs : stored[r][p] > 0}
    /\ UNCHANGED <<slugOf, projects, nextId, aliases, held, nextRow, dropped, taken, at, batch,
                   approvals, faults, replayed, merged, misdrained, reparked, undrained, overlap>>

\* log_entries, project_aliases and, last, held_events
DeleteChildren ==
    /\ del.pc = "children"
    /\ del' = [del EXCEPT !.pc = "row"]
    /\ stored' = [r \in Records |-> [stored[r] EXCEPT ![del.pid] = IF r \in Logs THEN 0 ELSE @]]
    /\ aliases' = Without(aliases, AliasesOf(del.pid))
    /\ held' = held \ HeldOf(del.pid)
    /\ discarded' = discarded \cup {r \in Logs : stored[r][del.pid] > 0}
                              \cup {row.rec : row \in HeldOf(del.pid)}
    /\ UNCHANGED <<slugOf, projects, nextId, nextRow, dropped, taken, at, batch, counters,
                   replayed, deleted, merged, misdrained, reparked, undrained, overlap>>

DeleteRow ==
    /\ del.pc = "row"
    /\ del' = [pc |-> "idle", pid |-> None]
    /\ projects' = Without(projects, {del.pid})
    /\ aliases' = Without(aliases, AliasesOf(del.pid))
    /\ stored' = CascadeStored(del.pid)
    /\ discarded' = discarded \cup {r \in Records \ Logs : stored[r][del.pid] > 0}
    /\ UNCHANGED <<slugOf, nextId, held, nextRow, dropped, taken, at, batch, counters,
                   replayed, deleted, merged, misdrained, reparked, undrained, overlap>>

\* a deletion that runs out of its five minutes leaves the rest in place
DeleteTimesOut ==
    /\ del.pc # "idle"
    /\ "timeout" \in Faults /\ faults < MaxFaults
    /\ faults' = faults + 1
    /\ del' = [pc |-> "idle", pid |-> None]
    /\ UNCHANGED <<slugOf, db, dropped, taken, at, batch, approvals, ops, history>>

\* the old slug becomes an alias; the transaction fails when either name is taken
RenameProject(s, t) ==
    /\ MayOperate("rename") /\ ProjectBySlug(s) # None
    /\ ProjectBySlug(t) = None /\ s \notin DOMAIN aliases
    /\ LET p == ProjectBySlug(s) IN
         /\ projects' = [projects EXCEPT ![p].slug = t]
         /\ aliases' = [x \in DOMAIN aliases \cup {s} |-> IF x = s THEN p ELSE aliases[x]]
    /\ UNCHANGED <<slugOf, nextId, held, nextRow, stored, dropped, taken, at, batch, del,
                   approvals, faults, history>>

\* issues and events move to the target, or go with the row when both slugs are the
\* same project; held_events and log_entries do not move
MergeProjects(s, t) ==
    /\ MayOperate("merge")
    /\ ProjectBySlug(s) # None /\ ProjectBySlug(t) # None /\ s \notin DOMAIN aliases
    /\ LET p == ProjectBySlug(s)
           q == ProjectBySlug(t)
       IN /\ stored' = IF p = q THEN CascadeStored(p) ELSE
                       [r \in Records |-> IF r \in Logs THEN stored[r]
                           ELSE [stored[r] EXCEPT ![p] = 0,
                                                  ![q] = Min({MaxCopies, @ + stored[r][p]})]]
          /\ aliases' = [x \in (DOMAIN aliases \ AliasesOf(p)) \cup (IF p = q THEN {} ELSE {s}) |->
                           IF x = s THEN q ELSE aliases[x]]
          /\ projects' = Without(projects, {p})
          /\ merged' = merged \cup {p, q}
          /\ discarded' = IF p = q THEN discarded \cup {r \in Records \ Logs : stored[r][p] > 0}
                          ELSE discarded
          /\ deleted' = IF p = q THEN deleted \cup {p} ELSE deleted
    /\ UNCHANGED <<slugOf, nextId, held, nextRow, dropped, taken, at, batch, del,
                   approvals, faults, replayed, misdrained, reparked, undrained, overlap>>

\* the writer stops: requests end, and the queue delivers the unfinished record again
Restart ==
    /\ "crash" \in Faults /\ faults < MaxFaults
    /\ faults' = faults + 1
    /\ taken' = IF at[Consumer].pc = "idle" THEN taken ELSE taken - 1
    /\ at' = [a \in Actors |-> Idle] /\ batch' = [a \in Approvals |-> {}]
    /\ del' = [pc |-> "idle", pid |-> None]
    /\ undrained' = undrained \cup {at[a].drains : a \in Approvals} \cup {at[a].pid : a \in Approvals}
    /\ UNCHANGED <<slugOf, db, dropped, approvals, ops, replayed, deleted, discarded, merged, misdrained, reparked, overlap>>

-----------------------------------------------------------------------------
PersistRecord(a) ==
    \/ Found(a) \/ NotFound(a) \/ CreateProjectPending(a)
    \/ Hold(a) \/ Persist(a) \/ PersistRefused(a)

ReplayHeld(a) == LookUp(a) \/ ListHeld(a) \/ ReplayOne(a) \/ DeleteHeldEvent(a)

Next ==
    \/ Take \/ Ack \/ Restart
    \/ \E a \in Actors : Found(a) \/ NotFound(a) \/ CreateProjectPending(a) \/ ResolveFails(a)
                          \/ Hold(a) \/ HoldFails(a) \/ Persist(a) \/ PersistRefused(a)
                          \/ PersistBusy(a)
    \/ \E a \in Approvals : LookUp(a) \/ ListHeld(a) \/ ReplayOne(a) \/ DeleteHeldEvent(a)
                             \/ Abandon(a)
    \/ \E a \in Approvals, s \in Slugs : ApproveProject(a, s)
    \/ \E s \in Slugs : CreateProject(s) \/ DeleteProject(s)
    \/ DeleteChildren \/ DeleteRow \/ DeleteTimesOut
    \/ \E s, t \in Slugs : RenameProject(s, t) \/ MergeProjects(s, t)

Spec ==
    /\ Init /\ [][Next]_vars
    /\ WF_vars(Take \/ Ack \/ PersistRecord(Consumer))
    /\ \A a \in Approvals : WF_vars(PersistRecord(a) \/ ReplayHeld(a))
    /\ WF_vars(DeleteChildren \/ DeleteRow)

-----------------------------------------------------------------------------
(* Properties.                                                             *)

\* Every part of the state keeps its shape: slugs stay unique, rows keep their ids.
TypeOK ==
    /\ DOMAIN projects \subseteq 1..(nextId - 1) /\ nextId \in 1..(MaxProjects + 1)
    /\ \A p \in DOMAIN projects : projects[p] \in [slug : Slugs, status : {"pending", "active"}]
    /\ \A p, q \in DOMAIN projects : projects[p].slug = projects[q].slug => p = q
    /\ \A s \in DOMAIN aliases : s \in Slugs /\ aliases[s] \in DOMAIN projects
    /\ held \subseteq [id : 1..(nextRow - 1), proj : Ids, rec : Records, late : BOOLEAN]
    /\ \A x, y \in held : x.id = y.id => x = y
    /\ stored \in [Records -> [{Default} \cup Ids -> 0..MaxCopies]]
    /\ dropped \subseteq Records /\ taken \in 0..MaxRecords

\* Nothing is stored in a project before it is approved, whatever statuses were
\* read earlier.  Two things put data there all the same: merging an approved project
\* into a pending one, and an approval whose slug was deleted and taken again
\* between its update and its lookup.
PendingHoldsBack ==
    \A p \in DOMAIN projects \ (merged \cup misdrained) :
        projects[p].status = "pending" => \A r \in Records : stored[r][p] = 0

\* A record taken off the queue is with the consumer, stored in or parked for a
\* project that exists, dropped with an error, or went with a deleted project.
Accounted(r, gone) ==
    \/ r > taken \/ (at[Consumer].rec = r /\ at[Consumer].pc # "ack") \/ r \in dropped \/ r \in discarded
    \/ \E p \in {Default} \cup Ids : stored[r][p] > 0 /\ (Exists(p) \/ p \in gone)
    \/ \E row \in held : row.rec = r /\ row.proj \in DOMAIN projects \cup gone

\* No interleaving of ingest, approval, rename, restart and failing statements loses
\* a record; only deleting or merging its project can leave it where nothing finds it.
LostOnlyWithProject == \A r \in Records : Accounted(r, deleted \cup merged)

\* Merging keeps every record reachable, as the comment on MergeProjects has it.
MergeKeepsRecords == \A r \in Records : Accounted(r, deleted)

\* Once an approval is over, nothing is parked for the approved project.
Undrained(row) ==
    /\ row.proj \in DOMAIN projects /\ projects[row.proj].status = "active"
    /\ \A a \in Approvals : row.proj \notin {at[a].pid, at[a].drains}

ApprovalDrains == \A row \in held : ~Undrained(row)

\* A row stays parked for an approved project only if it was parked after the
\* approval, by an actor that had read the old status, or if the drain was cut short.
StrandedHasACause ==
    \A row \in held : Undrained(row) => row.late \/ row.proj \in undrained

\* A record is stored twice only after a failure or when two approvals of one
\* project ran at once.
RepeatsHaveACause ==
    \A r \in Records :
        \A p, q \in {Default} \cup Ids :
            stored[r][p] > 1 \/ (p # q /\ stored[r][p] > 0 /\ stored[r][q] > 0)
                => faults > 0 \/ overlap

\* Rows parked for a project are replayed in the order in which they were parked.
\* Only two overlapping approvals of the project can mix them up, and only when a
\* row left the table before it was replayed: with a deletion, or when a replay
\* parked it again because the slug had come to name another, pending project.
ReplayedInOrder ==
    \A i, j \in 1..Len(replayed) :
        i < j /\ replayed[i].proj = replayed[j].proj
            /\ ~(overlap /\ replayed[i].proj \in deleted \cup reparked)
            => replayed[i].id < replayed[j].id

\* A replayed record is never parked again: Approve has made the project active.
ReplayNeverParks == \A a \in Approvals : at[a].pc # "hold"

\* Every approval of a project comes to its end, whatever arrives while it drains.
ApprovalEnds ==
    \A a \in Approvals : at[a].pc # "idle" ~> at[a].pc = "idle" \/ misdrained # {}

\* A record of a pending project is held back until the approval, replayed in
\* order, and is lost, stranded or repeated only for the causes the parts name.
ApprovalSafe ==
  /\ TypeOK /\ PendingHoldsBack /\ LostOnlyWithProject /\ StrandedHasACause
  /\ RepeatsHaveACause /\ ReplayedInOrder
=============================================================================
