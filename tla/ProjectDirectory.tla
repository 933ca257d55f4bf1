-------------------------- MODULE ProjectDirectory --------------------------
(***************************************************************************)
(* The project directory: slugs, aliases, groups and issue prefixes, the   *)
(* requests that create, rename, merge and delete projects, and the cached *)
(* usage counts of the settings screen.  Requests run side by side; each   *)
(* statement or transaction is a step.  The numbers of new issues come     *)
(* from the project's counter, and a display id is a prefix and a number.  *)
(***************************************************************************)
EXTENDS Integers, Sequences, FiniteSets

CONSTANTS
  PdSlugs,         \* names of projects and aliases
  PrefixBase,      \* [PdSlugs -> what deriveIssuePrefix makes of the slug]
  PdFirst,         \* the slugs of the projects that exist at first, in the order of their ids
  PdGroups,        \* slugs of groups
  PdFingerprints,
  PdRequests,      \* requests that may run at the same time
  PdOps,           \* the requests made: among Operations
  UsageTTL,
  PdMaxProjects,   \* bound: projects ever created
  PdMaxIssues,     \* bound: issues ever created
  PdMaxOps,        \* bound: requests
  PdMaxTime,       \* bound: ticks
  PdMaxFaults      \* bound: failed usage queries

Operations == {"create", "ensure", "rename", "merge", "delete", "alias", "unalias",
               "group", "ungroup", "assign", "remove"}

ASSUME ProjectDirectoryAssumption ==
  /\ PrefixBase \in [PdSlugs -> PdSlugs] /\ PdFirst \in Seq(PdSlugs) /\ PdOps \subseteq Operations
  /\ \A p, q \in DOMAIN PdFirst : PdFirst[p] = PdFirst[q] => p = q
  /\ Len(PdFirst) <= PdMaxProjects
  /\ UsageTTL \in Nat \ {0}
  /\ {PdMaxProjects, PdMaxIssues, PdMaxOps, PdMaxTime, PdMaxFaults} \subseteq Nat

VARIABLES
  pdRows,      \* projects: id -> [slug, prefix, counter, group]
  pdNextId,
  pdAliases,   \* project_aliases: slug -> id
  pdGroups,    \* project_groups: slug -> id
  pdNextGroup,
  pdIssues,    \* issues: [proj, num, fp]
  pdReq,       \* [PdRequests -> a request under way]
  pdNow,
  pdUsage,     \* usageCache: [fetched, ver]; fetched is -1 when it holds nothing
  pdRefresh,   \* the version a refresh that holds the cache's mutex has read; -1 for none
  pdCommits,   \* changes committed so far, and
  pdAcked,     \* the last of them whose request has answered
  pdServed,    \* the last usage answer: its version, and pdAcked when it was asked for
  pdNames,     \* history: slug -> the project that name was given to
  pdLostNames, \* history: names that went with a merged project
  pdRaced,     \* history: projects created with a prefix another one took meanwhile
  pdMergedIn,  \* history: projects another one was merged into
  pdOps, pdFaults

pdTable == <<pdRows, pdNextId, pdAliases, pdGroups, pdNextGroup, pdIssues>>
pdCache == <<pdUsage, pdRefresh, pdServed>>
pdHistory == <<pdNames, pdLostNames, pdRaced, pdMergedIn>>
pdVars == <<pdTable, pdReq, pdNow, pdCache, pdCommits, pdAcked, pdHistory, pdOps, pdFaults>>

NoGroup == 0
NoRow == 0
PdIdle == [pc |-> "idle", op |-> "create", slug |-> "", to |-> "", id |-> NoRow, prefix |-> <<"", 0>>, saw |-> {}, ver |-> 0]
EmptyUsage == [fetched |-> -1, ver |-> 0]
NoUsageRefresh == -1

DropKeys(f, keys) == [k \in DOMAIN f \ keys |-> f[k]]
WithKey(f, k, v) == [x \in DOMAIN f \cup {k} |-> IF x = k THEN v ELSE f[x]]

RowsWith(s) == {p \in DOMAIN pdRows : pdRows[p].slug = s}
ProjectWithSlug(s) == IF RowsWith(s) = {} THEN NoRow ELSE CHOOSE p \in RowsWith(s) : TRUE

\* ResolveAlias
ResolveAlias(s) == IF s \in DOMAIN pdAliases THEN pdAliases[s] ELSE NoRow

\* EnsureProject's lookups: the slug, then the aliases.
Reaches(s) == IF ProjectWithSlug(s) # NoRow THEN ProjectWithSlug(s) ELSE ResolveAlias(s)

AliasesTo(p) == {s \in DOMAIN pdAliases : pdAliases[s] = p}
\* From now on the name s stands for project p.
GiveName(s, p) == pdNames' = WithKey(pdNames, s, p) /\ pdLostNames' = pdLostNames \ {s}
NamesOf(p) == {s \in DOMAIN pdNames : pdNames[s] = p}
NamesAfterMerge(from, to) == [x \in DOMAIN pdNames |-> IF pdNames[x] = from THEN to ELSE pdNames[x]]
TakenPrefixes == {pdRows[p].prefix : p \in DOMAIN pdRows}

\* Mutant: the loop stops at the first suffix it tries.
FirstSuffix(s) == <<PrefixBase[s], 1>>

\* uniqueIssuePrefix: the base, or the base and the first suffix that is free.
UniqueIssuePrefix(s) ==
  CHOOSE x \in {<<PrefixBase[s], n>> : n \in 1 .. PdMaxProjects + 1} :
    /\ x \notin TakenPrefixes
    /\ \A n \in 1 .. x[2] - 1 : <<PrefixBase[s], n>> \in TakenPrefixes

----------------------------------------------------------------------------
\* Requests

RequestAt(r, pc) == pdReq[r].pc = pc
RequestGoes(r, pc) == pdReq' = [pdReq EXCEPT ![r].pc = pc]
\* The request answers, with what it changed behind it or with an error.
RequestEnds(r) == pdReq' = [pdReq EXCEPT ![r] = PdIdle]

AcceptRequest(r, op, s, t) ==
  /\ RequestAt(r, "idle") /\ pdOps < PdMaxOps /\ op \in PdOps
  /\ pdReq' = [pdReq EXCEPT ![r] = [PdIdle EXCEPT !.pc = "start", !.op = op, !.slug = s, !.to = t]]
  /\ pdOps' = pdOps + 1
  /\ UNCHANGED <<pdTable, pdNow, pdCache, pdCommits, pdAcked, pdHistory, pdFaults>>

\* POST /projects and DELETE /projects/s; PUT /projects/s and POST /projects/s/merge,
\* which name a second slug.
ServeProjectRoute(r, s) == \E op \in {"create", "delete"} : AcceptRequest(r, op, s, s)
RenameOrMerge(r, s, t) == \E op \in {"rename", "merge"} : AcceptRequest(r, op, s, t)

\* Any request whose X-BugBarn-Project header names s.
ResolveProjectHeader(r, s) == AcceptRequest(r, "ensure", s, s)

\* POST /aliases and DELETE /aliases/s
ServeAliases(r, s, t) == AcceptRequest(r, "alias", s, t) \/ (s = t /\ AcceptRequest(r, "unalias", s, t))

\* The routes under /groups: the group itself, or a project's membership.
ServeGroupRoute(r, s, g) ==
  \/ \E op \in {"assign", "remove"} : AcceptRequest(r, op, s, g)
  \/ \E op \in {"group", "ungroup"} : AcceptRequest(r, op, "", g)

\* Ensure: a known name creates nothing.
EnsureProject(r) ==
  /\ RequestAt(r, "start") /\ pdReq[r].op = "ensure"
  /\ IF Reaches(pdReq[r].slug) # NoRow THEN RequestEnds(r) ELSE RequestGoes(r, "prefix")
  /\ UNCHANGED <<pdTable, pdNow, pdCache, pdCommits, pdAcked, pdHistory, pdOps, pdFaults>>

\* CreateProject chooses a prefix ...
ChoosePrefix(r) ==
  /\ RequestAt(r, "prefix") \/ (RequestAt(r, "start") /\ pdReq[r].op = "create")
  /\ pdReq' = [pdReq EXCEPT ![r].pc = "insert", ![r].prefix = UniqueIssuePrefix(pdReq[r].slug),
                            ![r].saw = DOMAIN pdRows]
  /\ UNCHANGED <<pdTable, pdNow, pdCache, pdCommits, pdAcked, pdHistory, pdOps, pdFaults>>

\* ... and inserts the row, which fails when the slug is taken by then.
CreateProjectRow(r) ==
  /\ RequestAt(r, "insert") /\ pdNextId <= PdMaxProjects
  /\ LET s == pdReq[r].slug
         prefix == pdReq[r].prefix
     IN IF ProjectWithSlug(s) # NoRow
        THEN RequestEnds(r) /\ UNCHANGED <<pdRows, pdNextId, pdCommits, pdNames, pdLostNames, pdRaced>>
        ELSE /\ pdRows' = WithKey(pdRows, pdNextId, [slug |-> s, prefix |-> prefix, counter |-> 0, group |-> NoGroup])
             /\ pdNextId' = pdNextId + 1
             /\ pdCommits' = pdCommits + 1
             /\ GiveName(s, pdNextId)
             /\ pdRaced' = IF \E p \in DOMAIN pdRows \ pdReq[r].saw : pdRows[p].prefix = prefix
                           THEN pdRaced \cup {pdNextId} ELSE pdRaced
             /\ IF pdReq[r].op = "create"
                THEN pdReq' = [pdReq EXCEPT ![r].pc = "invalidate", ![r].ver = pdCommits']
                ELSE RequestEnds(r)
  /\ UNCHANGED <<pdAliases, pdGroups, pdNextGroup, pdIssues, pdNow, pdCache, pdAcked, pdMergedIn, pdOps, pdFaults>>

\* RenameProject: one transaction, that fails when the new slug is a project's or
\* the old one is already an alias.
RenameProjectRow(r) ==
  /\ RequestAt(r, "start") /\ pdReq[r].op = "rename"
  /\ RequestEnds(r)
  /\ LET s == pdReq[r].slug
         t == pdReq[r].to
         p == ProjectWithSlug(s)
     IN IF p # NoRow /\ ProjectWithSlug(t) \in {NoRow, p} /\ s \notin DOMAIN pdAliases
        THEN /\ pdRows' = [pdRows EXCEPT ![p].slug = t]
             /\ pdAliases' = WithKey(pdAliases, s, p)
             /\ GiveName(t, p)
        ELSE UNCHANGED <<pdRows, pdAliases, pdNames, pdLostNames>>
  /\ UNCHANGED <<pdNextId, pdGroups, pdNextGroup, pdIssues, pdNow, pdCache, pdCommits, pdAcked, pdRaced, pdMergedIn, pdOps, pdFaults>>

\* Mutant: the source's slug is not kept as an alias.
AliasForgotten(s, from, to) == DropKeys(pdAliases, AliasesTo(from))

\* The aliases after a merge: the source's slug names the target; the source's own
\* aliases go with its row, and so does the new one when both are one project.
AliasesAfterMerge(s, from, to) ==
  LET added == WithKey(pdAliases, s, to)
  IN DropKeys(added, {x \in DOMAIN added : added[x] = from})

\* The issues move to the target with their numbers; a merge into itself deletes them.
IssuesAfterMerge(from, to) ==
  IF from = to THEN {i \in pdIssues : i.proj # from}
  ELSE {[i EXCEPT !.proj = IF i.proj = from THEN to ELSE i.proj] : i \in pdIssues}

\* MergeProjects: one transaction, that fails when an issue of the source has a
\* fingerprint of the target's, the source's slug is already an alias, or the source
\* has API keys: their foreign key holds its row.
MergeProjectRows(r, keyed) ==
  /\ RequestAt(r, "start") /\ pdReq[r].op = "merge"
  /\ LET s == pdReq[r].slug
         from == ProjectWithSlug(s)
         to == ProjectWithSlug(pdReq[r].to)
         clash == from # to /\ \E i, j \in pdIssues : i.proj = from /\ j.proj = to /\ i.fp = j.fp
     IN IF from # NoRow /\ to # NoRow /\ ~clash /\ ~keyed /\ s \notin DOMAIN pdAliases
        THEN /\ pdIssues' = IssuesAfterMerge(from, to)
             /\ pdAliases' = AliasesAfterMerge(s, from, to)
             /\ pdRows' = DropKeys(pdRows, {from})
             /\ pdCommits' = pdCommits + 1
             /\ pdLostNames' = pdLostNames \cup (IF from = to THEN NamesOf(from) ELSE NamesOf(from) \ {s})
             /\ pdNames' = NamesAfterMerge(from, to)
             /\ pdMergedIn' = pdMergedIn \cup {to}
             /\ pdReq' = [pdReq EXCEPT ![r].pc = "invalidate", ![r].ver = pdCommits']
        ELSE RequestEnds(r) /\ UNCHANGED <<pdIssues, pdAliases, pdRows, pdCommits, pdNames, pdLostNames, pdMergedIn>>
  /\ UNCHANGED <<pdNextId, pdGroups, pdNextGroup, pdNow, pdCache, pdAcked, pdRaced, pdOps, pdFaults>>

\* DeleteProject: an unknown slug is a success; the child rows go first, and with the
\* aliases every name but the slug ...
DeleteProjectRows(r) ==
  /\ RequestAt(r, "start") /\ pdReq[r].op = "delete"
  /\ LET p == ProjectWithSlug(pdReq[r].slug)
     IN IF p = NoRow THEN RequestEnds(r) /\ UNCHANGED <<pdIssues, pdAliases, pdNames>>
        ELSE /\ pdIssues' = {i \in pdIssues : i.proj # p}
             /\ pdAliases' = DropKeys(pdAliases, AliasesTo(p))
             /\ pdNames' = DropKeys(pdNames, NamesOf(p) \ {pdReq[r].slug})
             /\ pdReq' = [pdReq EXCEPT ![r].pc = "row", ![r].id = p]
  /\ UNCHANGED <<pdRows, pdNextId, pdGroups, pdNextGroup, pdNow, pdCache, pdCommits, pdAcked, pdLostNames, pdRaced, pdMergedIn, pdOps, pdFaults>>

\* ... then the row, with whatever was added meanwhile; a key added meanwhile holds it.
DeleteProjectRow(r, keyed) ==
  /\ RequestAt(r, "row")
  /\ LET p == pdReq[r].id
     IN IF keyed THEN RequestEnds(r) /\ UNCHANGED <<pdRows, pdIssues, pdAliases, pdNames, pdCommits>>
        ELSE /\ pdRows' = DropKeys(pdRows, {p})
             /\ pdIssues' = {i \in pdIssues : i.proj # p}
             /\ pdAliases' = DropKeys(pdAliases, AliasesTo(p))
             /\ pdNames' = DropKeys(pdNames, NamesOf(p))
             /\ pdCommits' = pdCommits + 1
             /\ pdReq' = [pdReq EXCEPT ![r].pc = "invalidate", ![r].ver = pdCommits']
  /\ UNCHANGED <<pdNextId, pdGroups, pdNextGroup, pdNow, pdCache, pdAcked, pdLostNames, pdRaced, pdMergedIn, pdOps, pdFaults>>

\* CreateAlias: the project is looked up, then the alias inserted, which fails when
\* the name is an alias or the project is gone.
LookUpProject(r) ==
  /\ RequestAt(r, "start") /\ pdReq[r].op = "alias"
  /\ LET p == ProjectWithSlug(pdReq[r].slug)
     IN IF p = NoRow THEN RequestEnds(r) ELSE pdReq' = [pdReq EXCEPT ![r].pc = "alias", ![r].id = p]
  /\ UNCHANGED <<pdTable, pdNow, pdCache, pdCommits, pdAcked, pdHistory, pdOps, pdFaults>>

CreateAlias(r) ==
  /\ RequestAt(r, "alias") /\ RequestEnds(r)
  /\ LET a == pdReq[r].to
         p == pdReq[r].id
     IN IF a \in DOMAIN pdAliases \/ p \notin DOMAIN pdRows
        THEN UNCHANGED <<pdAliases, pdNames, pdLostNames>>
        ELSE /\ pdAliases' = WithKey(pdAliases, a, p)
             /\ IF ProjectWithSlug(a) = NoRow THEN GiveName(a, p) ELSE UNCHANGED <<pdNames, pdLostNames>>
  /\ UNCHANGED <<pdRows, pdNextId, pdGroups, pdNextGroup, pdIssues, pdNow, pdCache, pdCommits, pdAcked, pdRaced, pdMergedIn, pdOps, pdFaults>>

DeleteAlias(r) ==
  /\ RequestAt(r, "start") /\ pdReq[r].op = "unalias" /\ RequestEnds(r)
  /\ LET a == pdReq[r].slug
     IN /\ pdAliases' = DropKeys(pdAliases, {a})
        /\ pdNames' = IF ProjectWithSlug(a) = NoRow THEN DropKeys(pdNames, {a}) ELSE pdNames
  /\ UNCHANGED <<pdRows, pdNextId, pdGroups, pdNextGroup, pdIssues, pdNow, pdCache, pdCommits, pdAcked, pdLostNames, pdRaced, pdMergedIn, pdOps, pdFaults>>

CreateGroup(r) ==
  /\ RequestAt(r, "start") /\ pdReq[r].op = "group" /\ RequestEnds(r)
  /\ IF pdReq[r].to \in DOMAIN pdGroups THEN UNCHANGED <<pdGroups, pdNextGroup>>
     ELSE pdGroups' = WithKey(pdGroups, pdReq[r].to, pdNextGroup) /\ pdNextGroup' = pdNextGroup + 1
  /\ UNCHANGED <<pdRows, pdNextId, pdAliases, pdIssues, pdNow, pdCache, pdCommits, pdAcked, pdHistory, pdOps, pdFaults>>

\* DeleteGroup: the foreign key clears its members' group_id.
DeleteGroup(r) ==
  /\ RequestAt(r, "start") /\ pdReq[r].op = "ungroup" /\ RequestEnds(r)
  /\ LET g == pdReq[r].to
     IN IF g \notin DOMAIN pdGroups THEN UNCHANGED <<pdGroups, pdRows>>
        ELSE /\ pdGroups' = DropKeys(pdGroups, {g})
             /\ pdRows' = [p \in DOMAIN pdRows |->
                  [pdRows[p] EXCEPT !.group = IF @ = pdGroups[g] THEN NoGroup ELSE @]]
  /\ UNCHANGED <<pdNextId, pdAliases, pdNextGroup, pdIssues, pdNow, pdCache, pdCommits, pdAcked, pdHistory, pdOps, pdFaults>>

\* AssignProjectToGroup: the group is looked up, then the project's row updated,
\* which fails when the group or the project is gone by then.
LookUpGroup(r) ==
  /\ RequestAt(r, "start") /\ pdReq[r].op = "assign"
  /\ IF pdReq[r].to \notin DOMAIN pdGroups THEN RequestEnds(r)
     ELSE pdReq' = [pdReq EXCEPT ![r].pc = "assign", ![r].id = pdGroups[pdReq[r].to]]
  /\ UNCHANGED <<pdTable, pdNow, pdCache, pdCommits, pdAcked, pdHistory, pdOps, pdFaults>>

AssignProjectToGroup(r) ==
  /\ RequestAt(r, "assign") /\ RequestEnds(r)
  /\ LET p == ProjectWithSlug(pdReq[r].slug)
         exists == \E g \in DOMAIN pdGroups : pdGroups[g] = pdReq[r].id
     IN pdRows' = IF p # NoRow /\ exists THEN [pdRows EXCEPT ![p].group = pdReq[r].id] ELSE pdRows
  /\ UNCHANGED <<pdNextId, pdAliases, pdGroups, pdNextGroup, pdIssues, pdNow, pdCache, pdCommits, pdAcked, pdHistory, pdOps, pdFaults>>

RemoveProjectFromGroup(r) ==
  /\ RequestAt(r, "start") /\ pdReq[r].op = "remove" /\ RequestEnds(r)
  /\ LET p == ProjectWithSlug(pdReq[r].slug)
     IN pdRows' = IF p # NoRow THEN [pdRows EXCEPT ![p].group = NoGroup] ELSE pdRows
  /\ UNCHANGED <<pdNextId, pdAliases, pdGroups, pdNextGroup, pdIssues, pdNow, pdCache, pdCommits, pdAcked, pdHistory, pdOps, pdFaults>>

\* An event of a new fingerprint: allocateIssueNumber takes the next number.
NewIssueRow(p, fp) ==
  /\ p \in DOMAIN pdRows /\ Cardinality(pdIssues) < PdMaxIssues
  /\ ~ \E i \in pdIssues : i.proj = p /\ i.fp = fp
  /\ pdRows' = [pdRows EXCEPT ![p].counter = @ + 1]
  /\ pdIssues' = pdIssues \cup {[proj |-> p, num |-> pdRows'[p].counter, fp |-> fp]}
  /\ UNCHANGED <<pdNextId, pdAliases, pdGroups, pdNextGroup, pdReq, pdNow, pdCache, pdCommits, pdAcked, pdHistory, pdOps, pdFaults>>

----------------------------------------------------------------------------
\* Usage

UsageFree == pdRefresh = NoUsageRefresh

\* Mutant: the invalidation does not wait for a refresh.
InvalidatesAtOnce == TRUE

\* invalidate takes the mutex too.
MayInvalidate == UsageFree

UsageFresh == pdUsage.fetched >= 0 /\ pdNow - pdUsage.fetched < UsageTTL

\* attachUsage: a fresh snapshot is served ...
UsageHit ==
  /\ UsageFree /\ UsageFresh
  /\ pdServed' = [ver |-> pdUsage.ver, acked |-> pdAcked]
  /\ UNCHANGED <<pdTable, pdReq, pdNow, pdUsage, pdRefresh, pdCommits, pdAcked, pdHistory, pdOps, pdFaults>>

\* ... and any other makes the caller query, holding the mutex ...
UsageRefresh ==
  /\ UsageFree /\ ~UsageFresh
  /\ pdRefresh' = pdCommits
  /\ UNCHANGED <<pdTable, pdReq, pdNow, pdUsage, pdServed, pdCommits, pdAcked, pdHistory, pdOps, pdFaults>>

\* ... and keep what it read ...
UsageRefreshed ==
  /\ ~UsageFree
  /\ pdUsage' = [fetched |-> pdNow, ver |-> pdRefresh]
  /\ pdServed' = [ver |-> pdRefresh, acked |-> 0]
  /\ pdRefresh' = NoUsageRefresh
  /\ UNCHANGED <<pdTable, pdReq, pdNow, pdCommits, pdAcked, pdHistory, pdOps, pdFaults>>

\* ... or, when that fails, serve the old snapshot as stale if there is one.
UsageStale ==
  /\ ~UsageFree /\ pdFaults < PdMaxFaults
  /\ pdServed' = IF pdUsage.fetched >= 0 THEN [ver |-> pdUsage.ver, acked |-> pdAcked] ELSE pdServed
  /\ pdRefresh' = NoUsageRefresh
  /\ pdFaults' = pdFaults + 1
  /\ UNCHANGED <<pdTable, pdReq, pdNow, pdUsage, pdCommits, pdAcked, pdHistory, pdOps>>

\* Create, Delete and Merge drop the usage snapshot when they have committed; the
\* cache's mutex makes them wait for a refresh.
InvalidateUsage(r) ==
  /\ RequestAt(r, "invalidate") /\ MayInvalidate
  /\ pdUsage' = EmptyUsage
  /\ pdAcked' = IF pdReq[r].ver > pdAcked THEN pdReq[r].ver ELSE pdAcked
  /\ RequestEnds(r)
  /\ UNCHANGED <<pdTable, pdNow, pdRefresh, pdServed, pdCommits, pdHistory, pdOps, pdFaults>>

PdTick ==
  /\ pdNow < PdMaxTime /\ pdNow' = pdNow + 1
  /\ UNCHANGED <<pdTable, pdReq, pdCache, pdCommits, pdAcked, pdHistory, pdOps, pdFaults>>

PdInit ==
  /\ pdRows = [p \in DOMAIN PdFirst |->
       [slug |-> PdFirst[p], counter |-> 0, group |-> NoGroup,
        prefix |-> <<PrefixBase[PdFirst[p]], Cardinality({q \in 1 .. p : PrefixBase[PdFirst[q]] = PrefixBase[PdFirst[p]]})>>]]
  /\ pdNextId = 1 + Len(PdFirst)
  /\ pdAliases = <<>> /\ pdGroups = <<>> /\ pdNextGroup = 1 /\ pdIssues = {}
  /\ pdReq = [r \in PdRequests |-> PdIdle] /\ pdNow = 0 /\ pdOps = 0 /\ pdFaults = 0
  /\ pdUsage = EmptyUsage /\ pdRefresh = NoUsageRefresh /\ pdServed = [ver |-> 0, acked |-> 0]
  /\ pdCommits = 0 /\ pdAcked = 0
  /\ pdNames = [s \in {PdFirst[p] : p \in DOMAIN PdFirst} |-> CHOOSE p \in DOMAIN PdFirst : PdFirst[p] = s]
  /\ pdLostNames = {} /\ pdRaced = {} /\ pdMergedIn = {}

ProjectRequest(r) ==
  \/ EnsureProject(r) \/ ChoosePrefix(r) \/ CreateProjectRow(r) \/ RenameProjectRow(r)
  \/ DeleteProjectRows(r) \/ InvalidateUsage(r)
  \/ \E keyed \in BOOLEAN : MergeProjectRows(r, keyed) \/ DeleteProjectRow(r, keyed)

AliasOrGroupRequest(r) ==
  \/ LookUpProject(r) \/ CreateAlias(r) \/ DeleteAlias(r) \/ CreateGroup(r) \/ DeleteGroup(r)
  \/ LookUpGroup(r) \/ AssignProjectToGroup(r) \/ RemoveProjectFromGroup(r)

PdNext ==
  \/ \E r \in PdRequests :
       \/ \E s \in PdSlugs : ServeProjectRoute(r, s) \/ ResolveProjectHeader(r, s)
       \/ \E s, t \in PdSlugs : RenameOrMerge(r, s, t) \/ ServeAliases(r, s, t)
       \/ \E s \in PdSlugs, g \in PdGroups : ServeGroupRoute(r, s, g)
       \/ ProjectRequest(r) \/ AliasOrGroupRequest(r)
  \/ \E p \in 1 .. PdMaxProjects, fp \in PdFingerprints : NewIssueRow(p, fp)
  \/ UsageHit \/ UsageRefresh \/ UsageRefreshed \/ UsageStale \/ PdTick

PdSpec == PdInit /\ [][PdNext]_pdVars

----------------------------------------------------------------------------
\* Correctness

DisplayId(i) == <<pdRows[i.proj].prefix, i.num>>

\* One display id (BW-42) names one issue, unless issues of another project were
\* merged in with their numbers, or two projects were created at the same moment
\* with the same prefix: neither the merge nor the table keeps ids apart.
SharedIdHasACause ==
  \A i, j \in pdIssues :
    i # j /\ DisplayId(i) = DisplayId(j) =>
      IF i.proj = j.proj THEN i.proj \in pdMergedIn ELSE {i.proj, j.proj} \cap pdRaced # {}

\* A name once given to a project by its creation, a rename, an alias or a merge
\* reaches that project until the name is taken over or removed; only the further
\* names of a merged project are lost.
NamesKeepReaching == \A s \in DOMAIN pdNames \ pdLostNames : Reaches(s) = pdNames[s]

\* The usage a client is shown, stale or not, includes every creation, deletion and
\* merge that had answered before it was read from the cache.
UsageIncludesOwnChanges == pdServed.ver >= pdServed.acked

\* What storage/projects.go says of MergeProjects: it "moves all data from the
\* source project to the target project", so a merge loses no issue.
MergeMovesEverything ==
  [][(\E r \in PdRequests, keyed \in BOOLEAN : MergeProjectRows(r, keyed)) => Cardinality(pdIssues') = Cardinality(pdIssues)]_pdVars

\* Ids, names and the usage shown to a client stay right, but for the causes the
\* parts name.
DirectorySound == SharedIdHasACause /\ NamesKeepReaching /\ UsageIncludesOwnChanges
=============================================================================
