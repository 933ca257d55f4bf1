---------------------------- MODULE StoreProofs ----------------------------
(***************************************************************************)
(* What the store's caches and tables keep, for every value of the         *)
(* constants: the counts that issues are listed with, the releases that    *)
(* events and people add, the keys that requests are accepted with and how *)
(* a program gets one, the names, prefixes and usage counts of projects,   *)
(* and the bound on the WAL.                                               *)
(***************************************************************************)
EXTENDS IssueCounts, Releases, SetupKeys, KeyTouch, KeyRequests, ProjectDirectory, Checkpoint, Functions,
        FiniteSetTheorems, FunctionTheorems, SequenceTheorems, NaturalsInduction, WellFoundedInduction, TLAPS

----------------------------------------------------------------------------
(* The issue counts cache.  That counts include the changes acknowledged   *)
(* before is not inductive: it speaks of what was served.  The invariant   *)
(* adds why nothing older can be served: every entry, and the snapshot of  *)
(* the refresh that holds the mutex, is as new as the last acknowledged    *)
(* change, because a change is acknowledged only after an invalidation     *)
(* that waited for that refresh.                                           *)

ClockInv ==
  /\ icNow \in Nat /\ icVersion \in Nat /\ icChange \subseteq 1 .. icVersion /\ icAcked \in 0 .. icVersion

EntryInv(s) ==
  /\ icCache[s].ver \in Int /\ icCache[s].fetched \in Int
  /\ CountsKept(s) => icCache[s].ver >= icAcked

RefreshInv ==
  icRefresh.held => /\ icRefresh.scope \in IcScopes /\ icRefresh.ver \in Nat
                    /\ icRefresh.ver >= icAcked

IcInv ==
  /\ ClockInv /\ RefreshInv /\ CountsIncludeOwnChanges
  /\ \A s \in IcScopes : EntryInv(s)

\* The cache is empty at first.
LEMMA IcInvInit == IcInit => IcInv
BY IssueCountsAssumption DEF IcInit, IcInv, ClockInv, EntryInv, RefreshInv, CountsIncludeOwnChanges,
   NoRefresh, NoEntry, CountsKept

\* No step of a request, of the worker or of the clock breaks the invariant.
LEMMA IcInvStep == IcInv /\ [IcNext]_icVars => IcInv'
<1> SUFFICES ASSUME IcInv, [IcNext]_icVars PROVE IcInv'
  OBVIOUS
<1> USE IssueCountsAssumption DEF IcInv, ClockInv, EntryInv, RefreshInv, CountsIncludeOwnChanges, CountsKept
<1>1. ASSUME NEW i \in IcIssues, NEW status \in IcStatuses, ChangeApplies(i, status) PROVE IcInv'
  <2>1. icVersion' = icVersion + 1 /\ icChange' = icChange \cup {icVersion + 1}
    BY <1>1 DEF ChangeApplies, CommitStatus
  <2>2. ClockInv'
    <3>1. icNow' = icNow /\ icAcked' = icAcked
      BY <1>1 DEF ChangeApplies
    <3>2. \A n \in icChange' : n \in 1 .. icVersion + 1
      BY <2>1
    <3> QED
      BY <2>1, <3>1, <3>2
  <2> QED
    BY <1>1, <2>2 DEF ChangeApplies
<1>2. ASSUME NEW i \in IcIssues, NEW status \in IcStatuses, OtherChange(i, status) PROVE IcInv'
  BY <1>2 DEF OtherChange, CommitStatus
\* The acknowledgement: no entry is left, and no refresh holds the mutex.
<1>3. ASSUME NEW change \in icChange, InvalidateCounts(change) PROVE IcInv'
  <2>1. \A s \in IcScopes : icCache'[s] = NoEntry
    BY <1>3 DEF InvalidateCounts
  <2>2. ~icRefresh'.held /\ icAcked' \in 0 .. icVersion /\ icChange' \subseteq icChange
    BY <1>3 DEF InvalidateCounts, CountsFree
  <2> QED
    BY <2>1, <2>2, <1>3 DEF InvalidateCounts, NoEntry
\* The snapshot becomes an entry, and is served.
<1>4. CASE CountsStore
  <2> DEFINE entry == [ver |-> icRefresh.ver, counts |-> icRefresh.counts, fetched |-> icNow]
  <2>1. \A s \in IcScopes : icCache'[s] \in {entry, NoEntry, icCache[s]}
    BY <1>4 DEF CountsStore
  <2>2. \A s \in IcScopes : EntryInv(s)'
    <3> SUFFICES ASSUME NEW s \in IcScopes PROVE EntryInv(s)'
      OBVIOUS
    <3>1. CASE icCache'[s] = entry
      BY <1>4, <3>1 DEF CountsStore
    <3>2. CASE icCache'[s] = NoEntry
      BY <3>2 DEF NoEntry
    <3>3. CASE icCache'[s] = icCache[s]
      BY <1>4, <3>3 DEF CountsStore
    <3> QED
      BY <2>1, <3>1, <3>2, <3>3
  <2>3. CountsIncludeOwnChanges'
    BY <1>4 DEF CountsStore, Serve
  <2> QED
    BY <1>4, <2>2, <2>3 DEF CountsStore, NoRefresh
\* A failed refresh serves an entry, however old, or nothing.
<1>5. CASE CountsFail
  BY <1>5 DEF CountsFail, Serve, NoRefresh
<1>6. CASE IcTick
  BY <1>6 DEF IcTick
<1>7. ASSUME NEW s \in IcScopes, CountsHit(s) PROVE IcInv'
  BY <1>7 DEF CountsHit, CountsFresh, Serve
<1>8. ASSUME NEW s \in IcScopes, CountsQuery(s) PROVE IcInv'
  BY <1>8 DEF CountsQuery
<1>9. CASE UNCHANGED icVars
  BY <1>9 DEF icVars
<1> QED
  BY <1>1, <1>2, <1>3, <1>4, <1>5, <1>6, <1>7, <1>8, <1>9 DEF IcNext

\* Counts served by the service (counts.go) include every status change it had
\* returned from, and are past their TTL only after a failed refresh, whatever
\* scopes are asked for and however large the cache may grow.
THEOREM CountsCoherent == IcSpec => []CountsIncludeOwnChanges
<1>1. IcInv => CountsIncludeOwnChanges
  BY DEF IcInv
<1> QED
  BY <1>1, IcInvInit, IcInvStep, PTL DEF IcSpec

----------------------------------------------------------------------------
(* Releases                                                                *)

ReleaseRow == [id : Int, version : ReleaseVersions, env : ReleaseEnvs, at : Int, by : {"auto", "hand"}]
EnsureCall == [pc : {"idle", "lookup", "insert", "add"}, key : ReleaseKeys \cup {<<"", "">>}, at : Int]

ReTypes ==
  /\ reRows \subseteq ReleaseRow /\ reLast \in Int
  /\ reMarkers \subseteq [key : ReleaseKeys, at : Int]
  /\ reCalls \in [ReleaseCallers -> EnsureCall]
  /\ \A c \in ReleaseCallers : reCalls[c].pc # "idle" => reCalls[c].key \in ReleaseKeys
  /\ reSeen \subseteq ReleaseKeys /\ reServed \subseteq ReleaseKeys

\* What is remembered as ensured, or about to be, has a matching row, unless a
\* person took it away.
HasRow(key) == key \in reGone \/ \E r \in reRows : Matches(r, key)
EnsuredInv ==
  /\ \A key \in reSeen \cup reServed : HasRow(key)
  /\ \A c \in ReleaseCallers : reCalls[c].pc = "add" => HasRow(reCalls[c].key)

KeyOf(r) == <<r.version, r.env>>

\* A second automatic row of a version and environment has its cause.
Excused(key) == key[1] \in reOverlap \/ key \in reGone
SingleInv ==
  \A r, s \in reRows : r # s /\ r.by = "auto" /\ s.by = "auto" /\ KeyOf(r) = KeyOf(s) => Excused(KeyOf(r))

\* A call that is about to insert has such a cause before it: another call that
\* is, or a row that is there already.
InsertInv ==
  /\ \A c, d \in ReleaseCallers :
       c # d /\ reCalls[c].pc = "insert" /\ reCalls[d].pc = "insert" /\ reCalls[c].key[1] = reCalls[d].key[1]
         => reCalls[c].key[1] \in reOverlap
  /\ \A c \in ReleaseCallers, r \in reRows :
       reCalls[c].pc = "insert" /\ r.by = "auto" /\ KeyOf(r) = reCalls[c].key => Excused(reCalls[c].key)

ReInv == ReTypes /\ EnsuredInv /\ SingleInv /\ InsertInv

\* A row matches its own version and environment.
LEMMA MatchesItself == ASSUME NEW r, NEW key \in ReleaseKeys, key = KeyOf(r) PROVE Matches(r, key)
BY DEF Matches, KeyOf, ReleaseKeys

\* An event's key is its version and environment.
LEMMA KeyParts == ASSUME NEW key \in ReleaseKeys
                  PROVE  key = <<key[1], key[2]>> /\ key[1] \in ReleaseVersions /\ key[2] \in ReleaseEnvs
BY DEF ReleaseKeys

\* A row is added: what had a matching row has one still.
LEMMA RowAdded ==
  ASSUME ReInv, NEW key \in ReleaseKeys, NEW at \in Int, NEW by \in {"auto", "hand"}, InsertRelease(key, at, by),
         reGone' = reGone, reOverlap' = reOverlap
  PROVE  /\ reRows' \subseteq ReleaseRow /\ reLast' \in Int
         /\ \A k : HasRow(k) => HasRow(k)'
         /\ HasRow(key)'
         /\ \E n : /\ reRows' = reRows \cup {n} /\ n.by = by /\ KeyOf(n) = key
<1>. DEFINE n == [id |-> reLast', version |-> key[1], env |-> key[2], at |-> at, by |-> by]
<1>1. reRows' = reRows \cup {n} /\ reLast' = reLast + 1
  BY DEF InsertRelease
<1>2. reLast' \in Int
  BY <1>1 DEF ReInv, ReTypes
<1>3. n \in ReleaseRow /\ n.by = by /\ KeyOf(n) = key /\ n.version = key[1] /\ n.env = key[2]
  BY <1>2, KeyParts DEF ReleaseRow, KeyOf
<1>. HIDE DEF n
<1>4. Matches(n, key)
  BY <1>3, MatchesItself
<1>. QED  BY <1>1, <1>2, <1>3, <1>4 DEF HasRow, ReInv, ReTypes

\* A row is changed or removed: the keys it matched are no longer counted on.
LEMMA RowGone ==
  ASSUME ReInv, NEW r \in reRows, reRows \ {r} \subseteq reRows', reGone \cup MatchingKeys(r) \subseteq reGone',
         NEW key \in ReleaseKeys, HasRow(key)
  PROVE  HasRow(key)'
<1>1. CASE Matches(r, key)
  BY <1>1 DEF MatchingKeys, HasRow
<1>2. CASE ~Matches(r, key)
  BY <1>2 DEF HasRow
<1>. QED  BY <1>1, <1>2

\* A call that is idle or looks up takes part in nothing.
LEMMA CallIdle ==
  ASSUME ReInv, NEW c \in ReleaseCallers, NEW v \in EnsureCall, reCalls' = [reCalls EXCEPT ![c] = v],
         v.pc \in {"idle", "lookup", "add"}, v.pc # "idle" => v.key \in ReleaseKeys,
         v.pc = "add" => HasRow(v.key),
         reRows' = reRows, reLast' = reLast, reMarkers' = reMarkers, reGone' = reGone, reOverlap' = reOverlap,
         reSeen' \subseteq ReleaseKeys, reServed' \subseteq ReleaseKeys,
         \A key \in reSeen' \cup reServed' : HasRow(key)
  PROVE  ReInv'
<1>1. reCalls' \in [ReleaseCallers -> EnsureCall] /\ reCalls'[c] = v
        /\ \A d \in ReleaseCallers : d # c => reCalls'[d] = reCalls[d]
  BY DEF ReInv, ReTypes
<1>2. ReTypes'
  BY <1>1 DEF ReInv, ReTypes
<1>3. EnsuredInv'
  BY <1>1 DEF ReInv, EnsuredInv, HasRow
<1>4. SingleInv'
  BY DEF ReInv, SingleInv, Excused
<1>5. InsertInv'
  BY <1>1 DEF ReInv, InsertInv, Excused
<1>. QED  BY <1>2, <1>3, <1>4, <1>5 DEF ReInv

\* A step keeps the invariant.
LEMMA ReStep == ASSUME ReInv, ReNext PROVE ReInv'
<1>0. ReTypes /\ EnsuredInv /\ SingleInv /\ InsertInv
  BY DEF ReInv
<1>a. ASSUME NEW c \in ReleaseCallers
      PROVE  reCalls[c] \in EnsureCall /\ reCalls[c].at \in Int /\ (reCalls[c].pc # "idle" => reCalls[c].key \in ReleaseKeys)
  BY <1>0 DEF ReTypes, EnsureCall
<1>i. NoCall \in EnsureCall /\ NoCall.pc = "idle"
  BY DEF NoCall, EnsureCall
<1>1. ASSUME NEW c \in ReleaseCallers, Lookup(c) PROVE ReInv'
  <2>. DEFINE key == reCalls[c].key
              found == \E r \in reRows : Matches(r, key)
              other == {d \in ReleaseCallers \ {c} : reCalls[d].pc = "insert" /\ reCalls[d].key[1] = key[1]}
  <2>1. /\ reCalls' = [reCalls EXCEPT ![c].pc = IF found THEN "add" ELSE "insert"]
        /\ reOverlap' = IF ~found /\ other # {} THEN reOverlap \cup {key[1]} ELSE reOverlap
        /\ reRows' = reRows /\ reLast' = reLast /\ reMarkers' = reMarkers /\ reSeen' = reSeen
        /\ reGone' = reGone /\ reServed' = reServed /\ reCalls[c].pc = "lookup"
    BY <1>1 DEF Lookup
  <2>2. key \in ReleaseKeys
    BY <1>a, <2>1
  <2>3. CASE found
    <3>. DEFINE v == [reCalls[c] EXCEPT !.pc = "add"]
    <3>1. v \in EnsureCall /\ v.pc = "add" /\ v.key = key
      BY <1>a DEF EnsureCall
    <3>2. reCalls' = [reCalls EXCEPT ![c] = v] /\ reOverlap' = reOverlap
      BY <2>1, <2>3
    <3>3. HasRow(key)
      BY <2>3 DEF HasRow
    <3>4. reSeen' \subseteq ReleaseKeys /\ reServed' \subseteq ReleaseKeys /\ \A k \in reSeen' \cup reServed' : HasRow(k)
      BY <1>0, <2>1 DEF ReTypes, EnsuredInv
    <3>. HIDE DEF v, key, found, other
    <3>. QED  BY <2>1, <2>2, <3>1, <3>2, <3>3, <3>4, CallIdle
  <2>4. CASE ~found
    <3>. DEFINE v == [reCalls[c] EXCEPT !.pc = "insert"]
    <3>1. v \in EnsureCall /\ v.pc = "insert" /\ v.key = key
      BY <1>a DEF EnsureCall
    <3>2. reCalls' = [reCalls EXCEPT ![c] = v]
      BY <2>1, <2>4
    <3>. HIDE DEF v
    <3>3. reCalls' \in [ReleaseCallers -> EnsureCall] /\ reCalls'[c] = v
            /\ \A d \in ReleaseCallers : d # c => reCalls'[d] = reCalls[d]
      BY <1>0, <3>1, <3>2 DEF ReTypes
    <3>4. reOverlap \subseteq reOverlap'
      BY <2>1
    <3>5. ReTypes'
      BY <1>0, <2>1, <2>2, <3>1, <3>3 DEF ReTypes
    <3>6. EnsuredInv'
      BY <1>0, <2>1, <3>1, <3>3 DEF EnsuredInv, HasRow
    <3>7. SingleInv'
      BY <1>0, <2>1, <3>4 DEF SingleInv, Excused
    <3>8. ASSUME NEW d \in ReleaseCallers \ {c}, reCalls[d].pc = "insert", reCalls[d].key[1] = key[1]
          PROVE  key[1] \in reOverlap'
      BY <2>1, <2>4, <3>8
    <3>9. ASSUME NEW r \in reRows, KeyOf(r) = key PROVE FALSE
      BY <2>2, <2>4, <3>9, MatchesItself
    <3>10. InsertInv'
      <4>. HIDE DEF key, found, other
      <4>1. ASSUME NEW a \in ReleaseCallers, NEW b \in ReleaseCallers, a # b, reCalls'[a].pc = "insert",
                   reCalls'[b].pc = "insert", reCalls'[a].key[1] = reCalls'[b].key[1]
            PROVE  reCalls'[a].key[1] \in reOverlap'
        <5>1. CASE a = c
          BY <3>1, <3>3, <3>8, <4>1, <5>1
        <5>2. CASE b = c
          BY <3>1, <3>3, <3>8, <4>1, <5>2
        <5>3. CASE a # c /\ b # c
          BY <1>0, <3>3, <3>4, <4>1, <5>3 DEF InsertInv
        <5>. QED  BY <5>1, <5>2, <5>3
      <4>2. ASSUME NEW a \in ReleaseCallers, NEW r \in reRows, reCalls'[a].pc = "insert", r.by = "auto",
                   KeyOf(r) = reCalls'[a].key
            PROVE  reCalls'[a].key[1] \in reOverlap' \/ reCalls'[a].key \in reGone'
        <5>1. CASE a = c
          BY <3>1, <3>3, <3>9, <4>2, <5>1
        <5>2. CASE a # c
          BY <1>0, <2>1, <3>3, <3>4, <4>2, <5>2 DEF InsertInv, Excused
        <5>. QED  BY <5>1, <5>2
      <4>. QED  BY <2>1, <4>1, <4>2 DEF InsertInv, Excused
    <3>. QED  BY <3>5, <3>6, <3>7, <3>10 DEF ReInv
  <2>. QED  BY <2>3, <2>4
<1>2. ASSUME NEW c \in ReleaseCallers, Insert(c) PROVE ReInv'
  <2>0. PICK key \in ReleaseKeys : key = reCalls[c].key
    BY <1>2, <1>a DEF Insert
  <2>. DEFINE v == [reCalls[c] EXCEPT !.pc = "add"]
  <2>1. /\ reCalls' = [reCalls EXCEPT ![c] = v] /\ reCalls[c].pc = "insert"
        /\ InsertRelease(key, reCalls[c].at, "auto")
        /\ reMarkers' = reMarkers /\ reSeen' = reSeen /\ reGone' = reGone /\ reOverlap' = reOverlap /\ reServed' = reServed
    BY <1>2, <2>0 DEF Insert
  <2>2. key \in ReleaseKeys /\ reCalls[c].at \in Int
    BY <1>a, <2>1
  <2>3. v \in EnsureCall /\ v.pc = "add" /\ v.key = key
    BY <1>a, <2>0 DEF EnsureCall
  <2>4. /\ reRows' \subseteq ReleaseRow /\ reLast' \in Int
        /\ \A k : HasRow(k) => HasRow(k)'
        /\ HasRow(key)'
    BY <2>1, <2>2, RowAdded
  <2>5. PICK n : reRows' = reRows \cup {n} /\ n.by = "auto" /\ KeyOf(n) = key
    BY <2>1, <2>2, RowAdded
  <2>6. reCalls' \in [ReleaseCallers -> EnsureCall] /\ reCalls'[c] = v
          /\ \A d \in ReleaseCallers : d # c => reCalls'[d] = reCalls[d]
    BY <1>0, <2>1, <2>3 DEF ReTypes
  <2>. HIDE DEF v
  <2>7. ReTypes'
    BY <1>0, <2>1, <2>2, <2>3, <2>4, <2>6 DEF ReTypes
  <2>8. EnsuredInv'
    <3>1. ASSUME NEW d \in ReleaseCallers, reCalls'[d].pc = "add"
          PROVE  reCalls'[d].key \in reGone' \/ \E r \in reRows' : Matches(r, reCalls'[d].key)
      <4>1. CASE d = c
        BY <2>3, <2>4, <2>6, <4>1 DEF HasRow
      <4>2. CASE d # c
        <5>1. PICK k : k = reCalls[d].key
          OBVIOUS
        <5>2. HasRow(k) /\ reCalls'[d].key = k
          BY <1>0, <2>6, <3>1, <4>2, <5>1 DEF EnsuredInv
        <5>3. HasRow(k)'
          BY <2>4, <5>2
        <5>. QED  BY <5>2, <5>3 DEF HasRow
      <4>. QED  BY <4>1, <4>2
    <3>2. \A k \in reSeen' \cup reServed' : HasRow(k)'
      BY <1>0, <2>1, <2>4 DEF EnsuredInv
    <3>. QED  BY <3>1, <3>2 DEF EnsuredInv, HasRow
  <2>9. ASSUME NEW r \in reRows, r.by = "auto", KeyOf(r) = key PROVE key[1] \in reOverlap \/ key \in reGone
    BY <1>0, <2>0, <2>1, <2>9 DEF InsertInv, Excused
  <2>10. SingleInv'
    BY <1>0, <2>1, <2>5, <2>9 DEF SingleInv, Excused
  <2>11. InsertInv'
    <3>1. ASSUME NEW a \in ReleaseCallers, reCalls'[a].pc = "insert"
          PROVE  a # c /\ reCalls'[a] = reCalls[a]
      BY <2>3, <2>6, <3>1
    <3>2. ASSUME NEW a \in ReleaseCallers, reCalls'[a].pc = "insert", reCalls'[a].key = key
          PROVE  key[1] \in reOverlap
      BY <1>0, <2>0, <2>1, <3>1, <3>2 DEF InsertInv
    <3>3. ASSUME NEW a \in ReleaseCallers, NEW r \in reRows', reCalls'[a].pc = "insert", r.by = "auto",
                 KeyOf(r) = reCalls'[a].key
          PROVE  reCalls'[a].key[1] \in reOverlap' \/ reCalls'[a].key \in reGone'
      <4>1. CASE r = n
        BY <2>1, <2>5, <3>2, <3>3, <4>1
      <4>2. CASE r \in reRows
        BY <1>0, <2>1, <3>1, <3>3, <4>2 DEF InsertInv, Excused
      <4>. QED  BY <2>5, <3>3, <4>1, <4>2
    <3>4. \A a, b \in ReleaseCallers :
            a # b /\ reCalls'[a].pc = "insert" /\ reCalls'[b].pc = "insert" /\ reCalls'[a].key[1] = reCalls'[b].key[1]
              => reCalls'[a].key[1] \in reOverlap'
      BY <1>0, <2>1, <3>1 DEF InsertInv
    <3>. QED  BY <3>3, <3>4 DEF InsertInv, Excused
  <2>. QED  BY <2>7, <2>8, <2>10, <2>11 DEF ReInv
<1>3. ASSUME NEW c \in ReleaseCallers, AddSeen(c) PROVE ReInv'
  <2>1. /\ reCalls' = [reCalls EXCEPT ![c] = NoCall] /\ reCalls[c].pc = "add"
        /\ reSeen' \subseteq reSeen \cup {reCalls[c].key} /\ reServed' = reServed \cup {reCalls[c].key}
        /\ reRows' = reRows /\ reLast' = reLast /\ reMarkers' = reMarkers /\ reGone' = reGone /\ reOverlap' = reOverlap
    BY <1>3 DEF AddSeen, SeenWith
  <2>2. reCalls[c].key \in ReleaseKeys /\ HasRow(reCalls[c].key)
    BY <1>0, <1>a, <2>1 DEF EnsuredInv
  <2>3. reSeen' \subseteq ReleaseKeys /\ reServed' \subseteq ReleaseKeys /\ \A k \in reSeen' \cup reServed' : HasRow(k)
    BY <1>0, <2>1, <2>2 DEF ReTypes, EnsuredInv
  <2>. QED  BY <1>i, <2>1, <2>3, CallIdle
<1>4. ASSUME NEW c \in ReleaseCallers, EnsureFails(c) PROVE ReInv'
  <2>1. /\ reCalls' = [reCalls EXCEPT ![c] = NoCall] /\ reSeen' = reSeen /\ reServed' = reServed
        /\ reRows' = reRows /\ reLast' = reLast /\ reMarkers' = reMarkers /\ reGone' = reGone /\ reOverlap' = reOverlap
    BY <1>4 DEF EnsureFails, SeenAfterFailure
  <2>2. reSeen' \subseteq ReleaseKeys /\ reServed' \subseteq ReleaseKeys /\ \A k \in reSeen' \cup reServed' : HasRow(k)
    BY <1>0, <2>1 DEF ReTypes, EnsuredInv
  <2>. QED  BY <1>i, <2>1, <2>2, CallIdle
<1>5. ASSUME NEW c \in ReleaseCallers, NEW key \in ReleaseKeys, NEW at \in 1 .. ReMaxTime, EnsureBegins(c, key, at)
      PROVE  ReInv'
  <2>1. /\ reSeen' = reSeen /\ reRows' = reRows /\ reLast' = reLast /\ reMarkers' = reMarkers
        /\ reGone' = reGone /\ reOverlap' = reOverlap
    BY <1>5 DEF EnsureBegins
  <2>2. CASE key \in reSeen
    <3>1. reServed' = reServed \cup {key} /\ reCalls' = reCalls
      BY <1>5, <2>2 DEF EnsureBegins
    <3>2. HasRow(key)
      BY <1>0, <2>2 DEF EnsuredInv
    <3>3. ReTypes'
      BY <1>0, <2>1, <3>1 DEF ReTypes
    <3>4. EnsuredInv'
      BY <1>0, <2>1, <3>1, <3>2 DEF EnsuredInv, HasRow
    <3>5. SingleInv' /\ InsertInv'
      BY <1>0, <2>1, <3>1 DEF SingleInv, InsertInv, Excused
    <3>. QED  BY <3>3, <3>4, <3>5 DEF ReInv
  <2>3. CASE key \notin reSeen
    <3>. DEFINE v == [pc |-> "lookup", key |-> key, at |-> at]
    <3>1. v \in EnsureCall /\ v.pc = "lookup" /\ v.key \in ReleaseKeys
      <4>1. at \in Int
        OBVIOUS
      <4>2. key \in ReleaseKeys \cup {<<"", "">>}
        BY Zenon
      <4>. QED  BY <4>1, <4>2 DEF EnsureCall
    <3>2. reCalls' = [reCalls EXCEPT ![c] = v] /\ reServed' = reServed
      BY <1>5, <2>3 DEF EnsureBegins
    <3>. HIDE DEF v
    <3>3. reSeen' \subseteq ReleaseKeys /\ reServed' \subseteq ReleaseKeys /\ \A k \in reSeen' \cup reServed' : HasRow(k)
      BY <1>0, <2>1, <3>2 DEF ReTypes, EnsuredInv
    <3>. QED  BY <2>1, <3>1, <3>2, <3>3, CallIdle
  <2>. QED  BY <2>2, <2>3
<1>6. ASSUME NEW key \in ReleaseKeys, NEW at \in 1 .. ReMaxTime, PostMarker(key, at) PROVE ReInv'
  <2>1. /\ reMarkers' = {[key |-> key, at |-> at]} /\ reSeen' = reSeen /\ reRows' = reRows /\ reLast' = reLast
        /\ reCalls' = reCalls /\ reGone' = reGone /\ reOverlap' = reOverlap /\ reServed' = reServed
    BY <1>6 DEF PostMarker
  <2>2. ReTypes'
    <3>1. [key |-> key, at |-> at] \in [key : ReleaseKeys, at : Int]
      OBVIOUS
    <3>. QED  BY <1>0, <2>1, <3>1 DEF ReTypes
  <2>3. EnsuredInv' /\ SingleInv' /\ InsertInv'
    BY <1>0, <2>1 DEF EnsuredInv, SingleInv, InsertInv, HasRow, Excused
  <2>. QED  BY <2>2, <2>3 DEF ReInv
<1>7. ASSUME NEW again \in BOOLEAN, CreateMarker(again) PROVE ReInv'
  <2>1. PICK m \in reMarkers : InsertRelease(m.key, m.at, "hand")
    BY <1>7 DEF CreateMarker
  <2>2. /\ reMarkers' \subseteq reMarkers /\ reSeen' = reSeen /\ reCalls' = reCalls /\ reGone' = reGone
        /\ reOverlap' = reOverlap /\ reServed' = reServed
    BY <1>7 DEF CreateMarker
  <2>3. m.key \in ReleaseKeys /\ m.at \in Int
    BY <1>0, <2>1 DEF ReTypes
  <2>4. reRows' \subseteq ReleaseRow /\ reLast' \in Int /\ \A k : HasRow(k) => HasRow(k)'
    BY <2>1, <2>2, <2>3, RowAdded
  <2>5. PICK n : reRows' = reRows \cup {n} /\ n.by = "hand" /\ KeyOf(n) = m.key
    BY <2>1, <2>2, <2>3, RowAdded
  <2>6. ReTypes'
    BY <1>0, <2>2, <2>4 DEF ReTypes
  <2>7. EnsuredInv'
    <3>1. ASSUME NEW d \in ReleaseCallers, reCalls[d].pc = "add" PROVE HasRow(reCalls[d].key)'
      <4>1. HasRow(reCalls[d].key)
        BY <1>0, <3>1 DEF EnsuredInv
      <4>. QED  BY <2>2, <2>4, <4>1 DEF HasRow
    <3>2. \A k \in reSeen \cup reServed : HasRow(k)'
      BY <1>0, <2>4 DEF EnsuredInv
    <3>. QED  BY <2>2, <3>1, <3>2 DEF EnsuredInv, HasRow
  <2>8. SingleInv' /\ InsertInv'
    BY <1>0, <2>2, <2>5 DEF SingleInv, InsertInv, Excused
  <2>. QED  BY <2>6, <2>7, <2>8 DEF ReInv
<1>8. ASSUME NEW r \in reRows, NEW key \in ReleaseKeys, NEW at \in 1 .. ReMaxTime, UpdateRelease(r, key, at)
      PROVE  ReInv'
  <2>. DEFINE n == [r EXCEPT !.version = key[1], !.env = key[2], !.at = at]
  <2>1. /\ reRows' = (reRows \ {r}) \cup {n} /\ reGone' = reGone \cup MatchingKeys(r) \cup {key}
        /\ reLast' = reLast /\ reMarkers' = reMarkers /\ reSeen' = reSeen /\ reCalls' = reCalls
        /\ reOverlap' = reOverlap /\ reServed' = reServed
    BY <1>8 DEF UpdateRelease
  <2>2. r \in ReleaseRow /\ at \in Int
    BY <1>0 DEF ReTypes
  <2>3. n \in ReleaseRow /\ KeyOf(n) = key
    BY <2>2, KeyParts DEF ReleaseRow, KeyOf
  <2>. HIDE DEF n
  <2>4. ReTypes'
    BY <1>0, <2>1, <2>3 DEF ReTypes
  <2>5. ASSUME NEW k \in ReleaseKeys, HasRow(k) PROVE HasRow(k)'
    BY <2>1, <2>5, RowGone
  <2>6. EnsuredInv'
    <3>1. ASSUME NEW d \in ReleaseCallers, reCalls[d].pc = "add" PROVE HasRow(reCalls[d].key)'
      <4>1. HasRow(reCalls[d].key) /\ reCalls[d].key \in ReleaseKeys
        BY <1>0, <1>a, <3>1 DEF EnsuredInv
      <4>. QED  BY <2>1, <2>5, <4>1 DEF HasRow
    <3>2. \A k \in reSeen \cup reServed : HasRow(k)'
      BY <1>0, <2>5 DEF EnsuredInv, ReTypes
    <3>. QED  BY <2>1, <3>1, <3>2 DEF EnsuredInv, HasRow
  <2>7. SingleInv' /\ InsertInv'
    BY <1>0, <2>1, <2>3 DEF SingleInv, InsertInv, Excused
  <2>. QED  BY <2>4, <2>6, <2>7 DEF ReInv
<1>9. ASSUME NEW r \in reRows, DeleteRelease(r) PROVE ReInv'
  <2>1. /\ reRows' = reRows \ {r} /\ reGone' = reGone \cup MatchingKeys(r)
        /\ reLast' = reLast /\ reMarkers' = reMarkers /\ reSeen' = reSeen /\ reCalls' = reCalls
        /\ reOverlap' = reOverlap /\ reServed' = reServed
    BY <1>9 DEF DeleteRelease
  <2>4. ReTypes'
    BY <1>0, <2>1 DEF ReTypes
  <2>5. ASSUME NEW k \in ReleaseKeys, HasRow(k) PROVE HasRow(k)'
    BY <2>1, <2>5, RowGone
  <2>6. EnsuredInv'
    <3>1. ASSUME NEW d \in ReleaseCallers, reCalls[d].pc = "add" PROVE HasRow(reCalls[d].key)'
      <4>1. HasRow(reCalls[d].key) /\ reCalls[d].key \in ReleaseKeys
        BY <1>0, <1>a, <3>1 DEF EnsuredInv
      <4>. QED  BY <2>1, <2>5, <4>1 DEF HasRow
    <3>2. \A k \in reSeen \cup reServed : HasRow(k)'
      BY <1>0, <2>5 DEF EnsuredInv, ReTypes
    <3>. QED  BY <2>1, <3>1, <3>2 DEF EnsuredInv, HasRow
  <2>7. SingleInv' /\ InsertInv'
    BY <1>0, <2>1 DEF SingleInv, InsertInv, Excused
  <2>. QED  BY <2>4, <2>6, <2>7 DEF ReInv
<1>10. CASE ReRestart
  <2>1. /\ reSeen' = {} /\ reCalls' = [c \in ReleaseCallers |-> NoCall] /\ reRows' = reRows /\ reLast' = reLast
        /\ reMarkers' = reMarkers /\ reGone' = reGone /\ reOverlap' = reOverlap /\ reServed' = reServed
    BY <1>10 DEF ReRestart
  <2>2. \A c \in ReleaseCallers : reCalls'[c] \in EnsureCall /\ reCalls'[c].pc = "idle"
    BY <1>i, <2>1
  <2>3. reCalls' \in [ReleaseCallers -> EnsureCall]
    BY <1>i, <2>1
  <2>4. ReTypes'
    BY <1>0, <2>1, <2>2, <2>3 DEF ReTypes
  <2>5. EnsuredInv' /\ SingleInv' /\ InsertInv'
    BY <1>0, <2>1, <2>2 DEF EnsuredInv, SingleInv, InsertInv, HasRow, Excused
  <2>. QED  BY <2>4, <2>5 DEF ReInv
<1>. QED
  BY <1>1, <1>2, <1>3, <1>4, <1>5, <1>6, <1>7, <1>8, <1>9, <1>10 DEF ReNext, ServeReleaseRoute

\* No release yet.
LEMMA ReInitInv == ReInit => ReInv
<1>. SUFFICES ASSUME ReInit PROVE ReInv
  OBVIOUS
<1>1. NoCall \in EnsureCall /\ NoCall.pc = "idle"
  BY DEF NoCall, EnsureCall
<1>2. \A c \in ReleaseCallers : reCalls[c] = NoCall
  BY DEF ReInit
<1>3. ReTypes
  BY <1>1, <1>2 DEF ReInit, ReTypes
<1>4. EnsuredInv /\ SingleInv /\ InsertInv
  BY <1>1, <1>2 DEF ReInit, EnsuredInv, SingleInv, InsertInv
<1>. QED  BY <1>3, <1>4 DEF ReInv

\* An ensured release has a row that matches its event, and a version and
\* environment a second automatic one only for a cause, for every set of
\* versions, environments and callers and every size of the set of seen ones.
THEOREM EnsuredReleasesStay == ReSpec => []ReleasesFollowEvents
<1>1. ReInv => ReleasesFollowEvents
  <2>. SUFFICES ASSUME ReInv PROVE ReleasesFollowEvents
    OBVIOUS
  <2>1. \A key \in reServed \ reGone : \E r \in reRows : Matches(r, key)
    BY DEF ReInv, EnsuredInv, HasRow
  <2>2. ASSUME NEW r \in reRows, NEW s \in reRows, r # s, r.by = "auto", s.by = "auto", r.version = s.version,
               r.env = s.env
        PROVE  r.version \in reOverlap \/ <<r.version, r.env>> \in reGone
    BY <2>2 DEF ReInv, SingleInv, KeyOf, Excused
  <2>. QED  BY <2>1, <2>2 DEF ReleasesFollowEvents
<1>2. ReInv /\ [ReNext]_reVars => ReInv'
  <2>1. ReInv /\ UNCHANGED reVars => ReInv'
    BY DEF ReInv, ReTypes, EnsuredInv, SingleInv, InsertInv, HasRow, Excused, reVars
  <2>. QED  BY <2>1, ReStep
<1>. QED  BY <1>1, <1>2, ReInitInv, PTL DEF ReSpec

----------------------------------------------------------------------------
(* API keys and set-up keys.                                               *)
(* A deleted or revoked key stays dead, for every set of slugs, keys,      *)
(* scopes and concurrent requests and for any number of steps.             *)
(*                                                                         *)
(* That no request is accepted with such a key is not inductive: it speaks *)
(* of the last step of a check.  The invariant follows the check back to   *)
(* where the key was found: an ended key has no row that a look-up could   *)
(* find (RowsInv), and the slug of an ended set-up key is revoked, so that *)
(* neither the set-up page nor the fallback brings it back (RevokedInv).   *)

CheckType ==
  [pc : {"idle", "found", "fallback", "passed", "accepted", "401", "403", "503"},
   key : Keys \cup {<<"none", "none">>}, names : KeySlugs \cup {"none"}, route : KeyRoutes \cup {"none"},
   own : KeySlugs \cup {"any", "none"}, scope : KeyScopes \cup {"ingest", "none"},
   acts : KeySlugs \cup {"none", "default"}, made : BOOLEAN, late : BOOLEAN]

SkType ==
  /\ skRows \in [Keys -> [slug : KeySlugs \cup {"any", "none"}, scope : KeyScopes \cup {"ingest", "none"}]]
  /\ skChecks \in [KeyChecks -> CheckType]

\* An ended key has no row.
RowsInv == \A k \in skEnded : k \in Keys /\ skRows[k] = NoKeyRow

\* The slug of an ended set-up key is revoked.
RevokedInv == \A s \in KeySlugs : SetupName(s) \in skEnded => s \in skRevoked

\* A check that has found its key found it before the key was ended.
FoundInv(c) ==
  skChecks[c].pc \in {"found", "passed", "accepted"} /\ skChecks[c].key \in skEnded => skChecks[c].late

\* A confined key past the checks of a protected route names its own project or none.
PassedInv(c) ==
  skChecks[c].pc = "passed" /\ Confined(skChecks[c].own, skChecks[c].scope) => skChecks[c].names \in {"none", skChecks[c].own}

SkInv ==
  /\ SkType /\ RowsInv /\ RevokedInv /\ EndedKeysStayDead
  /\ \A c \in KeyChecks : FoundInv(c) /\ PassedInv(c)

\* At the start there is no key and no request.
LEMMA SkInvInit == SkInit => SkInv
BY DEF SkInit, SkInv, SkType, CheckType, RowsInv, RevokedInv, FoundInv, PassedInv, EndedKeysStayDead,
   NoKeyRow, IdleCheck

\* Taking a key away ends it for every request that has not found it yet.
LEMMA TakeAwayKeeps ==
  ASSUME SkInv, NEW k \in Keys, NEW slugs, slugs = SetupKeySlug(k), TakeAway(k, slugs)
  PROVE  SkInv'
<1> USE DEF SkInv
<1> DEFINE noted(q) == [q EXCEPT !.late = @ \/ q.key = k]
<1>1. ASSUME NEW q \in CheckType
      PROVE  /\ noted(q) \in CheckType
             /\ q.late \/ q.key = k => noted(q).late
             /\ noted(q).pc = q.pc /\ noted(q).key = q.key /\ noted(q).own = q.own
             /\ noted(q).scope = q.scope /\ noted(q).names = q.names
             /\ noted(q).route = q.route /\ noted(q).acts = q.acts
  <2> DEFINE late == q.late \/ q.key = k
  <2>1. noted(q) = [q EXCEPT !.late = late] /\ late \in BOOLEAN
    BY <1>1 DEF CheckType
  <2> HIDE DEF late, noted
  <2>2. noted(q).late = late /\ noted(q) \in CheckType
    BY <1>1, <2>1 DEF CheckType
  <2>3. /\ noted(q).pc = q.pc /\ noted(q).key = q.key /\ noted(q).own = q.own
        /\ noted(q).scope = q.scope /\ noted(q).names = q.names
        /\ noted(q).route = q.route /\ noted(q).acts = q.acts
    BY <1>1, <2>1 DEF CheckType
  <2> QED
    BY <2>2, <2>3 DEF late
<1>2. \A c \in KeyChecks : skChecks[c] \in CheckType /\ skChecks'[c] = noted(skChecks[c])
  BY DEF TakeAway, SkType
<1> HIDE DEF noted
<1>3. SkType' /\ RowsInv'
  <2>1. skChecks' \in [KeyChecks -> CheckType]
    BY <1>1, <1>2 DEF TakeAway
  <2> QED
    BY <2>1 DEF TakeAway, SkType, RowsInv, NoKeyRow
<1>4. RevokedInv'
  BY DEF TakeAway, RevokedInv, SetupKeySlug
<1>5. \A c \in KeyChecks : FoundInv(c)' /\ PassedInv(c)'
  BY <1>1, <1>2 DEF FoundInv, PassedInv, Confined, TakeAway
<1>6. EndedKeysStayDead'
  BY <1>1, <1>2 DEF EndedKeysStayDead, TakeAway
<1> QED
  BY <1>3, <1>4, <1>5, <1>6

\* What the invariant says of one check, of which a step may change only that.
CheckInv(q) ==
  /\ q.pc \in {"found", "passed", "accepted"} /\ q.key \in skEnded => q.late
  /\ q.pc = "passed" /\ Confined(q.own, q.scope) => q.names \in {"none", q.own}
  /\ q.pc = "accepted" /\ Confined(q.own, q.scope) =>
       q.names \in {"none", q.own} /\ (q.route = "ingest" \/ q.acts \in {q.own, "default"})

\* The invariant gives it for every check.
LEMMA ChecksHold == ASSUME SkInv, NEW c \in KeyChecks PROVE skChecks[c] \in CheckType /\ CheckInv(skChecks[c])
BY DEF SkInv, SkType, FoundInv, PassedInv, EndedKeysStayDead, CheckInv, Confined

\* A step that changes one check and no key keeps the invariant if the check does.
LEMMA OneCheck ==
  ASSUME SkInv, NEW c \in KeyChecks, NEW q \in CheckType, CheckInv(q),
         skChecks' = [skChecks EXCEPT ![c] = q], UNCHANGED <<skRows, skRevoked, skEnded>>
  PROVE  SkInv'
<1>1. skChecks' \in [KeyChecks -> CheckType] /\ skChecks'[c] = q /\ \A d \in KeyChecks \ {c} : skChecks'[d] = skChecks[d]
  BY DEF SkInv, SkType
<1>2. \A d \in KeyChecks : CheckInv(skChecks'[d])
  BY <1>1, ChecksHold
<1>3. \A d \in KeyChecks : FoundInv(d)' /\ PassedInv(d)'
  BY <1>2 DEF CheckInv, FoundInv, PassedInv, Confined
<1>4. EndedKeysStayDead'
  BY <1>2 DEF CheckInv, EndedKeysStayDead, Confined
<1> QED
  BY <1>1, <1>3, <1>4 DEF SkInv, SkType, RowsInv, RevokedInv

\* No step of an admin, of the set-up page or of a request breaks the invariant.
LEMMA SkInvStep == SkInv /\ [SkNext]_skVars => SkInv'
<1> SUFFICES ASSUME SkInv, [SkNext]_skVars PROVE SkInv'
  OBVIOUS
<1> USE DEF SkInv
<1>1. ASSUME NEW s \in KeySlugs, NEW status \in {"none", "pending", "active"}, ProjectChanges(s, status) PROVE SkInv'
  <2>1. \A k \in Keys : skRows'[k] \in {skRows[k], NoKeyRow}
    BY <1>1 DEF ProjectChanges
  <2>2. SkType'
    BY <1>1 DEF ProjectChanges, SkType, NoKeyRow
  <2>3. RowsInv'
    BY <1>1, <2>1 DEF ProjectChanges, RowsInv
  <2> QED
    BY <1>1, <2>2, <2>3 DEF ProjectChanges, RevokedInv, FoundInv, PassedInv, EndedKeysStayDead
\* The set-up page makes no row for a revoked slug.
<1>2. ASSUME NEW s \in KeySlugs, NEW admin \in BOOLEAN, ServeSetup(s, admin) PROVE SkInv'
  <2>1. SetupName(s) \in Keys /\ SetupName(s) \notin skEnded
    BY <1>2 DEF ServeSetup, EnsureSetupAPIKey, RevokedInv, Keys
  <2>2. SkType'
    BY <1>2, <2>1 DEF ServeSetup, SkType
  <2>3. RowsInv'
    BY <1>2, <2>1 DEF ServeSetup, RowsInv, SkType
  <2> QED
    BY <1>2, <2>2, <2>3 DEF ServeSetup, RevokedInv, FoundInv, PassedInv, EndedKeysStayDead
<1>3. ASSUME NEW s \in KeySlugs, RevokeSetupKey(s) PROVE SkInv'
  <2>1. SetupName(s) \in Keys /\ SetupKeySlug(SetupName(s)) = {s}
    BY DEF Keys, SetupKeySlug, SetupName
  <2> QED
    BY <1>3, <2>1, TakeAwayKeeps DEF RevokeSetupKey
<1>4. ASSUME NEW n \in KeyNames, NEW s \in KeySlugs \cup {"any"}, NEW scope \in KeyScopes, CreateAPIKey(AdminKey(n), s, scope)
      PROVE  SkInv'
  <2>1. AdminKey(n) \in Keys /\ AdminKey(n) \notin skEnded
    BY <1>4 DEF CreateAPIKey, Keys
  <2>2. SkType'
    BY <1>4, <2>1 DEF CreateAPIKey, SkType
  <2>3. RowsInv'
    BY <1>4, <2>1 DEF CreateAPIKey, RowsInv, SkType
  <2> QED
    BY <1>4, <2>2, <2>3 DEF CreateAPIKey, RevokedInv, FoundInv, PassedInv, EndedKeysStayDead
<1>5. ASSUME NEW k \in Keys, DeleteAPIKey(k) PROVE SkInv'
  BY <1>5, TakeAwayKeeps DEF DeleteAPIKey
\* A look-up finds a row, so the key is not an ended one.
<1>6. ASSUME NEW k \in Keys, NEW c \in KeyChecks, NEW names \in KeySlugs \cup {"none"}, NEW route \in KeyRoutes,
             CheckKey(c, k, names, route)
      PROVE  SkInv'
  <2>1. PICK q : /\ skChecks' = [skChecks EXCEPT ![c] = q]
                 /\ q = [pc |-> CASE skRows[k] # NoKeyRow -> "found" [] names \in KeySlugs -> "fallback" [] OTHER -> "401",
                         key |-> k, names |-> names, route |-> route, own |-> skRows[k].slug,
                         scope |-> skRows[k].scope, acts |-> "none", made |-> FALSE, late |-> FALSE]
    BY <1>6 DEF CheckKey
  <2>2. q \in CheckType
    BY <2>1 DEF CheckType, SkType
  <2>3. CheckInv(q)
    BY <2>1 DEF CheckInv, RowsInv
  <2> QED
    BY <1>6, <2>1, <2>2, <2>3, OneCheck DEF CheckKey
\* The fallback asks the revocations, so the key is not an ended one.
<1>7. ASSUME NEW c \in KeyChecks, SetupFallback(c) PROVE SkInv'
  <2> DEFINE q == skChecks[c]
             found == [q EXCEPT !.pc = "found", !.own = "any", !.scope = "ingest"]
             refused == [q EXCEPT !.pc = "401"]
  <2>1. q \in CheckType
    BY ChecksHold
  <2>2. /\ found \in CheckType /\ found.pc = "found" /\ found.key = q.key
        /\ refused \in CheckType /\ refused.pc = "401"
    BY <2>1 DEF CheckType
  <2>3. CASE SetupVerifies(q.key, q.names)
    <3>1. q.key = SetupName(q.names) /\ q.names \notin skRevoked
      BY <2>3 DEF SetupVerifies, SetupKeyRevoked
    <3>2. q.key \notin skEnded
      <4>1. CASE q.names \in KeySlugs
        BY <3>1, <4>1 DEF RevokedInv
      <4>2. CASE q.names \notin KeySlugs
        <5>1. q.key \notin Keys
          BY <3>1, <4>2 DEF Keys, SetupName, AdminKey
        <5> QED
          BY <5>1 DEF RowsInv
      <4> QED
        BY <4>1, <4>2
    <3>3. skChecks' = [skChecks EXCEPT ![c] = found]
      BY <1>7, <2>3 DEF SetupFallback
    <3> HIDE DEF found
    <3>4. CheckInv(found)
      BY <2>2, <3>2 DEF CheckInv
    <3> QED
      BY <1>7, <2>2, <3>3, <3>4, OneCheck DEF SetupFallback
  <2>4. CASE ~SetupVerifies(q.key, q.names)
    <3>1. skChecks' = [skChecks EXCEPT ![c] = refused]
      BY <1>7, <2>4 DEF SetupFallback
    <3> HIDE DEF refused
    <3>2. CheckInv(refused)
      BY <2>2 DEF CheckInv
    <3> QED
      BY <1>7, <2>2, <3>1, <3>2, OneCheck DEF SetupFallback
  <2> QED
    BY <2>3, <2>4
<1>8. ASSUME NEW c \in KeyChecks, CheckFails(c) PROVE SkInv'
  <2>1. PICK q : skChecks' = [skChecks EXCEPT ![c] = q] /\ q = [skChecks[c] EXCEPT !.pc = "503"]
    BY <1>8 DEF CheckFails
  <2>2. q \in CheckType /\ q.pc = "503"
    BY <2>1, ChecksHold DEF CheckType
  <2>3. CheckInv(q)
    BY <2>2 DEF CheckInv
  <2> QED
    BY <1>8, <2>1, <2>2, <2>3, OneCheck DEF CheckFails
\* On an ingest route a request that names no other project is accepted.
<1>9. ASSUME NEW c \in KeyChecks, RequireOwnProject(c) PROVE SkInv'
  <2>1. PICK q : /\ skChecks' = [skChecks EXCEPT ![c] = q]
                 /\ q = [skChecks[c] EXCEPT !.pc = IF NamesAnother(skChecks[c]) THEN "403" ELSE "accepted"]
    BY <1>9 DEF RequireOwnProject
  <2>2. /\ q \in CheckType /\ q.key = skChecks[c].key /\ q.own = skChecks[c].own /\ q.scope = skChecks[c].scope
        /\ q.names = skChecks[c].names /\ q.route = skChecks[c].route /\ q.late = skChecks[c].late
        /\ q.pc = IF NamesAnother(skChecks[c]) THEN "403" ELSE "accepted"
        /\ q.names \in KeySlugs \cup {"none"}
    BY <2>1, ChecksHold DEF CheckType
  <2>3. CheckInv(q)
    BY <1>9, <2>2, ChecksHold DEF RequireOwnProject, CheckInv, NamesAnother, Foreign
  <2> QED
    BY <1>9, <2>1, <2>2, <2>3, OneCheck DEF RequireOwnProject
\* On any other it goes on to the choice of its project.
<1>10. ASSUME NEW c \in KeyChecks, AuthenticateAPIKey(c) PROVE SkInv'
  <2>1. PICK q : /\ skChecks' = [skChecks EXCEPT ![c] = q]
                 /\ q = [skChecks[c] EXCEPT !.pc = IF ScopeAllows(skChecks[c].scope, skChecks[c].route)
                                                     /\ ~NamesAnother(skChecks[c]) THEN "passed" ELSE "403"]
    BY <1>10 DEF AuthenticateAPIKey
  <2>2. /\ q \in CheckType /\ q.key = skChecks[c].key /\ q.own = skChecks[c].own /\ q.scope = skChecks[c].scope
        /\ q.names = skChecks[c].names /\ q.late = skChecks[c].late
        /\ q.pc \in {"passed", "403"} /\ (q.pc = "passed" => ~NamesAnother(skChecks[c]))
        /\ q.names \in KeySlugs \cup {"none"}
    BY <2>1, ChecksHold DEF CheckType
  <2>3. CheckInv(q)
    BY <1>10, <2>2, ChecksHold DEF AuthenticateAPIKey, CheckInv, NamesAnother, Foreign
  <2> QED
    BY <1>10, <2>1, <2>2, <2>3, OneCheck DEF AuthenticateAPIKey
\* A confined key names its own project or none, so it acts on its own.
<1>12. ASSUME NEW c \in KeyChecks, ResolveProjectID(c) PROVE SkInv'
  <2> DEFINE made == skChecks[c].names \in KeySlugs /\ skProjects[skChecks[c].names] = "none"
             q == [skChecks[c] EXCEPT !.pc = "accepted", !.acts = ActsOn(skChecks[c]), !.made = made]
  <2>1. skChecks' = [skChecks EXCEPT ![c] = q] /\ made \in BOOLEAN
    BY <1>12 DEF ResolveProjectID
  <2> HIDE DEF made
  <2>2. ActsOn(skChecks[c]) \in KeySlugs \cup {"none", "default"}
    BY DEF ActsOn
  <2>3. /\ q \in CheckType /\ q.key = skChecks[c].key /\ q.own = skChecks[c].own /\ q.scope = skChecks[c].scope
        /\ q.names = skChecks[c].names /\ q.late = skChecks[c].late /\ q.acts = ActsOn(skChecks[c])
        /\ q.pc = "accepted"
    BY <2>1, <2>2, ChecksHold DEF CheckType
  <2> HIDE DEF q
  <2>4. skChecks[c].pc = "passed" /\ CheckInv(skChecks[c])
    BY <1>12, ChecksHold DEF ResolveProjectID
  <2>5. Confined(q.own, q.scope) => q.acts = q.own
    BY <2>3, <2>4, SkAssumption DEF ActsOn, Confined, CheckInv
  <2>6. CheckInv(q)
    BY <2>3, <2>4, <2>5 DEF CheckInv
  <2> QED
    BY <1>12, <2>1, <2>3, <2>6, OneCheck DEF ResolveProjectID
<1>13. ASSUME NEW c \in KeyChecks, ResolveProjectIDFails(c) PROVE SkInv'
  <2>1. PICK q : /\ skChecks' = [skChecks EXCEPT ![c] = q]
                 /\ q = [skChecks[c] EXCEPT !.pc = "accepted", !.acts = "default"]
    BY <1>13 DEF ResolveProjectIDFails
  <2>2. /\ q \in CheckType /\ q.key = skChecks[c].key /\ q.own = skChecks[c].own /\ q.scope = skChecks[c].scope
        /\ q.names = skChecks[c].names /\ q.late = skChecks[c].late /\ q.acts = "default" /\ q.pc = "accepted"
    BY <2>1, ChecksHold DEF CheckType
  <2>3. skChecks[c].pc = "passed" /\ CheckInv(skChecks[c])
    BY <1>13, ChecksHold DEF ResolveProjectIDFails
  <2>4. CheckInv(q)
    BY <2>2, <2>3 DEF CheckInv
  <2> QED
    BY <1>13, <2>1, <2>2, <2>4, OneCheck DEF ResolveProjectIDFails
<1>14. ASSUME NEW c \in KeyChecks, CheckAnswered(c) PROVE SkInv'
  <2>1. IdleCheck \in CheckType /\ CheckInv(IdleCheck)
    BY DEF IdleCheck, CheckType, CheckInv
  <2> QED
    BY <1>14, <2>1, OneCheck DEF CheckAnswered
<1>11. CASE UNCHANGED skVars
  BY <1>11 DEF skVars, SkType, RowsInv, RevokedInv, FoundInv, PassedInv, EndedKeysStayDead
<1> QED
  BY <1>1, <1>2, <1>3, <1>4, <1>5, <1>6, <1>7, <1>8, <1>9, <1>10, <1>11, <1>12, <1>13, <1>14 DEF SkNext

\* A key deleted or revoked by an admin (deleteAPIKey, revokeSetupKey) is never
\* accepted by a request that looked it up later, and an accepted request with a
\* confined key names its own project or none.
THEOREM KeysStayDead == SkSpec => []EndedKeysStayDead
<1>1. SkInv => EndedKeysStayDead
  BY DEF SkInv
<1> QED
  BY <1>1, SkInvInit, SkInvStep, PTL DEF SkSpec

----------------------------------------------------------------------------
(* The batched uses of API keys.                                           *)
(* No use of a key is lost by sending it, for every set of readers and     *)
(* keys, every capacity of a reader's map, any age limit and any number of *)
(* failures.                                                               *)
(*                                                                         *)
(* That a use is in the row or with the reader is not inductive: a batch   *)
(* is forgotten when the writer has answered.  The invariant adds what the *)
(* answer means: the row is as new as the batch (AnsweredInv), because the *)
(* only post a reader waits for carries exactly that batch (PostInv).      *)

Uses == [TouchKeys -> Nat]

Post == [from : TouchReaders, at : Nat, touches : Uses, awaited : BOOLEAN]

KtType ==
  /\ ktNow \in Nat /\ ktRow \in Uses /\ ktPosts \subseteq Post /\ ktAnswered \subseteq TouchReaders
  /\ ktPending \in [TouchReaders -> Uses] /\ ktBatch \in [TouchReaders -> Uses]
  /\ ktUsed \in [TouchReaders -> Uses]

\* A reader waits for one post at most, and it carries the batch.
PostInv ==
  \A p \in ktPosts : p.awaited =>
    /\ p.touches = ktBatch[p.from] /\ ktBatch[p.from] # NoUses /\ p.from \notin ktAnswered
    /\ \A q \in ktPosts : q.awaited /\ q.from = p.from => q = p

\* What the writer has answered is in the rows.
AnsweredInv ==
  \A r \in ktAnswered : ktBatch[r] # NoUses /\ \A k \in TouchKeys : ktBatch[r][k] <= ktRow[k]

UseKept(r, k) ==
  \/ ktUsed[r][k] = 0 \/ <<r, k>> \in ktDropped
  \/ ktUsed[r][k] <= ktRow[k] \/ ktUsed[r][k] <= ktPending[r][k] \/ ktUsed[r][k] <= ktBatch[r][k]

KtInv ==
  /\ KtType /\ PostInv /\ AnsweredInv
  /\ \A r \in TouchReaders, k \in TouchKeys : UseKept(r, k)

\* The greatest of three numbers is one of them and not below any.
LEMMA MaxOfThree ==
  ASSUME NEW a \in Nat, NEW b \in Nat, NEW c \in Nat
  PROVE  /\ Max({a, b, c}) \in {a, b, c}
         /\ a <= Max({a, b, c}) /\ b <= Max({a, b, c}) /\ c <= Max({a, b, c})
<1>1. \E x \in {a, b, c} : \A y \in {a, b, c} : x >= y
  OBVIOUS
<1> QED
  BY <1>1 DEF Max

\* The invariant says what the property says of the largest of the three times.
LEMMA KtInvImplies == KtInv => UseReachesTheRow
<1> SUFFICES ASSUME KtInv, NEW r \in TouchReaders, NEW k \in TouchKeys,
                    ktUsed[r][k] > 0, <<r, k>> \notin ktDropped
             PROVE  ktUsed[r][k] <= Max({ktRow[k], ktPending[r][k], ktBatch[r][k]})
  BY DEF UseReachesTheRow
<1>1. ktRow[k] \in Nat /\ ktPending[r][k] \in Nat /\ ktBatch[r][k] \in Nat /\ ktUsed[r][k] \in Nat
  BY DEF KtInv, KtType, Uses
<1>2. UseKept(r, k)
  BY DEF KtInv
<1> DEFINE m == Max({ktRow[k], ktPending[r][k], ktBatch[r][k]})
<1>3. ktRow[k] <= m /\ ktPending[r][k] <= m /\ ktBatch[r][k] <= m
  BY <1>1, MaxOfThree
<1>4. m \in {ktRow[k], ktPending[r][k], ktBatch[r][k]}
  BY <1>1, MaxOfThree
<1>5. m \in Nat
  BY <1>1, <1>4
<1> HIDE DEF m
<1>6. ktUsed[r][k] <= m
  BY <1>1, <1>2, <1>3, <1>5 DEF UseKept
<1> QED
  BY <1>6 DEF m

\* At the start no key was used.
LEMMA KtInvInit == KtInit => KtInv
BY DEF KtInit, KtInv, KtType, Uses, PostInv, AnsweredInv, UseKept, NoUses

\* What is put back keeps the newer time of a key it has room for.
LEMMA PutBackKeeps ==
  ASSUME NEW pending \in Uses, NEW batch \in Uses, NEW back \in PutBack(pending, batch)
  PROVE  /\ back \in Uses
         /\ \A k \in TouchKeys : \/ pending[k] <= back[k] /\ batch[k] <= back[k]
                                 \/ pending[k] = 0 /\ back[k] = 0
<1>1. PICK held \in SUBSET TouchKeys :
        /\ Held(pending) \subseteq held
        /\ back = [k \in TouchKeys |-> IF k \in held THEN Later(pending[k], batch[k]) ELSE 0]
  <2>1. PICK kept \in SUBSET (Held(batch) \ Held(pending)) :
          back = [k \in TouchKeys |-> IF k \in Held(pending) \cup kept THEN Later(pending[k], batch[k]) ELSE 0]
    BY DEF PutBack
  <2> QED
    BY <2>1 DEF Held
<1> QED
  BY <1>1 DEF Held, Later, Uses

\* A reader that stops waiting leaves its posts under way.
LEMMA UnawaitedPosts ==
  ASSUME KtInv, NEW r \in TouchReaders
  PROVE  /\ Unawaited(r) \subseteq Post
         /\ \A p \in Unawaited(r) : p.awaited => p \in ktPosts /\ p.from # r
<1>1. ktPosts \subseteq Post
  BY DEF KtInv, KtType
<1>2. ASSUME NEW p \in Post PROVE [p EXCEPT !.awaited = FALSE] \in Post /\ ~[p EXCEPT !.awaited = FALSE].awaited
  BY <1>2 DEF Post
<1> QED
  BY <1>1, <1>2 DEF Unawaited

\* A failed send keeps every use that it does not count as dropped.
LEMMA SendFailedKeeps ==
  ASSUME KtInv, NEW r \in TouchReaders, SendFailed(r), UNCHANGED <<ktNow, ktRow, ktUsed>>
  PROVE  KtInv'
<1>1. PICK back \in PutBack(ktPending[r], ktBatch[r]) :
        /\ ktPending' = [ktPending EXCEPT ![r] = back]
        /\ ktDropped' = ktDropped \cup {<<r, k>> : k \in Held(ktBatch[r]) \ Held(back)}
  BY DEF SendFailed
<1>2. /\ ktBatch' = [ktBatch EXCEPT ![r] = NoUses] /\ ktAnswered' = ktAnswered \ {r} /\ ktPosts' = Unawaited(r)
  BY DEF SendFailed
<1>3. KtType
  BY DEF KtInv
<1>4. ktPending[r] \in Uses /\ ktBatch[r] \in Uses
  BY <1>3 DEF KtType
<1>5. /\ back \in Uses
      /\ \A k \in TouchKeys : \/ ktPending[r][k] <= back[k] /\ ktBatch[r][k] <= back[k]
                              \/ ktPending[r][k] = 0 /\ back[k] = 0
  BY <1>4, PutBackKeeps
<1>6. KtType'
  BY <1>1, <1>2, <1>3, <1>5, UnawaitedPosts DEF KtType, Uses, NoUses
<1>7. PostInv'
  BY <1>2, <1>3, UnawaitedPosts DEF KtInv, KtType, PostInv, Post
<1>8. AnsweredInv'
  BY <1>2, <1>3 DEF KtInv, KtType, AnsweredInv
<1>9. ASSUME NEW x \in TouchReaders, NEW k \in TouchKeys PROVE UseKept(x, k)'
  <2>1. UseKept(x, k)
    BY DEF KtInv
  <2>2. CASE x # r
    BY <1>1, <1>2, <1>3, <2>1, <2>2 DEF UseKept, KtType
  <2>3. CASE x = r
    <3>1. ktPending'[r] = back
      BY <1>1, <1>3 DEF KtType
    <3>2. /\ ktUsed[r][k] \in Nat /\ ktPending[r][k] \in Nat /\ ktBatch[r][k] \in Nat /\ back[k] \in Nat
          /\ ktRow[k] \in Nat
      BY <1>3, <1>5 DEF KtType, Uses
    <3>3. CASE ktPending[r][k] <= back[k] /\ ktBatch[r][k] <= back[k]
      BY <1>1, <2>1, <2>3, <3>1, <3>2, <3>3 DEF UseKept
    <3>4. CASE ktPending[r][k] = 0 /\ back[k] = 0
      <4>1. ktBatch[r][k] = 0 \/ <<r, k>> \in ktDropped'
        BY <1>1, <3>2, <3>4 DEF Held
      <4> QED
        BY <1>1, <2>1, <2>3, <3>1, <3>2, <3>4, <4>1 DEF UseKept
    <3> QED
      BY <1>5, <3>3, <3>4
  <2> QED
    BY <2>2, <2>3
<1> QED
  BY <1>6, <1>7, <1>8, <1>9 DEF KtInv

\* No step of a reader, of the writer or of the clock breaks the invariant.
LEMMA KtInvStep == KtInv /\ [KtNext]_ktVars => KtInv'
<1> SUFFICES ASSUME KtInv, [KtNext]_ktVars PROVE KtInv'
  OBVIOUS
<1> USE DEF KtInv
<1>1. ASSUME NEW r \in TouchReaders, NEW k \in TouchKeys, TouchKey(r, k) PROVE KtInv'
  <2>1. KtType'
    <3>1. ktNow \in Nat /\ ktUsed[r] \in Uses /\ ktPending[r] \in Uses
      BY DEF KtType
    <3>2. [ktUsed[r] EXCEPT ![k] = ktNow] \in Uses /\ [ktPending[r] EXCEPT ![k] = ktNow] \in Uses
      BY <3>1 DEF Uses
    <3>3. ktUsed' \in [TouchReaders -> Uses] /\ ktPending' \in [TouchReaders -> Uses]
      BY <1>1, <3>2 DEF TouchKey, KtType
    <3> QED
      BY <1>1, <3>3 DEF TouchKey, KtType
  <2>2. ASSUME NEW x \in TouchReaders, NEW y \in TouchKeys PROVE UseKept(x, y)'
    <3>1. UseKept(x, y)
      OBVIOUS
    <3>2. CASE x = r /\ y = k
      BY <1>1, <2>1, <3>2 DEF TouchKey, UseKept, KtType, Uses
    <3>3. CASE ~(x = r /\ y = k)
      <4>1. ktUsed'[x][y] = ktUsed[x][y] /\ ktPending'[x][y] = ktPending[x][y]
        BY <1>1, <3>3 DEF TouchKey, KtType, Uses
      <4>2. <<x, y>> \in ktDropped => <<x, y>> \in ktDropped'
        BY <1>1, <3>3 DEF TouchKey
      <4> QED
        BY <1>1, <3>1, <4>1, <4>2 DEF TouchKey, UseKept
    <3> QED
      BY <3>2, <3>3
  <2> QED
    BY <1>1, <2>1, <2>2 DEF TouchKey, PostInv, AnsweredInv
\* The reader was idle, so no earlier post of it is awaited.
<1>2. ASSUME NEW r \in TouchReaders, NEW arrives \in BOOLEAN, FlushTake(r, arrives) PROVE KtInv'
  <2> DEFINE post == [from |-> r, at |-> ktNow, touches |-> ktPending[r], awaited |-> TRUE]
  <2>1. /\ post \in Post /\ post.from = r /\ post.touches = ktPending[r]
        /\ ktPosts \subseteq ktPosts' /\ ktPosts' \subseteq ktPosts \cup {post}
    BY <1>2 DEF FlushTake, KtType, Post
  <2> HIDE DEF post
  <2>2. KtType'
    BY <1>2, <2>1 DEF FlushTake, KtType, Uses, NoUses
  <2>3. \A p \in ktPosts : p.awaited => p.from # r
    BY <1>2 DEF FlushTake, PostInv
  <2>4. ktPending[r] # NoUses /\ ktBatch'[r] = ktPending[r] /\ r \notin ktAnswered
    BY <1>2 DEF FlushTake, KtType, Held, NoUses, AnsweredInv
  <2>5. \A x \in TouchReaders \ {r} : ktBatch'[x] = ktBatch[x] /\ ktPending'[x] = ktPending[x]
    BY <1>2 DEF FlushTake, KtType
  <2>6. \A p \in ktPosts : p.from \in TouchReaders
    BY DEF KtType, Post
  <2>7. PostInv'
    BY <1>2, <2>1, <2>3, <2>4, <2>5, <2>6 DEF FlushTake, PostInv
  <2>8. AnsweredInv'
    BY <1>2, <2>4, <2>5 DEF FlushTake, AnsweredInv, KtType
  <2>9. ASSUME NEW x \in TouchReaders, NEW k \in TouchKeys PROVE UseKept(x, k)'
    <3>1. UseKept(x, k) /\ ktUsed[x][k] \in Nat
      BY DEF KtType, Uses
    <3>2. CASE x = r
      BY <1>2, <2>4, <3>1, <3>2 DEF FlushTake, UseKept, NoUses, KtType, Uses
    <3>3. CASE x # r
      BY <1>2, <2>5, <3>1, <3>3 DEF FlushTake, UseKept
    <3> QED
      BY <3>2, <3>3
  <2> QED
    BY <2>2, <2>7, <2>8, <2>9
\* Rows only grow, and the answered batch is in them.
<1>3. ASSUME NEW p \in ktPosts, ServeKeyTouch(p) PROVE KtInv'
  <2>1. p \in Post /\ ktPosts' = ktPosts \ {p} /\ UNCHANGED <<ktNow, ktPending, ktBatch, ktUsed, ktDropped>>
    BY <1>3 DEF ServeKeyTouch, KtType
  <2>2. p.touches \in Uses /\ p.from \in TouchReaders
    BY <2>1 DEF Post
  <2>3. CASE ktNow - p.at > TouchFreshFor
    BY <1>3, <2>1, <2>3 DEF ServeKeyTouch, KtType, PostInv, AnsweredInv, UseKept
  <2>4. CASE ~(ktNow - p.at > TouchFreshFor)
    <3>1. ktRow' = TouchAPIKeysAt(ktRow, p.touches) /\ ktAnswered' = IF p.awaited THEN ktAnswered \cup {p.from} ELSE ktAnswered
      BY <1>3, <2>4 DEF ServeKeyTouch
    <3>2. ktRow' \in Uses /\ \A k \in TouchKeys : ktRow[k] <= ktRow'[k] /\ p.touches[k] <= ktRow'[k]
      BY <2>2, <3>1 DEF TouchAPIKeysAt, Later, KtType, Uses
    <3>3. KtType'
      BY <2>1, <2>2, <3>1, <3>2 DEF KtType
    <3>4. PostInv'
      BY <2>1, <3>1 DEF PostInv
    <3>5. AnsweredInv'
      BY <2>1, <2>2, <3>1, <3>2 DEF AnsweredInv, PostInv, KtType, Uses
    <3>6. ASSUME NEW x \in TouchReaders, NEW k \in TouchKeys PROVE UseKept(x, k)'
      <4>1. UseKept(x, k) /\ ktUsed[x][k] \in Nat /\ ktRow[k] \in Nat /\ ktRow'[k] \in Nat
        BY <3>2 DEF KtType, Uses
      <4> QED
        BY <2>1, <3>2, <4>1 DEF UseKept
    <3> QED
      BY <3>3, <3>4, <3>5, <3>6
  <2> QED
    BY <2>3, <2>4
<1>4. ASSUME NEW r \in TouchReaders, FlushDone(r) PROVE KtInv'
  <2>1. KtType'
    BY <1>4 DEF FlushDone, KtType, Uses, NoUses
  <2>2. \A p \in ktPosts : p.from \in TouchReaders /\ (p.awaited => p.from # r)
    BY <1>4 DEF FlushDone, PostInv, KtType, Post
  <2>3. \A x \in TouchReaders \ {r} : ktBatch'[x] = ktBatch[x]
    BY <1>4 DEF FlushDone, KtType
  <2>4. PostInv'
    BY <1>4, <2>2, <2>3 DEF FlushDone, PostInv
  <2>5. AnsweredInv'
    BY <1>4, <2>3 DEF FlushDone, AnsweredInv, KtType
  <2>6. ASSUME NEW x \in TouchReaders, NEW k \in TouchKeys PROVE UseKept(x, k)'
    BY <1>4, <2>3 DEF FlushDone, UseKept, AnsweredInv, KtType, Uses
  <2> QED
    BY <2>1, <2>4, <2>5, <2>6
<1>5. ASSUME NEW r \in TouchReaders, FlushFails(r) PROVE KtInv'
  BY <1>5, SendFailedKeeps DEF FlushFails
<1>6. ASSUME NEW r \in TouchReaders, FlushRefused(r) PROVE KtInv'
  BY <1>6, SendFailedKeeps DEF FlushRefused
\* An exit drops what the reader held, and no more.
<1>7. ASSUME NEW r \in TouchReaders, ReaderExits(r) PROVE KtInv'
  <2>1. KtType'
    BY <1>7, UnawaitedPosts DEF ReaderExits, KtType, Uses, NoUses
  <2>2. \A x \in TouchReaders \ {r} : ktBatch'[x] = ktBatch[x] /\ ktPending'[x] = ktPending[x]
    BY <1>7 DEF ReaderExits, KtType
  <2>3. PostInv'
    BY <1>7, <2>2, UnawaitedPosts DEF ReaderExits, PostInv, KtType, Post
  <2>4. AnsweredInv'
    BY <1>7, <2>2 DEF ReaderExits, AnsweredInv, KtType
  <2>5. ASSUME NEW x \in TouchReaders, NEW k \in TouchKeys PROVE UseKept(x, k)'
    <3>1. UseKept(x, k) /\ ktUsed[x][k] \in Nat /\ ktPending[x][k] \in Nat /\ ktBatch[x][k] \in Nat
      BY DEF KtType, Uses
    <3>2. CASE x = r
      <4>1. (ktPending[x][k] = 0 /\ ktBatch[x][k] = 0) \/ <<x, k>> \in ktDropped'
        BY <1>7, <3>1, <3>2 DEF ReaderExits, Held
      <4> QED
        BY <1>7, <3>1, <3>2, <4>1 DEF ReaderExits, UseKept, KtType, Uses
    <3>3. CASE x # r
      BY <1>7, <2>2, <3>1, <3>3 DEF ReaderExits, UseKept
    <3> QED
      BY <3>2, <3>3
  <2> QED
    BY <2>1, <2>3, <2>4, <2>5
<1>8. CASE KtTick
  BY <1>8 DEF KtTick, KtType, PostInv, AnsweredInv, UseKept
<1>9. CASE UNCHANGED ktVars
  BY <1>9 DEF ktVars, KtType, PostInv, AnsweredInv, UseKept
<1> QED
  BY <1>1, <1>2, <1>3, <1>4, <1>5, <1>6, <1>7, <1>8, <1>9 DEF KtNext

\* The use of a key is in its row or with the reader that saw it, unless a full
\* map or an exit dropped it, whatever batch was lost, answered too late, sent
\* twice or overtaken (keytouch.go, TouchAPIKeysAt).
THEOREM UsesReachTheRow == KtSpec => []UseReachesTheRow
BY KtInvImplies, KtInvInit, KtInvStep, PTL DEF KtSpec

-----------------------------------------------------------------------------
(* Key requests: a request yields one key, and it arrives. *)

PollAnswers == {"none", "pending", "denied", "claimed", "expired", "not found", "error", "key"}
PollRecords == [pc : {"none", "claiming", "answered", "done"}, at : Int, answer : PollAnswers]

RowStatuses == {"none", "pending", "approved", "denied", "claimed"}
RowRecords == [status : RowStatuses, expires : Int]
AgentStates == PollAnswers \cup {"idle", "creating", "refused", "failed", "waiting", "polling", "gave up"}

KrTypes ==
  /\ krNow \in Int
  /\ krRows \in [Agents -> RowRecords]
  /\ krKeys \in [Agents -> SUBSET Polls]
  /\ krPolls \in [Agents -> [Polls -> PollRecords]]
  /\ krAgent \in [Agents -> AgentStates]

\* A request is created once, before its first poll.
NotYet(a) == krAgent[a] \in {"idle", "creating", "refused", "failed"}

KeyRow(a) ==
  /\ NotYet(a) => krKeys[a] = {} /\ \A n \in Polls : krPolls[a][n] = NoPoll
  /\ krRows[a].status = "approved" => a \in krApproved
  /\ krKeys[a] # {} => krRows[a].status \in {"claimed", "none"} /\ a \in krApproved
  /\ \A m, n \in krKeys[a] : m = n
  /\ krAgent[a] = "key" => krKeys[a] # {}

\* The polls that minted a key are those that answer with one; they are made in order.
KeyPolls(a) ==
  /\ \A n \in Polls : krPolls[a][n].answer = "key" => n \in krKeys[a]
  /\ \A n \in krKeys[a] : krPolls[a][n].answer = "key"
  /\ \A n \in Polls : /\ krPolls[a][n].pc = "none" <=> krPolls[a][n] = NoPoll
                      /\ krPolls[a][n].pc \in {"answered", "done"} <=> krPolls[a][n].answer # "none"
  /\ \A m, n \in Polls : (m < n /\ krPolls[a][n] # NoPoll) => krPolls[a][m] # NoPoll

KeyInv(a) == KeyRow(a) /\ KeyPolls(a)

\* The poll that claims is the one the client waits for, and so is the one that has
\* claimed until its answer has arrived, unless the client gave that poll up.
Awaited(a) ==
  a \notin krLost =>
    /\ \A n \in Polls : krPolls[a][n].pc = "claiming" => krAgent[a] = "polling" /\ Current(a, n)
    /\ \A n \in krKeys[a] : krAgent[a] = "key" \/ (krAgent[a] = "polling" /\ Current(a, n))

KrInv == \A a \in Agents : KeyInv(a) /\ Awaited(a)

KrIInv == KrTypes /\ KrInv

\* No request has been made yet.
LEMMA KrInitInv == KrInit => KrIInv
BY DEF KrInit, KrIInv, KrTypes, KrInv, KeyInv, KeyRow, KeyPolls, Awaited, NotYet, NoPoll, NoRequest,
   PollRecords, PollAnswers, RowRecords, RowStatuses, AgentStates

\* What a step leaves alone, or purges, stays sound.
LEMMA KrUntouched ==
  ASSUME KrTypes, KrInv, NEW b \in Agents,
         krKeys'[b] = krKeys[b], krPolls'[b] = krPolls[b], krAgent'[b] = krAgent[b],
         krRows'[b] = krRows[b] \/ krRows'[b] = NoRequest,
         b \in krLost <=> b \in krLost', b \in krApproved => b \in krApproved'
  PROVE  KeyInv(b)' /\ Awaited(b)'
<1>1. KeyInv(b) /\ Awaited(b)
  BY DEF KrInv
<1>2. KeyInv(b)'
  BY <1>1 DEF KeyInv, KeyRow, KeyPolls, NotYet, NoRequest
<1>3. Awaited(b)'
  BY <1>1 DEF Awaited, Current
<1> QED
  BY <1>2, <1>3

\* The records the actions write are records of the tables.
LEMMA KrRecords ==
  ASSUME krNow \in Int
  PROVE  /\ NoRequest \in RowRecords /\ NewRow \in RowRecords
         /\ \A r \in RowRecords, s \in RowStatuses : [r EXCEPT !.status = s] \in RowRecords
         /\ [pc |-> "claiming", at |-> krNow, answer |-> "none"] \in PollRecords
         /\ \A x \in PollAnswers : [pc |-> "answered", at |-> 0, answer |-> x] \in PollRecords
         /\ \A q \in PollRecords : [q EXCEPT !.pc = "done"] \in PollRecords /\ q.answer \in PollAnswers
<1>1. NoRequest \in RowRecords /\ NewRow \in RowRecords
  BY KrAssumption DEF NoRequest, NewRow, RowRecords, RowStatuses
<1>2. \A r \in RowRecords, s \in RowStatuses : [r EXCEPT !.status = s] \in RowRecords
  BY DEF RowRecords
<1>3. [pc |-> "claiming", at |-> krNow, answer |-> "none"] \in PollRecords
  BY DEF PollRecords, PollAnswers
<1>4. \A x \in PollAnswers : [pc |-> "answered", at |-> 0, answer |-> x] \in PollRecords
  BY DEF PollRecords
<1>5. \A q \in PollRecords : [q EXCEPT !.pc = "done"] \in PollRecords /\ q.answer \in PollAnswers
  BY DEF PollRecords
<1> QED
  BY <1>1, <1>2, <1>3, <1>4, <1>5

\* Every step keeps the types.
LEMMA KrTypeStep == KrTypes /\ [KrNext]_krVars => KrTypes'
<1> SUFFICES ASSUME KrTypes, [KrNext]_krVars PROVE KrTypes'
  OBVIOUS
<1> USE KrAssumption DEF KrTypes
<1>0. /\ "idle" \in AgentStates /\ "creating" \in AgentStates /\ "refused" \in AgentStates
      /\ "failed" \in AgentStates /\ "waiting" \in AgentStates /\ "polling" \in AgentStates
      /\ "gave up" \in AgentStates /\ PollAnswers \subseteq AgentStates
  BY DEF AgentStates
<1>1. ASSUME NEW a \in Agents, CreateCount(a) PROVE KrTypes'
  BY <1>0, <1>1 DEF CreateCount
<1>2. ASSUME NEW a \in Agents, DeadlinePasses(a) PROVE KrTypes'
  BY <1>0, <1>2 DEF DeadlinePasses
<1>3. ASSUME NEW a \in Agents, NEW answered \in BOOLEAN, CreateInsert(a, answered) PROVE KrTypes'
  <2>1. krRows' \in [Agents -> RowRecords]
    BY <1>3, KrRecords DEF CreateInsert, PurgeKeyRequests
  <2>2. krAgent' \in [Agents -> AgentStates]
    BY <1>0, <1>3 DEF CreateInsert
  <2> QED
    BY <1>3, <2>1, <2>2 DEF CreateInsert
<1>4. ASSUME NEW a \in Agents, NEW status \in {"approved", "denied"}, ResolveKeyRequest(a, status) PROVE KrTypes'
  <2>1. [krRows[a] EXCEPT !.status = status] \in RowRecords
    BY KrRecords DEF RowStatuses
  <2>2. krRows' = [krRows EXCEPT ![a] = [krRows[a] EXCEPT !.status = status]]
    BY <1>4 DEF ResolveKeyRequest
  <2> QED
    BY <1>4, <2>1, <2>2 DEF ResolveKeyRequest
<1>5. ASSUME NEW a \in Agents, NEW n \in Polls, PollRead(a, n) PROVE KrTypes'
  <2> DEFINE r == IF ReportedStatus(a) = "approved" THEN [pc |-> "claiming", at |-> krNow, answer |-> "none"]
                  ELSE [pc |-> "answered", at |-> 0, answer |-> ReportedStatus(a)]
  <2>1. ReportedStatus(a) \in PollAnswers \cup {"approved"}
    BY DEF ReportedStatus, PollAnswers, RowRecords, RowStatuses
  <2>2. r \in PollRecords
    BY <2>1, KrRecords
  <2>3. krPolls' = [krPolls EXCEPT ![a][n] = r]
    BY <1>5 DEF PollRead
  <2> HIDE DEF r
  <2>4. krPolls' \in [Agents -> [Polls -> PollRecords]]
    BY <2>2, <2>3
  <2>5. krAgent' \in [Agents -> AgentStates]
    BY <1>0, <1>5 DEF PollRead
  <2> QED
    BY <1>5, <2>4, <2>5 DEF PollRead
<1>6. ASSUME NEW a \in Agents, NEW n \in Polls, ClaimKeyRequest(a, n) PROVE KrTypes'
  <2>1. "key" \in PollAnswers /\ "not found" \in PollAnswers /\ "claimed" \in PollAnswers /\ "claimed" \in RowStatuses
    BY DEF PollAnswers, RowStatuses
  <2>2. PICK r \in PollRecords : krPolls' = [krPolls EXCEPT ![a][n] = r]
    <3>1. CASE Claimable(a, krPolls[a][n].at)
      BY <1>6, <2>1, <3>1, KrRecords DEF ClaimKeyRequest
    <3>2. CASE ~Claimable(a, krPolls[a][n].at)
      BY <1>6, <2>1, <3>2, KrRecords DEF ClaimKeyRequest
    <3> QED
      BY <3>1, <3>2
  <2>3. krPolls' \in [Agents -> [Polls -> PollRecords]]
    BY <2>2
  <2>4. krRows' = krRows \/ krRows' = [krRows EXCEPT ![a] = [krRows[a] EXCEPT !.status = "claimed"]]
    BY <1>6 DEF ClaimKeyRequest
  <2>5. [krRows[a] EXCEPT !.status = "claimed"] \in RowRecords
    BY <2>1, KrRecords
  <2>6. krRows' \in [Agents -> RowRecords]
    BY <2>4, <2>5
  <2>8. krKeys' = krKeys \/ krKeys' = [krKeys EXCEPT ![a] = krKeys[a] \cup {n}]
    BY <1>6 DEF ClaimKeyRequest
  <2>7. krKeys' \in [Agents -> SUBSET Polls]
    BY <2>8
  <2> QED
    BY <1>6, <2>3, <2>6, <2>7 DEF ClaimKeyRequest
<1>7. ASSUME NEW a \in Agents, NEW n \in Polls, ClaimFails(a, n) PROVE KrTypes'
  <2>1. PICK r \in PollRecords : krPolls' = [krPolls EXCEPT ![a][n] = r]
    BY <1>7, KrRecords DEF ClaimFails, PollAnswers
  <2>2. krPolls' \in [Agents -> [Polls -> PollRecords]]
    BY <2>1
  <2> QED
    BY <1>7, <2>2 DEF ClaimFails
<1>8. ASSUME NEW a \in Agents, NEW n \in Polls, PollAnswered(a, n) PROVE KrTypes'
  <2>1. krPolls[a][n] \in PollRecords
    OBVIOUS
  <2>2. [krPolls[a][n] EXCEPT !.pc = "done"] \in PollRecords /\ krPolls[a][n].answer \in PollAnswers
    BY <2>1, KrRecords
  <2>3. krPolls' = [krPolls EXCEPT ![a][n] = [krPolls[a][n] EXCEPT !.pc = "done"]]
    BY <1>8 DEF PollAnswered
  <2>4. krPolls' \in [Agents -> [Polls -> PollRecords]]
    BY <2>2, <2>3
  <2>5. krAgent' \in [Agents -> AgentStates]
    BY <1>0, <1>8, <2>2 DEF PollAnswered
  <2> QED
    BY <1>8, <2>4, <2>5 DEF PollAnswered
<1>9. ASSUME NEW a \in Agents, NEW n \in Polls, PollGivenUp(a, n) PROVE KrTypes'
  BY <1>0, <1>9 DEF PollGivenUp
<1>10. CASE KrTick
  BY <1>10 DEF KrTick
<1>11. CASE UNCHANGED krVars
  BY <1>11 DEF krVars
<1> QED
  BY <1>1, <1>2, <1>3, <1>4, <1>5, <1>6, <1>7, <1>8, <1>9, <1>10, <1>11 DEF KrNext

\* A step that mints no key keeps KeyPolls when the polls stay well formed and ordered.
LEMMA KeyPollsKept ==
  ASSUME NEW a \in Agents, KrTypes, KeyPolls(a), krKeys'[a] = krKeys[a],
         \A m \in Polls : krPolls'[a][m].answer = "key" <=> krPolls[a][m].answer = "key",
         \A m \in Polls : krPolls'[a][m].pc = "none" <=> krPolls'[a][m] = NoPoll,
         \A m \in Polls : krPolls'[a][m].pc \in {"answered", "done"} <=> krPolls'[a][m].answer # "none",
         \A m, k \in Polls : (m < k /\ krPolls'[a][k] # NoPoll) => krPolls'[a][m] # NoPoll
  PROVE  KeyPolls(a)'
<1>1. krKeys[a] \subseteq Polls
  BY DEF KrTypes
<1>2. \A m \in Polls : krPolls'[a][m].answer = "key" => m \in krKeys'[a]
  BY DEF KeyPolls
<1>3. \A m \in krKeys'[a] : krPolls'[a][m].answer = "key"
  BY <1>1 DEF KeyPolls
<1> QED
  BY <1>2, <1>3 DEF KeyPolls

\* Every step keeps the invariant.
LEMMA KrStep == KrIInv /\ [KrNext]_krVars => KrIInv'
<1> SUFFICES ASSUME KrTypes, KrInv, [KrNext]_krVars PROVE KrInv'
  BY KrTypeStep DEF KrIInv
<1> USE KrAssumption DEF KrTypes
<1>t. KrTypes'
  BY KrTypeStep
<1>0. ASSUME NEW a \in Agents, KeyInv(a)', Awaited(a)',
             \A b \in Agents : b # a =>
               /\ krKeys'[b] = krKeys[b] /\ krPolls'[b] = krPolls[b] /\ krAgent'[b] = krAgent[b]
               /\ krRows'[b] = krRows[b] \/ krRows'[b] = NoRequest
               /\ b \in krLost <=> b \in krLost'
               /\ b \in krApproved => b \in krApproved'
      PROVE  KrInv'
  <2>1. \A b \in Agents : b # a => KeyInv(b)' /\ Awaited(b)'
    BY <1>0, KrUntouched
  <2> QED
    BY <1>0, <2>1 DEF KrInv
<1>1. ASSUME NEW a \in Agents, CreateCount(a) PROVE KrInv'
  <2>1. KeyInv(a) /\ Awaited(a) /\ krAgent[a] = "idle" /\ krAgent'[a] \in {"refused", "creating"}
    BY <1>1 DEF KrInv, CreateCount
  <2>2. KeyInv(a)' /\ Awaited(a)'
    BY <1>1, <2>1 DEF CreateCount, KeyInv, KeyRow, KeyPolls, Awaited, NotYet, NoPoll
  <2> QED
    BY <1>0, <1>1, <2>2 DEF CreateCount
<1>2. ASSUME NEW a \in Agents, DeadlinePasses(a) PROVE KrInv'
  <2>1. KeyInv(a) /\ Awaited(a) /\ krAgent[a] = "waiting" /\ krAgent'[a] = "gave up"
    BY <1>2 DEF KrInv, DeadlinePasses
  <2>2. KeyInv(a)' /\ Awaited(a)'
    BY <1>2, <2>1 DEF DeadlinePasses, KeyInv, KeyRow, KeyPolls, Awaited, NotYet
  <2> QED
    BY <1>0, <1>2, <2>2 DEF DeadlinePasses
<1>3. ASSUME NEW a \in Agents, NEW answered \in BOOLEAN, CreateInsert(a, answered) PROVE KrInv'
  <2>1. KeyInv(a) /\ Awaited(a) /\ krAgent[a] = "creating" /\ krAgent'[a] \in {"waiting", "failed"}
    BY <1>3 DEF KrInv, CreateInsert
  <2>2. krKeys'[a] = {} /\ \A n \in Polls : krPolls'[a][n] = NoPoll
    BY <1>3, <2>1 DEF CreateInsert, KeyInv, KeyRow, KeyPolls, NotYet
  <2>3. krRows'[a].status \in {"pending", "none"}
    BY <1>3 DEF CreateInsert, PurgeKeyRequests, NewRow, NoRequest
  <2>6. KeyInv(a)'
    BY <2>1, <2>2, <2>3 DEF KeyInv, KeyRow, KeyPolls, NotYet, NoPoll
  <2>7. Awaited(a)'
    BY <2>2 DEF Awaited, NoPoll
  <2>4. KeyInv(a)' /\ Awaited(a)'
    BY <2>6, <2>7
  <2>5. \A b \in Agents : b # a => krRows'[b] = krRows[b] \/ krRows'[b] = NoRequest
    BY <1>3 DEF CreateInsert, PurgeKeyRequests
  <2> QED
    BY <1>0, <1>3, <2>4, <2>5 DEF CreateInsert
<1>4. ASSUME NEW a \in Agents, NEW status \in {"approved", "denied"}, ResolveKeyRequest(a, status) PROVE KrInv'
  <2>1. KeyInv(a) /\ Awaited(a) /\ krRows[a].status = "pending" /\ krRows'[a].status = status
    BY <1>4 DEF KrInv, ResolveKeyRequest
  <2>2. status = "approved" => a \in krApproved'
    BY <1>4 DEF ResolveKeyRequest
  <2>3. KeyInv(a)' /\ Awaited(a)'
    BY <1>4, <2>1, <2>2 DEF ResolveKeyRequest, KeyInv, KeyRow, KeyPolls, Awaited, NotYet, Current
  <2> QED
    BY <1>0, <1>4, <2>3 DEF ResolveKeyRequest
<1>5. ASSUME NEW a \in Agents, NEW n \in Polls, PollRead(a, n) PROVE KrInv'
  <2>1. /\ KeyInv(a) /\ Awaited(a) /\ krAgent[a] = "waiting" /\ krAgent'[a] = "polling" /\ krPolls[a][n] = NoPoll
        /\ UNCHANGED <<krRows, krKeys, krLost, krApproved>>
        /\ \A m \in Polls : m # n => krPolls'[a][m] = krPolls[a][m]
    BY <1>5 DEF KrInv, PollRead
  <2>2. /\ krPolls'[a][n].pc \in {"claiming", "answered"} /\ krPolls'[a][n].answer # "key" /\ krPolls'[a][n] # NoPoll
        /\ krPolls'[a][n].pc = "answered" <=> krPolls'[a][n].answer # "none"
    <3>1. krRows[a].status \in RowStatuses
      BY DEF RowRecords
    <3>2. ReportedStatus(a) # "key" /\ ReportedStatus(a) # "none"
      BY <3>1 DEF ReportedStatus, RowStatuses
    <3>3. CASE ReportedStatus(a) = "approved"
      <4>1. krPolls' = [krPolls EXCEPT ![a][n] = [pc |-> "claiming", at |-> krNow, answer |-> "none"]]
        BY <1>5, <3>3 DEF PollRead
      <4> QED
        BY <4>1 DEF NoPoll
    <3>4. CASE ReportedStatus(a) # "approved"
      <4>1. krPolls' = [krPolls EXCEPT ![a][n] = [pc |-> "answered", at |-> 0, answer |-> ReportedStatus(a)]]
        BY <1>5, <3>4 DEF PollRead
      <4> QED
        BY <4>1, <3>2 DEF NoPoll
    <3> QED
      BY <3>3, <3>4
  <2>3. n \notin krKeys[a]
    BY <2>1 DEF KeyInv, KeyRow, KeyPolls, NoPoll
  <2>4. KeyInv(a)'
    <3>1. ~NotYet(a)' /\ krAgent'[a] # "key"
      BY <2>1 DEF NotYet
    <3>2. \A m \in Polls : m < n => krPolls[a][m] # NoPoll
      BY <1>5 DEF PollRead
    <3>3. \A m, k \in Polls : (m < k /\ krPolls'[a][k] # NoPoll) => krPolls'[a][m] # NoPoll
      <4> TAKE m, k \in Polls
      <4>1. CASE k = n
        BY <2>1, <3>2, <4>1
      <4>2. CASE k # n
        <5>1. m < k /\ krPolls[a][k] # NoPoll => krPolls[a][m] # NoPoll
          BY <2>1 DEF KeyInv, KeyPolls
        <5> QED
          BY <2>1, <2>2, <4>2, <5>1
      <4> QED
        BY <4>1, <4>2
    <3>4. \A m \in Polls : krPolls'[a][m].answer = "key" <=> krPolls[a][m].answer = "key"
      BY <2>1, <2>2 DEF NoPoll
    <3>5. \A m \in Polls : /\ krPolls'[a][m].pc = "none" <=> krPolls'[a][m] = NoPoll
                           /\ krPolls'[a][m].pc \in {"answered", "done"} <=> krPolls'[a][m].answer # "none"
      <4>1. /\ krPolls'[a][n].pc = "none" <=> krPolls'[a][n] = NoPoll
            /\ krPolls'[a][n].pc \in {"answered", "done"} <=> krPolls'[a][n].answer # "none"
        BY <2>2
      <4>2. ASSUME NEW m \in Polls, m # n
            PROVE  /\ krPolls'[a][m].pc = "none" <=> krPolls'[a][m] = NoPoll
                   /\ krPolls'[a][m].pc \in {"answered", "done"} <=> krPolls'[a][m].answer # "none"
        <5>1. /\ krPolls[a][m].pc = "none" <=> krPolls[a][m] = NoPoll
              /\ krPolls[a][m].pc \in {"answered", "done"} <=> krPolls[a][m].answer # "none"
          BY <2>1 DEF KeyInv, KeyPolls
        <5> QED
          BY <2>1, <4>2, <5>1
      <4> QED
        BY <4>1, <4>2
    <3> QED
      <4>1. KeyRow(a)'
        BY <2>1, <3>1 DEF KeyInv, KeyRow
      <4>2. KeyPolls(a)'
        <5>1. \A m \in Polls : krPolls'[a][m].pc = "none" <=> krPolls'[a][m] = NoPoll
          BY <3>5
        <5>2. \A m \in Polls : krPolls'[a][m].pc \in {"answered", "done"} <=> krPolls'[a][m].answer # "none"
          BY <3>5
        <5> HIDE DEF KrTypes
        <5> QED
          BY <2>1, <3>3, <3>4, <5>1, <5>2, KeyPollsKept DEF KeyInv
      <4> QED
        BY <4>1, <4>2 DEF KeyInv
  <2>5. a \notin krLost => krKeys[a] = {} /\ \A m \in Polls : krPolls[a][m].pc # "claiming"
    BY <2>1 DEF Awaited
  <2>6. ASSUME krPolls'[a][n].pc = "claiming" PROVE Current(a, n)' \/ a \in krLost
    <3>1. krRows[a].status = "approved"
      BY <1>5, <2>6 DEF PollRead, ReportedStatus
    <3>2. ASSUME NEW m \in Polls, m > n PROVE krPolls[a][m] = NoPoll
      BY <2>1, <3>2 DEF KeyInv, KeyRow, KeyPolls
    <3> QED
      BY <2>1, <2>2, <3>2 DEF Current
  <2>7. Awaited(a)'
    BY <2>1, <2>5, <2>6 DEF Awaited
  <2> QED
    BY <1>0, <1>5, <2>4, <2>7 DEF PollRead
<1>6. ASSUME NEW a \in Agents, NEW n \in Polls, ClaimKeyRequest(a, n) PROVE KrInv'
  <2>1. /\ KeyInv(a) /\ Awaited(a) /\ krPolls[a][n].pc = "claiming" /\ krPolls[a][n] # NoPoll
        /\ krPolls[a][n].answer = "none" /\ n \notin krKeys[a] /\ krAgent'[a] = krAgent[a]
        /\ UNCHANGED <<krLost, krApproved>>
    BY <1>6 DEF KrInv, KeyInv, KeyRow, KeyPolls, ClaimKeyRequest, NoPoll
  <2>0. PICK x \in {"key", "not found", "claimed"} :
          /\ krPolls' = [krPolls EXCEPT ![a][n] = [pc |-> "answered", at |-> 0, answer |-> x]]
          /\ x = "key" <=> Claimable(a, krPolls[a][n].at)
    <3>1. CASE Claimable(a, krPolls[a][n].at)
      BY <1>6, <3>1 DEF ClaimKeyRequest
    <3>2. CASE ~Claimable(a, krPolls[a][n].at)
      BY <1>6, <3>2 DEF ClaimKeyRequest
    <3> QED
      BY <3>1, <3>2
  <2>2. \A m \in Polls : m # n => krPolls'[a][m] = krPolls[a][m]
    BY <2>0
  <2>3. /\ krPolls'[a][n].pc = "answered" /\ krPolls'[a][n].answer = x /\ x # "none" /\ krPolls'[a][n] # NoPoll
    BY <2>0 DEF NoPoll
  <2>4. \A m \in Polls : krPolls'[a][m] = NoPoll <=> krPolls[a][m] = NoPoll
    BY <2>1, <2>2, <2>3
  <2>5. CASE Claimable(a, krPolls[a][n].at)
    <3>0. /\ krRows' = [krRows EXCEPT ![a].status = "claimed"]
          /\ krKeys' = [krKeys EXCEPT ![a] = krKeys[a] \cup {n}]
      BY <1>6, <2>5 DEF ClaimKeyRequest
    <3>1. /\ krRows[a].status = "approved" /\ krRows'[a].status = "claimed"
          /\ krKeys'[a] = krKeys[a] \cup {n} /\ krPolls'[a][n].answer = "key"
      BY <2>0, <2>3, <2>5, <3>0 DEF Claimable, RowRecords
    <3>2. krKeys[a] = {} /\ a \in krApproved /\ ~NotYet(a)
      BY <2>1, <3>1 DEF KeyInv, KeyRow, KeyPolls
    <3>3. krKeys'[a] = {n}
      BY <3>1, <3>2
    <3>4. KeyInv(a)'
      <4>1. KeyRow(a)'
        BY <2>1, <3>1, <3>2, <3>3 DEF KeyInv, KeyRow, NotYet
      <4>2. \A m \in Polls : krPolls'[a][m].answer = "key" <=> m \in krKeys'[a]
        <5>1. \A m \in Polls : krPolls[a][m].answer # "key"
          BY <2>1, <3>2 DEF KeyInv, KeyPolls
        <5>2. \A m \in Polls : m # n => krPolls'[a][m].answer # "key"
          BY <2>2, <5>1
        <5> QED
          BY <3>1, <3>3, <5>2
      <4>3. ASSUME NEW m \in Polls
            PROVE  /\ krPolls'[a][m].pc = "none" <=> krPolls'[a][m] = NoPoll
                   /\ krPolls'[a][m].pc \in {"answered", "done"} <=> krPolls'[a][m].answer # "none"
        <5>1. CASE m = n
          BY <2>3, <5>1 DEF NoPoll
        <5>2. CASE m # n
          <6>1. /\ krPolls[a][m].pc = "none" <=> krPolls[a][m] = NoPoll
                /\ krPolls[a][m].pc \in {"answered", "done"} <=> krPolls[a][m].answer # "none"
            BY <2>1 DEF KeyInv, KeyPolls
          <6> QED
            BY <2>2, <5>2, <6>1
        <5> QED
          BY <5>1, <5>2
      <4>4. \A m, k \in Polls : (m < k /\ krPolls'[a][k] # NoPoll) => krPolls'[a][m] # NoPoll
        <5>1. \A m, k \in Polls : (m < k /\ krPolls[a][k] # NoPoll) => krPolls[a][m] # NoPoll
          BY <2>1 DEF KeyInv, KeyPolls
        <5> QED
          BY <2>4, <5>1
      <4>5. KeyPolls(a)'
        <5>1. /\ \A m \in Polls : krPolls'[a][m].answer = "key" => m \in krKeys'[a]
              /\ \A m \in krKeys'[a] : krPolls'[a][m].answer = "key"
          BY <3>1, <3>3, <4>2
        <5> QED
          BY <4>3, <4>4, <5>1 DEF KeyPolls
      <4> QED
        BY <4>1, <4>5 DEF KeyInv
    <3>5. Awaited(a)'
      <4>1. \A m \in Polls : Current(a, m)' <=> Current(a, m)
        BY <2>4 DEF Current
      <4>2. a \notin krLost => \A m \in Polls : krPolls[a][m].pc = "claiming"
                                               => krAgent[a] = "polling" /\ Current(a, m)
        BY <2>1 DEF Awaited
      <4>3. \A m \in Polls : krPolls'[a][m].pc = "claiming" => krPolls[a][m].pc = "claiming"
        BY <2>2, <2>3
      <4> QED
        BY <2>1, <3>3, <4>1, <4>2, <4>3 DEF Awaited
    <3> QED
      BY <1>0, <1>6, <2>5, <3>4, <3>5 DEF ClaimKeyRequest
  <2>6. CASE ~Claimable(a, krPolls[a][n].at)
    <3>0. UNCHANGED <<krRows, krKeys>>
      BY <1>6, <2>6 DEF ClaimKeyRequest
    <3>1. UNCHANGED <<krRows, krKeys>> /\ krPolls'[a][n].answer # "key" /\ ~NotYet(a)
      BY <2>0, <2>1, <2>3, <2>6, <3>0 DEF KeyInv, KeyRow, KeyPolls
    <3>2. KeyInv(a)'
      <4>1. KeyRow(a)'
        BY <2>1, <3>1 DEF KeyInv, KeyRow, NotYet
      <4>2. \A m \in Polls : krPolls'[a][m].answer = "key" <=> krPolls[a][m].answer = "key"
        BY <2>1, <2>2, <3>1
      <4>3. KeyPolls(a)'
        <5>1. \A m \in Polls : krPolls'[a][m].pc = "none" <=> krPolls'[a][m] = NoPoll
          <6>1. \A m \in Polls : krPolls[a][m].pc = "none" <=> krPolls[a][m] = NoPoll
            BY <2>1 DEF KeyInv, KeyPolls
          <6> TAKE m \in Polls
          <6>2. CASE m = n
            BY <2>3, <6>2
          <6>3. CASE m # n
            BY <2>2, <6>1, <6>3
          <6> QED
            BY <6>2, <6>3
        <5>2. \A m \in Polls : krPolls'[a][m].pc \in {"answered", "done"} <=> krPolls'[a][m].answer # "none"
          <6>1. \A m \in Polls : krPolls[a][m].pc \in {"answered", "done"} <=> krPolls[a][m].answer # "none"
            BY <2>1 DEF KeyInv, KeyPolls
          <6>2. \A m \in Polls : m # n => krPolls'[a][m] = krPolls[a][m]
            BY <2>2
          <6>3. krPolls'[a][n].pc \in {"answered", "done"} <=> krPolls'[a][n].answer # "none"
            BY <2>3
          <6> TAKE m \in Polls
          <6>4. CASE m = n
            BY <6>3, <6>4
          <6>5. CASE m # n
            BY <6>1, <6>2, <6>5
          <6> QED
            BY <6>4, <6>5
        <5>3. \A m, k \in Polls : (m < k /\ krPolls'[a][k] # NoPoll) => krPolls'[a][m] # NoPoll
          <6>1. \A m, k \in Polls : (m < k /\ krPolls[a][k] # NoPoll) => krPolls[a][m] # NoPoll
            BY <2>1 DEF KeyInv, KeyPolls
          <6> QED
            BY <2>4, <6>1
        <5> QED
          BY <2>1, <3>1, <4>2, <5>1, <5>2, <5>3, KeyPollsKept DEF KeyInv
      <4> QED
        BY <4>1, <4>3 DEF KeyInv
    <3>3. Awaited(a)'
      BY <2>1, <2>2, <2>3, <2>4, <3>1 DEF Awaited, Current
    <3> QED
      BY <1>0, <1>6, <2>6, <3>2, <3>3 DEF ClaimKeyRequest
  <2> QED
    BY <2>5, <2>6
<1>7. ASSUME NEW a \in Agents, NEW n \in Polls, ClaimFails(a, n) PROVE KrInv'
  <2>1. /\ KeyInv(a) /\ Awaited(a) /\ krPolls[a][n].pc = "claiming" /\ krPolls[a][n] # NoPoll /\ ~NotYet(a)
        /\ krPolls[a][n].answer = "none" /\ n \notin krKeys[a] /\ krAgent'[a] = krAgent[a]
        /\ UNCHANGED <<krRows, krKeys, krLost, krApproved>>
    BY <1>7 DEF KrInv, KeyInv, KeyRow, KeyPolls, ClaimFails, NoPoll
  <2>2. \A m \in Polls : m # n => krPolls'[a][m] = krPolls[a][m]
    BY <1>7 DEF ClaimFails
  <2>3. krPolls'[a][n].pc = "answered" /\ krPolls'[a][n].answer = "error" /\ krPolls'[a][n] # NoPoll
    BY <1>7 DEF ClaimFails, NoPoll
  <2>4. \A m \in Polls : krPolls'[a][m] = NoPoll <=> krPolls[a][m] = NoPoll
    BY <2>1, <2>2, <2>3
  <2>5. KeyInv(a)'
    BY <2>1, <2>2, <2>3, <2>4 DEF KeyInv, KeyRow, KeyPolls, NotYet
  <2>6. Awaited(a)'
    BY <2>1, <2>2, <2>3, <2>4 DEF Awaited, Current
  <2> QED
    BY <1>0, <1>7, <2>5, <2>6 DEF ClaimFails
<1>8. ASSUME NEW a \in Agents, NEW n \in Polls, PollAnswered(a, n) PROVE KrInv'
  <2>1. /\ KeyInv(a) /\ Awaited(a) /\ krAgent[a] = "polling" /\ Current(a, n) /\ krPolls[a][n].pc = "answered"
        /\ krPolls[a][n] # NoPoll /\ krPolls[a][n].answer # "none"
        /\ UNCHANGED <<krRows, krKeys, krLost, krApproved>>
    BY <1>8 DEF KrInv, KeyInv, KeyRow, KeyPolls, PollAnswered, NoPoll
  <2>2. \A m \in Polls : m # n => krPolls'[a][m] = krPolls[a][m]
    BY <1>8 DEF PollAnswered
  <2>3. krPolls[a][n] \in PollRecords
    OBVIOUS
  <2>4. /\ krPolls'[a][n].pc = "done" /\ krPolls'[a][n].answer = krPolls[a][n].answer /\ krPolls'[a][n] # NoPoll
    BY <1>8, <2>3 DEF PollAnswered, PollRecords, NoPoll
  <2>5. \A m \in Polls : krPolls'[a][m] = NoPoll <=> krPolls[a][m] = NoPoll
    BY <2>1, <2>2, <2>4
  <2>6. krAgent'[a] = IF krPolls[a][n].answer \in {"pending", "error"} THEN "waiting" ELSE krPolls[a][n].answer
    BY <1>8 DEF PollAnswered
  <2>7. krPolls[a][n].answer \in PollAnswers
    BY <2>3, KrRecords
  <2>8. ~NotYet(a)'
    BY <2>1, <2>6, <2>7 DEF NotYet, PollAnswers
  <2>9. krAgent'[a] = "key" <=> krPolls[a][n].answer = "key"
    BY <2>6
  <2>10. KeyInv(a)'
    <3>1. \A m \in Polls : krPolls'[a][m].answer = krPolls[a][m].answer
      BY <2>2, <2>4
    <3>2. \A m \in Polls : /\ krPolls'[a][m].pc = "none" <=> krPolls[a][m].pc = "none"
                           /\ krPolls'[a][m].pc \in {"answered", "done"} <=> krPolls[a][m].pc \in {"answered", "done"}
      BY <2>1, <2>2, <2>4
    <3> QED
      <4>1. KeyRow(a)'
        BY <2>1, <2>8, <2>9 DEF KeyInv, KeyRow, KeyPolls
      <4>2. KeyPolls(a)'
        <5>1. \A m \in Polls : krPolls'[a][m].pc = "none" <=> krPolls'[a][m] = NoPoll
          <6>1. \A m \in Polls : krPolls[a][m].pc = "none" <=> krPolls[a][m] = NoPoll
            BY <2>1 DEF KeyInv, KeyPolls
          <6> QED
            BY <2>5, <3>2, <6>1
        <5>2. \A m \in Polls : krPolls'[a][m].pc \in {"answered", "done"} <=> krPolls'[a][m].answer # "none"
          <6>1. \A m \in Polls : krPolls[a][m].pc \in {"answered", "done"} <=> krPolls[a][m].answer # "none"
            BY <2>1 DEF KeyInv, KeyPolls
          <6> QED
            BY <3>1, <3>2, <6>1
        <5>3. \A m, k \in Polls : (m < k /\ krPolls'[a][k] # NoPoll) => krPolls'[a][m] # NoPoll
          BY <2>1, <2>5 DEF KeyInv, KeyPolls
        <5> QED
          BY <2>1, <3>1, <5>1, <5>2, <5>3, KeyPollsKept DEF KeyInv
      <4> QED
        BY <4>1, <4>2 DEF KeyInv
  <2>11. ASSUME a \notin krLost PROVE /\ \A m \in Polls : krPolls'[a][m].pc # "claiming"
                                      /\ \A m \in krKeys[a] : krAgent'[a] = "key"
    <3>1. \A m \in Polls : Current(a, m) => m = n
      BY <2>1 DEF Current
    <3>2. \A m \in Polls : krPolls[a][m].pc # "claiming"
      BY <2>1, <2>11, <3>1 DEF Awaited
    <3>3. \A m \in krKeys[a] : m = n
      BY <2>1, <2>11, <3>1 DEF Awaited
    <3>4. \A m \in krKeys[a] : krPolls[a][n].answer = "key"
      BY <2>1, <3>3 DEF KeyInv, KeyRow, KeyPolls
    <3> QED
      BY <2>2, <2>4, <2>9, <3>2, <3>4
  <2>12. Awaited(a)'
    BY <2>1, <2>11 DEF Awaited
  <2> QED
    BY <1>0, <1>8, <2>10, <2>12 DEF PollAnswered
<1>9. ASSUME NEW a \in Agents, NEW n \in Polls, PollGivenUp(a, n) PROVE KrInv'
  <2>1. /\ KeyInv(a) /\ Awaited(a) /\ krAgent[a] = "polling" /\ Current(a, n) /\ krAgent'[a] = "waiting"
        /\ UNCHANGED <<krRows, krKeys, krPolls, krApproved>>
        /\ krLost' = IF krPolls[a][n].pc = "claiming" \/ krPolls[a][n].answer = "key" THEN krLost \cup {a} ELSE krLost
    BY <1>9 DEF KrInv, PollGivenUp
  <2>2. KeyInv(a)'
    BY <2>1 DEF KeyInv, KeyRow, KeyPolls, NotYet
  <2>3. \A m \in Polls : Current(a, m) => m = n
    BY <2>1 DEF Current
  <2>4. ASSUME a \notin krLost' PROVE krKeys[a] = {} /\ \A m \in Polls : krPolls[a][m].pc # "claiming"
    <3>1. a \notin krLost /\ krPolls[a][n].pc # "claiming" /\ krPolls[a][n].answer # "key"
      BY <2>1, <2>4
    <3>2. n \notin krKeys[a]
      BY <2>1, <3>1 DEF KeyInv, KeyRow, KeyPolls
    <3> QED
      BY <2>1, <2>3, <3>1, <3>2 DEF Awaited
  <2>5. Awaited(a)'
    BY <2>1, <2>4 DEF Awaited
  <2> QED
    BY <1>0, <1>9, <2>1, <2>2, <2>5 DEF PollGivenUp
<1>10. CASE KrTick \/ UNCHANGED krVars
  <2>1. UNCHANGED <<krRows, krKeys, krAgent, krPolls, krLost, krApproved>>
    BY <1>10 DEF KrTick, krVars
  <2> QED
    BY <2>1, KrUntouched DEF KrInv
<1> QED
  BY <1>1, <1>2, <1>3, <1>4, <1>5, <1>6, <1>7, <1>8, <1>9, <1>10 DEF KrNext

\* However many polls run at the writer at once, and whichever of them the client
\* gave up: a request yields at most one key, only after an admin approved it, and
\* the key is with the agent or on its way unless its one answer was lost.
THEOREM OneKeyPerRequest == KrSpec => []OneKeyAndItArrives
<1>1. ASSUME KrIInv PROVE OneKeyAndItArrives
  <2> SUFFICES ASSUME NEW a \in Agents
               PROVE  /\ Cardinality(krKeys[a]) <= 1
                      /\ krKeys[a] # {} => a \in krApproved
                      /\ krAgent[a] = "key" => krKeys[a] # {}
                      /\ (krKeys[a] # {} /\ a \notin krLost) => \/ krAgent[a] = "key"
                                                                \/ krAgent[a] = "polling" /\ \E n \in krKeys[a] : Current(a, n)
    BY DEF OneKeyAndItArrives
  <2>1. KeyInv(a) /\ Awaited(a) /\ krKeys[a] \subseteq Polls
    BY <1>1 DEF KrIInv, KrInv, KrTypes
  <2>2. Cardinality(krKeys[a]) <= 1
    <3>1. CASE krKeys[a] = {}
      BY <3>1, FS_EmptySet
    <3>2. CASE krKeys[a] # {}
      <4>1. PICK n \in krKeys[a] : TRUE
        BY <3>2
      <4>2. krKeys[a] = {n}
        BY <2>1, <4>1 DEF KeyInv, KeyRow, KeyPolls
      <4> QED
        BY <4>2, FS_Singleton
    <3> QED
      BY <3>1, <3>2
  <2>3. krKeys[a] # {} => a \in krApproved
    BY <2>1 DEF KeyInv, KeyRow, KeyPolls
  <2>4. krAgent[a] = "key" => krKeys[a] # {}
    BY <2>1 DEF KeyInv, KeyRow, KeyPolls
  <2>5. (krKeys[a] # {} /\ a \notin krLost) => \/ krAgent[a] = "key"
                                               \/ krAgent[a] = "polling" /\ \E n \in krKeys[a] : Current(a, n)
    BY <2>1 DEF Awaited
  <2> QED
    BY <2>2, <2>3, <2>4, <2>5
<1> QED
  BY <1>1, KrInitInv, KrStep, PTL DEF KrSpec

----------------------------------------------------------------------------
(* The project directory.  That a name reaches its project rests on slugs  *)
(* being unique; that a shared display id has a cause rests on what a      *)
(* creation knows of the prefixes that were taken when it chose its own.   *)

PdRow == [slug : PdSlugs, prefix : PdSlugs \X Nat, counter : Nat, group : Nat]
PdCall == [pc : {"idle", "start", "prefix", "insert", "invalidate", "row", "alias", "assign"}, op : Operations,
           slug : PdSlugs \cup {""}, to : PdSlugs \cup PdGroups \cup {""}, id : Nat,
           prefix : (PdSlugs \cup {""}) \X Nat, saw : SUBSET Nat, ver : Nat]

TableTypes ==
  /\ pdNextId \in 1 .. PdMaxProjects + 1 /\ DOMAIN pdRows \subseteq 1 .. pdNextId - 1
  /\ pdRows \in [DOMAIN pdRows -> PdRow]
  /\ pdNextGroup \in Nat /\ \A g \in DOMAIN pdGroups : pdGroups[g] \in Nat
  /\ pdIssues \subseteq [proj : DOMAIN pdRows, num : Nat, fp : PdFingerprints]

\* A request knows its names, and the prefixes it saw when it chose its own.
CallOk(h) ==
  /\ h.pc \in {"prefix", "insert"} \/ (h.pc = "start" /\ h.op \in {"create", "ensure", "rename"}) => h.slug \in PdSlugs
  /\ h.pc = "start" /\ h.op = "rename" => h.to \in PdSlugs
  /\ h.ver <= pdCommits
  /\ h.pc = "insert" => /\ h.saw \subseteq 1 .. pdNextId - 1 /\ h.prefix \in PdSlugs \X Nat
                        /\ \A p \in DOMAIN pdRows \cap h.saw : pdRows[p].prefix # h.prefix
PdCallInv == pdReq \in [PdRequests -> PdCall] /\ \A r \in PdRequests : CallOk(pdReq[r])

\* What the cache serves is as new as the last change that was answered.
UsageInv ==
  /\ pdCommits \in Nat /\ pdAcked \in 0 .. pdCommits /\ pdRefresh \in 0 .. pdCommits \cup {NoUsageRefresh} /\ pdNow \in Nat
  /\ pdUsage \in [fetched : Nat \cup {-1}, ver : Nat] /\ pdServed \in [ver : Nat, acked : Nat]
  /\ pdUsage.fetched >= 0 => pdUsage.ver >= pdAcked
  /\ pdRefresh # NoUsageRefresh => pdRefresh >= pdAcked
  /\ UsageIncludesOwnChanges

\* A slug names one project, and a name that was given and not lost is its
\* project's slug or an alias of it.
SlugsUnique == \A p, q \in DOMAIN pdRows : pdRows[p].slug = pdRows[q].slug => p = q
Named(s, p) ==
  \/ p \in DOMAIN pdRows /\ pdRows[p].slug = s
  \/ (\A q \in DOMAIN pdRows : pdRows[q].slug # s) /\ s \in DOMAIN pdAliases /\ pdAliases[s] = p
NamesFound == \A s \in DOMAIN pdNames \ pdLostNames : Named(s, pdNames[s])

\* Two projects share a prefix only by a race.
PrefixInv == \A p, q \in DOMAIN pdRows : p # q /\ pdRows[p].prefix = pdRows[q].prefix => p \in pdRaced \/ q \in pdRaced

\* The numbers of a project's own issues come from its counter, once each.
NumberInv ==
  \A i \in pdIssues : i.proj \notin pdMergedIn =>
    i.num <= pdRows[i.proj].counter /\ \A j \in pdIssues : j.proj = i.proj /\ j.num = i.num => j = i

PdInv ==
  /\ TableTypes /\ PdCallInv /\ UsageInv /\ SlugsUnique /\ NamesFound /\ PrefixInv /\ NumberInv

\* Some suffix is free: there are fewer projects than suffixes.
LEMMA PrefixIsFree ==
  ASSUME TableTypes, NEW s \in PdSlugs
  PROVE  /\ UniqueIssuePrefix(s) \in PdSlugs \X Nat
         /\ \A p \in DOMAIN pdRows : pdRows[p].prefix # UniqueIssuePrefix(s)
<1>1. PICK b, M : b = PrefixBase[s] /\ M = PdMaxProjects + 1
  OBVIOUS
<1>2. b \in PdSlugs /\ M \in Nat /\ PdMaxProjects \in Nat /\ pdNextId - 1 \in Nat /\ pdNextId - 1 <= PdMaxProjects
  BY <1>1, ProjectDirectoryAssumption DEF TableTypes
<1>3. \E n \in 1 .. M : <<b, n>> \notin TakenPrefixes
  <2>. SUFFICES ASSUME \A n \in 1 .. M : <<b, n>> \in TakenPrefixes PROVE FALSE
    OBVIOUS
  <2>1. PICK f : f = [n \in 1 .. M |-> CHOOSE p \in DOMAIN pdRows : pdRows[p].prefix = <<b, n>>]
    OBVIOUS
  <2>2. ASSUME NEW n \in 1 .. M PROVE f[n] \in 1 .. pdNextId - 1 /\ pdRows[f[n]].prefix = <<b, n>>
    <3>1. \E p \in DOMAIN pdRows : pdRows[p].prefix = <<b, n>>
      BY <2>2 DEF TakenPrefixes
    <3>. QED  BY <2>1, <3>1 DEF TableTypes
  <2>3. f \in Injection(1 .. M, 1 .. pdNextId - 1)
    <3>1. f \in [1 .. M -> 1 .. pdNextId - 1]
      BY <2>1, <2>2
    <3>2. \A m, n \in 1 .. M : f[m] = f[n] => m = n
      BY <2>2
    <3>. QED  BY <3>1, <3>2 DEF Injection, IsInjective
  <2>4. IsFiniteSet(1 .. pdNextId - 1) /\ Cardinality(1 .. pdNextId - 1) <= PdMaxProjects
    <3>1. PICK N \in Nat : N = pdNextId - 1 /\ N <= PdMaxProjects
      BY <1>2
    <3>2. IsFiniteSet(1 .. N) /\ Cardinality(1 .. N) = IF 1 > N THEN 0 ELSE N - 1 + 1
      BY FS_Interval
    <3>. QED  BY <1>2, <3>1, <3>2
  <2>5. Cardinality(1 .. M) <= Cardinality(1 .. pdNextId - 1)
    BY <2>3, <2>4, FS_Injection
  <2>6. Cardinality(1 .. M) = PdMaxProjects + 1 /\ Cardinality(1 .. pdNextId - 1) \in Nat
    BY <1>1, <1>2, <2>4, FS_Interval, FS_CardinalityType
  <2>. QED  BY <1>2, <2>4, <2>5, <2>6
<1>4. PICK T : T = {n \in 1 .. M : <<b, n>> \notin TakenPrefixes}
  OBVIOUS
<1>5. T \in SUBSET Nat /\ T # {}
  BY <1>3, <1>4
<1>6. PICK n \in T : \A k \in T : ~(<<k, n>> \in OpToRel(<, Nat))
  BY <1>5, NatLessThanWellFounded, WFMin
<1>7. \A k \in T : ~(k < n)
  <2>1. ASSUME NEW k \in T, k < n PROVE FALSE
    <3>1. <<k, n>> \in Nat \X Nat
      BY <1>5, <1>6
    <3>. QED  BY <1>6, <2>1, <3>1 DEF OpToRel
  <2>. QED  BY <2>1
<1>8. DEFINE X == {<<PrefixBase[s], k>> : k \in 1 .. PdMaxProjects + 1}
<1>9. DEFINE P(x) == x \notin TakenPrefixes /\ \A k \in 1 .. x[2] - 1 : <<PrefixBase[s], k>> \in TakenPrefixes
<1>10. \E x \in X : P(x)
  <2>1. <<b, n>> \in X /\ <<b, n>>[2] = n
    BY <1>1, <1>4, <1>6
  <2>2. \A k \in 1 .. n - 1 : k \in 1 .. M /\ k < n
    <3>1. n \in 1 .. M
      BY <1>4, <1>6
    <3>. QED  BY <1>2, <3>1
  <2>3. \A k \in 1 .. n - 1 : <<b, k>> \in TakenPrefixes
    BY <1>4, <1>7, <2>2
  <2>. QED  BY <1>1, <1>4, <1>6, <2>1, <2>3
<1>11. UniqueIssuePrefix(s) \in X /\ P(UniqueIssuePrefix(s))
  <2>1. UniqueIssuePrefix(s) = CHOOSE x \in X : P(x)
    BY DEF UniqueIssuePrefix
  <2>. HIDE DEF X, P
  <2>. QED  BY <1>10, <2>1
<1>. QED  BY <1>1, <1>2, <1>11 DEF TakenPrefixes

\* What a slug finds.
LEMMA SlugFinds ==
  ASSUME TableTypes, NEW s
  PROVE  LET p == ProjectWithSlug(s) IN
           /\ p \in Nat
           /\ p # NoRow => p \in DOMAIN pdRows /\ pdRows[p].slug = s
           /\ p = NoRow => \A q \in DOMAIN pdRows : pdRows[q].slug # s
<1>1. NoRow = 0 /\ \A q \in DOMAIN pdRows : q \in Nat /\ q # 0
  BY DEF NoRow, TableTypes
<1>2. CASE RowsWith(s) = {}
  BY <1>1, <1>2 DEF ProjectWithSlug, RowsWith
<1>3. CASE RowsWith(s) # {}
  <2>1. ProjectWithSlug(s) = CHOOSE p \in RowsWith(s) : TRUE
    BY <1>3 DEF ProjectWithSlug
  <2>2. ProjectWithSlug(s) \in RowsWith(s)
    BY <1>3, <2>1
  <2>. QED  BY <1>1, <2>2 DEF RowsWith
<1>. QED  BY <1>2, <1>3

\* Names that are found reach their project.
LEMMA FoundReaches ==
  ASSUME TableTypes, SlugsUnique, NamesFound
  PROVE  NamesKeepReaching
<1>1. ASSUME NEW s \in DOMAIN pdNames \ pdLostNames PROVE Reaches(s) = pdNames[s]
  <2>1. Named(s, pdNames[s])
    BY <1>1 DEF NamesFound
  <2>2. CASE pdNames[s] \in DOMAIN pdRows /\ pdRows[pdNames[s]].slug = s
    <3>1. ProjectWithSlug(s) # NoRow
      BY <2>2, SlugFinds
    <3>. QED  BY <2>2, <3>1, SlugFinds DEF SlugsUnique, Reaches
  <2>3. CASE (\A q \in DOMAIN pdRows : pdRows[q].slug # s) /\ s \in DOMAIN pdAliases /\ pdAliases[s] = pdNames[s]
    <3>1. ProjectWithSlug(s) = NoRow
      BY <2>3, SlugFinds
    <3>. QED  BY <2>3, <3>1 DEF Reaches, ResolveAlias
  <2>. QED  BY <2>1, <2>2, <2>3 DEF Named
<1>. QED  BY <1>1 DEF NamesKeepReaching

\* What a call knows stays true as long as rows only go or are new.
LEMMA CallKept ==
  ASSUME TableTypes, UsageInv, NEW k \in PdCall, CallOk(k),
         pdNextId' \in Nat, pdCommits' \in Nat, pdNextId <= pdNextId', pdCommits <= pdCommits',
         \A p \in DOMAIN pdRows' : p < pdNextId => p \in DOMAIN pdRows /\ pdRows'[p].prefix = pdRows[p].prefix
  PROVE  CallOk(k)'
<1>1. k.ver \in Nat /\ k.saw \subseteq Nat
  BY DEF PdCall
<1>2. k.ver <= pdCommits' /\ (k.pc = "insert" => k.saw \subseteq 1 .. pdNextId' - 1)
  BY <1>1 DEF CallOk, TableTypes, UsageInv
<1>3. ASSUME k.pc = "insert", NEW p \in DOMAIN pdRows' \cap k.saw PROVE pdRows'[p].prefix # k.prefix
  <2>1. p < pdNextId
    BY <1>3 DEF CallOk, TableTypes
  <2>. QED  BY <1>3, <2>1 DEF CallOk
<1>. QED  BY <1>2, <1>3 DEF CallOk

\* A request goes on; the others know what they knew.
LEMMA CallsGo ==
  ASSUME TableTypes, UsageInv, PdCallInv, NEW r \in PdRequests, NEW h \in PdCall, pdReq' = [pdReq EXCEPT ![r] = h],
         pdNextId' \in Nat, pdCommits' \in Nat, pdNextId <= pdNextId', pdCommits <= pdCommits',
         \A p \in DOMAIN pdRows' : p < pdNextId => p \in DOMAIN pdRows /\ pdRows'[p].prefix = pdRows[p].prefix,
         CallOk(h)'
  PROVE  PdCallInv'
<1>1. pdReq' \in [PdRequests -> PdCall]
  BY DEF PdCallInv
<1>2. ASSUME NEW q \in PdRequests PROVE CallOk(pdReq[q])'
  <2>1. CASE q = r
    BY <2>1 DEF PdCallInv, CallOk
  <2>2. CASE q # r
    <3>1. PICK k : k = pdReq[q]
      OBVIOUS
    <3>2. k \in PdCall /\ CallOk(k) /\ pdReq'[q] = k
      BY <2>2, <3>1 DEF PdCallInv
    <3>3. CallOk(k)'
      BY <3>2, CallKept
    <3>. QED  BY <3>2, <3>3 DEF CallOk
  <2>. QED  BY <2>1, <2>2
<1>. QED  BY <1>1, <1>2 DEF PdCallInv

\* Nothing else changed.
LEMMA TableStays ==
  ASSUME PdInv, UNCHANGED <<pdTable, pdHistory>>
  PROVE  TableTypes' /\ SlugsUnique' /\ NamesFound' /\ PrefixInv' /\ NumberInv'
<1>1. TableTypes'
  BY DEF PdInv, TableTypes, pdTable
<1>2. SlugsUnique' /\ PrefixInv' /\ NumberInv'
  BY DEF PdInv, SlugsUnique, PrefixInv, NumberInv, pdTable, pdHistory
<1>3. NamesFound'
  BY DEF PdInv, NamesFound, Named, pdTable, pdHistory
<1>. QED  BY <1>1, <1>2, <1>3

\* A change is committed; nobody has been told.
LEMMA UsageStays ==
  ASSUME UsageInv, UNCHANGED <<pdNow, pdCache, pdAcked>>, pdCommits' \in Nat, pdCommits <= pdCommits'
  PROVE  UsageInv'
BY DEF UsageInv, pdCache, UsageIncludesOwnChanges

\* A row changes but in its slug and its prefix.
LEMMA RowsAlike ==
  ASSUME PdInv, DOMAIN pdRows' = DOMAIN pdRows,
         \A p \in DOMAIN pdRows : pdRows'[p].slug = pdRows[p].slug /\ pdRows'[p].prefix = pdRows[p].prefix,
         UNCHANGED <<pdAliases, pdNames, pdLostNames, pdRaced>>
  PROVE  SlugsUnique' /\ NamesFound' /\ PrefixInv'
<1>1. SlugsUnique' /\ PrefixInv'
  BY DEF PdInv, SlugsUnique, PrefixInv
<1>2. NamesFound'
  BY DEF PdInv, NamesFound, Named
<1>. QED  BY <1>1, <1>2

\* A request goes on without a change of the table.
LEMMA CallStep ==
  ASSUME PdInv, NEW r \in PdRequests, NEW h \in PdCall, pdReq' = [pdReq EXCEPT ![r] = h], CallOk(h),
         UNCHANGED <<pdTable, pdNow, pdCache, pdCommits, pdAcked, pdHistory>>
  PROVE  PdInv'
<1>1. UsageInv' /\ pdNextId \in Nat /\ pdCommits \in Nat /\ DOMAIN pdRows \subseteq Nat
  BY UsageStays DEF PdInv, UsageInv, TableTypes
<1>2. CallOk(h)'
  BY DEF CallOk, pdTable
<1>3. PdCallInv'
  <2>1. pdNextId' = pdNextId /\ pdRows' = pdRows /\ pdCommits' = pdCommits
    BY DEF pdTable
  <2>2. TableTypes /\ UsageInv /\ PdCallInv
    BY DEF PdInv
  <2>3. pdNextId' \in Nat /\ pdCommits' \in Nat /\ pdNextId <= pdNextId' /\ pdCommits <= pdCommits'
    BY <1>1, <2>1
  <2>4. \A p \in DOMAIN pdRows' : p < pdNextId => p \in DOMAIN pdRows /\ pdRows'[p].prefix = pdRows[p].prefix
    BY <2>1
  <2>. QED  BY <1>2, <2>2, <2>3, <2>4, CallsGo
<1>. QED  BY <1>1, <1>3, TableStays DEF PdInv

\* An idle request is as good as none.
LEMMA IdleCall == PdIdle \in PdCall /\ PdIdle.pc = "idle" /\ PdIdle.ver = 0
BY DEF PdIdle, PdCall, Operations, NoRow

\* An answer leaves no call behind.
LEMMA IdleOk ==
  ASSUME pdCommits \in Nat
  PROVE  CallOk(PdIdle)
BY IdleCall DEF CallOk

\* The request under way is a call, and what it is at says something of it.
LEMMA CallIs ==
  ASSUME PdInv, NEW r \in PdRequests
  PROVE  pdReq[r] \in PdCall /\ CallOk(pdReq[r]) /\ pdReq[r].ver \in Nat /\ pdReq[r].id \in Nat
BY DEF PdInv, PdCallInv, PdCall

\* A request is made.
LEMMA AcceptKeeps ==
  ASSUME PdInv, NEW r \in PdRequests, NEW op, NEW s \in PdSlugs \cup {""}, NEW t \in PdSlugs \cup PdGroups \cup {""},
         AcceptRequest(r, op, s, t), op \in {"create", "ensure", "rename"} => s \in PdSlugs, op = "rename" => t \in PdSlugs
  PROVE  PdInv'
<1>1. PICK h : h = [[[[PdIdle EXCEPT !.pc = "start"] EXCEPT !.op = op] EXCEPT !.slug = s] EXCEPT !.to = t]
  OBVIOUS
<1>2. pdReq' = [pdReq EXCEPT ![r] = h] /\ op \in Operations
      /\ UNCHANGED <<pdTable, pdNow, pdCache, pdCommits, pdAcked, pdHistory>>
  BY <1>1, ProjectDirectoryAssumption DEF AcceptRequest
<1>3. h \in PdCall /\ h.pc = "start" /\ h.slug = s /\ h.to = t /\ h.ver = 0 /\ h.op = op
  BY <1>1, <1>2, IdleCall DEF PdCall
<1>4. CallOk(h)
  <2>1. PdIdle.ver <= pdCommits
    BY IdleOk DEF CallOk, PdInv, UsageInv
  <2>2. h.ver = PdIdle.ver
    BY <1>3, IdleCall
  <2>. QED  BY <1>3, <2>1, <2>2 DEF CallOk
<1>. QED  BY <1>2, <1>3, <1>4, CallStep

\* A known name ends the request; else, and for a creation, the prefix comes next.
LEMMA EnsureKeeps ==
  ASSUME PdInv, NEW r \in PdRequests, EnsureProject(r)
  PROVE  PdInv'
<1>1. PICK c, h : c = pdReq[r] /\ h = IF Reaches(pdReq[r].slug) # NoRow THEN PdIdle ELSE [c EXCEPT !.pc = "prefix"]
  OBVIOUS
<1>2. c.pc = "start" /\ c.op = "ensure" /\ UNCHANGED <<pdTable, pdNow, pdCache, pdCommits, pdAcked, pdHistory>>
  BY <1>1 DEF EnsureProject, RequestAt
<1>3. pdReq' = [pdReq EXCEPT ![r] = h]
  BY <1>1, CallIs DEF EnsureProject, RequestEnds, RequestGoes, PdInv, PdCallInv
<1>4. h \in PdCall /\ CallOk(h)
  <2>1. CASE h = PdIdle
    BY <2>1, IdleCall, IdleOk DEF PdInv, UsageInv
  <2>2. CASE h = [c EXCEPT !.pc = "prefix"]
    <3>1. h \in PdCall /\ h.pc = "prefix" /\ h.slug = c.slug /\ h.ver = c.ver
      BY <1>1, <2>2, CallIs DEF PdCall
    <3>. QED  BY <1>1, <1>2, <3>1, CallIs DEF CallOk
  <2>. QED  BY <1>1, <2>1, <2>2
<1>. QED  BY <1>2, <1>3, <1>4, CallStep

\* The chosen prefix is nobody's at that moment.
LEMMA ChooseKeeps ==
  ASSUME PdInv, NEW r \in PdRequests, ChoosePrefix(r)
  PROVE  PdInv'
<1>1. PICK c, x : c = pdReq[r] /\ x = UniqueIssuePrefix(pdReq[r].slug)
  OBVIOUS
<1>2. PICK D : D = DOMAIN pdRows
  OBVIOUS
<1>3. PICK h : h = [[[c EXCEPT !.pc = "insert"] EXCEPT !.prefix = x] EXCEPT !.saw = D]
  OBVIOUS
<1>4. (c.pc = "prefix" \/ (c.pc = "start" /\ c.op = "create"))
      /\ UNCHANGED <<pdTable, pdNow, pdCache, pdCommits, pdAcked, pdHistory>>
  BY <1>1 DEF ChoosePrefix, RequestAt
<1>5. pdReq' = [pdReq EXCEPT ![r] = h]
  BY <1>1, <1>2, <1>3 DEF ChoosePrefix, PdInv, PdCallInv
<1>6. c \in PdCall /\ CallOk(c) /\ c.slug \in PdSlugs
  BY <1>1, <1>4, CallIs DEF CallOk
<1>7. x \in PdSlugs \X Nat /\ \A p \in DOMAIN pdRows : pdRows[p].prefix # x
  BY <1>1, <1>6, PrefixIsFree DEF PdInv
<1>8. D \subseteq 1 .. pdNextId - 1 /\ D \subseteq Nat
  BY <1>2 DEF PdInv, TableTypes
<1>9. /\ h \in PdCall /\ h.pc = "insert" /\ h.slug = c.slug /\ h.ver = c.ver /\ h.prefix = x /\ h.saw = D
  BY <1>3, <1>6, <1>7, <1>8 DEF PdCall
<1>10. CallOk(h)
  BY <1>2, <1>6, <1>7, <1>8, <1>9 DEF CallOk
<1>. QED  BY <1>4, <1>5, <1>9, <1>10, CallStep

\* The project or the group is looked up first.
LEMMA LookUpKeeps ==
  ASSUME PdInv, NEW r \in PdRequests, LookUpProject(r) \/ LookUpGroup(r)
  PROVE  PdInv'
<1>1. PICK c : c = pdReq[r]
  OBVIOUS
<1>2. c \in PdCall /\ CallOk(c)
  BY <1>1, CallIs
<1>3. UNCHANGED <<pdTable, pdNow, pdCache, pdCommits, pdAcked, pdHistory>>
  BY DEF LookUpProject, LookUpGroup
<1>4. ASSUME NEW pc \in {"alias", "assign"}, NEW id \in Nat, pdReq' = [pdReq EXCEPT ![r].pc = pc, ![r].id = id] PROVE PdInv'
  <2>1. PICK h : h = [[c EXCEPT !.pc = pc] EXCEPT !.id = id]
    OBVIOUS
  <2>2. pdReq' = [pdReq EXCEPT ![r] = h]
    BY <1>1, <1>4, <2>1 DEF PdInv, PdCallInv
  <2>3. h \in PdCall /\ h.pc = pc /\ h.ver = c.ver
    BY <1>2, <2>1 DEF PdCall
  <2>4. CallOk(h)
    BY <1>2, <2>3 DEF CallOk
  <2>. QED  BY <1>3, <2>2, <2>3, <2>4, CallStep
<1>5. CASE RequestEnds(r)
  BY <1>3, <1>5, CallStep, IdleCall, IdleOk DEF RequestEnds, PdInv, UsageInv
<1>6. ProjectWithSlug(c.slug) \in Nat
  BY SlugFinds DEF PdInv
<1>7. CASE ~RequestEnds(r) /\ LookUpProject(r)
  <2>1. PICK id : id = ProjectWithSlug(pdReq[r].slug)
    OBVIOUS
  <2>. QED  BY <1>1, <1>4, <1>6, <1>7, <2>1 DEF LookUpProject
<1>8. CASE ~RequestEnds(r) /\ LookUpGroup(r)
  <2>1. PICK id : id = pdGroups[pdReq[r].to]
    OBVIOUS
  <2>2. id \in Nat
    BY <1>8, <2>1 DEF LookUpGroup, PdInv, TableTypes
  <2>. QED  BY <1>4, <1>8, <2>1, <2>2 DEF LookUpGroup
<1>. QED  BY <1>5, <1>7, <1>8

\* A request changes the table: what is left to show of the step.
LEMMA TableStep ==
  ASSUME PdInv, NEW r \in PdRequests, NEW h \in PdCall, pdReq' = [pdReq EXCEPT ![r] = h], CallOk(h)',
         UNCHANGED <<pdNow, pdCache, pdAcked>>, pdCommits' \in {pdCommits, pdCommits + 1}, pdNextId' \in {pdNextId, pdNextId + 1},
         \A p \in DOMAIN pdRows' : p < pdNextId => p \in DOMAIN pdRows /\ pdRows'[p].prefix = pdRows[p].prefix,
         TableTypes', SlugsUnique', NamesFound', PrefixInv', NumberInv'
  PROVE  PdInv'
<1>1. TableTypes /\ UsageInv /\ PdCallInv /\ pdCommits \in Nat /\ pdNextId \in Nat
  BY DEF PdInv, UsageInv, TableTypes
<1>2. pdCommits' \in Nat /\ pdCommits <= pdCommits' /\ pdNextId' \in Nat /\ pdNextId <= pdNextId'
  BY <1>1
<1>3. UsageInv'
  BY <1>1, <1>2, UsageStays
<1>4. PdCallInv'
  BY <1>1, <1>2, CallsGo
<1>. QED  BY <1>3, <1>4 DEF PdInv

\* The call that ends, and the one that still has to drop the usage counts.
LEMMA EndedCall ==
  ASSUME UsageInv, pdCommits' \in {pdCommits, pdCommits + 1}
  PROVE  CallOk(PdIdle)'
<1>1. 0 <= pdCommits'
  BY DEF UsageInv
<1>. QED  BY <1>1, IdleCall DEF CallOk

\* A call that has changed the rows goes on to invalidate the usage counts.
LEMMA InvalidatingCall ==
  ASSUME PdInv, NEW c \in PdCall, NEW h, h = [[c EXCEPT !.pc = "invalidate"] EXCEPT !.ver = pdCommits + 1], pdCommits' = pdCommits + 1
  PROVE  h \in PdCall /\ CallOk(h)'
<1>1. PICK v \in Nat : v = pdCommits + 1
  BY DEF PdInv, UsageInv
<1>2. h \in PdCall /\ h.pc = "invalidate" /\ h.ver = v
  BY <1>1 DEF PdCall
<1>3. h.ver <= pdCommits'
  BY <1>1, <1>2
<1>. QED  BY <1>2, <1>3 DEF CallOk

\* A new row, with a slug nobody has.
LEMMA ProjectAdded ==
  ASSUME PdInv, pdNextId <= PdMaxProjects, NEW c \in PdCall, CallOk(c), c.pc = "insert", ProjectWithSlug(c.slug) = NoRow,
         pdRows' = WithKey(pdRows, pdNextId, [slug |-> c.slug, prefix |-> c.prefix, counter |-> 0, group |-> NoGroup]),
         pdNextId' = pdNextId + 1, GiveName(c.slug, pdNextId),
         pdRaced' = IF \E p \in DOMAIN pdRows \ c.saw : pdRows[p].prefix = c.prefix THEN pdRaced \cup {pdNextId} ELSE pdRaced,
         UNCHANGED <<pdAliases, pdGroups, pdNextGroup, pdIssues, pdMergedIn>>
  PROVE  /\ TableTypes' /\ SlugsUnique' /\ NamesFound' /\ PrefixInv' /\ NumberInv'
         /\ \A p \in DOMAIN pdRows' : p < pdNextId => p \in DOMAIN pdRows /\ pdRows'[p].prefix = pdRows[p].prefix
<1>1. PICK n, w : n = pdNextId /\ w = [slug |-> c.slug, prefix |-> c.prefix, counter |-> 0, group |-> NoGroup]
  OBVIOUS
<1>2. c.slug \in PdSlugs /\ c.prefix \in PdSlugs \X Nat /\ \A p \in DOMAIN pdRows \cap c.saw : pdRows[p].prefix # c.prefix
  BY DEF CallOk
<1>3. w \in PdRow /\ w.slug = c.slug /\ w.prefix = c.prefix
  BY <1>1, <1>2 DEF PdRow, NoGroup
<1>4. n \in 1 .. PdMaxProjects /\ pdNextId' = n + 1 /\ DOMAIN pdRows \subseteq 1 .. n - 1 /\ n \notin DOMAIN pdRows /\ PdMaxProjects \in Nat
  BY <1>1, ProjectDirectoryAssumption DEF PdInv, TableTypes
<1>5. /\ DOMAIN pdRows' = DOMAIN pdRows \cup {n} /\ pdRows'[n] = w
      /\ \A p \in DOMAIN pdRows : pdRows'[p] = pdRows[p]
  BY <1>1, <1>4 DEF WithKey
<1>6. pdRows' \in [DOMAIN pdRows' -> PdRow]
  <2>1. pdRows' = [p \in DOMAIN pdRows \cup {n} |-> IF p = n THEN w ELSE pdRows[p]]
    BY <1>1 DEF WithKey
  <2>. QED  BY <1>3, <1>5, <2>1 DEF PdInv, TableTypes
<1>7. \A q \in DOMAIN pdRows : pdRows[q].slug # c.slug
  BY SlugFinds DEF PdInv
<1>8. TableTypes'
  <2>1. pdNextId' \in 1 .. PdMaxProjects + 1 /\ DOMAIN pdRows' \subseteq 1 .. pdNextId' - 1
    BY <1>4, <1>5
  <2>2. pdIssues' \subseteq [proj : DOMAIN pdRows', num : Nat, fp : PdFingerprints]
    BY <1>5 DEF PdInv, TableTypes
  <2>3. pdNextGroup' \in Nat /\ \A g \in DOMAIN pdGroups' : pdGroups'[g] \in Nat
    BY DEF PdInv, TableTypes
  <2>. QED  BY <1>6, <2>1, <2>2, <2>3 DEF TableTypes
<1>9. SlugsUnique'
  BY <1>3, <1>5, <1>7 DEF PdInv, SlugsUnique
<1>10. NamesFound'
  <2>1. ASSUME NEW x \in DOMAIN pdNames' \ pdLostNames' PROVE Named(x, pdNames[x])'
    <3>1. CASE x = c.slug
      BY <1>1, <1>3, <1>5, <3>1 DEF GiveName, WithKey, Named
    <3>2. CASE x # c.slug
      <4>1. x \in DOMAIN pdNames \ pdLostNames /\ pdNames'[x] = pdNames[x]
        BY <2>1, <3>2 DEF GiveName, WithKey
      <4>2. Named(x, pdNames[x])
        BY <4>1 DEF PdInv, NamesFound
      <4>. QED  BY <1>3, <1>5, <3>2, <4>1, <4>2 DEF Named
    <3>. QED  BY <3>1, <3>2
  <2>. QED  BY <2>1 DEF NamesFound
<1>11. PrefixInv'
  <2>1. pdRaced \subseteq pdRaced'
    OBVIOUS
  <2>2. ASSUME NEW p \in DOMAIN pdRows, pdRows[p].prefix = c.prefix PROVE n \in pdRaced'
    BY <1>1, <1>2, <2>2
  <2>. QED  BY <1>3, <1>5, <2>1, <2>2 DEF PdInv, PrefixInv
<1>12. NumberInv'
  <2>1. \A i \in pdIssues : i.proj \in DOMAIN pdRows
    BY DEF PdInv, TableTypes
  <2>. QED  BY <1>5, <2>1 DEF PdInv, NumberInv
<1>13. \A p \in DOMAIN pdRows' : p < pdNextId => p \in DOMAIN pdRows /\ pdRows'[p].prefix = pdRows[p].prefix
  BY <1>1, <1>4, <1>5
<1>. QED  BY <1>8, <1>9, <1>10, <1>11, <1>12, <1>13

\* A new project takes the id and the prefix its request chose.
LEMMA CreateKeeps ==
  ASSUME PdInv, NEW r \in PdRequests, CreateProjectRow(r)
  PROVE  PdInv'
<1>1. PICK c : c = pdReq[r]
  OBVIOUS
<1>2. c \in PdCall /\ CallOk(c) /\ c.pc = "insert" /\ pdNextId <= PdMaxProjects
  BY <1>1, CallIs DEF CreateProjectRow, RequestAt
<1>3. UNCHANGED <<pdAliases, pdGroups, pdNextGroup, pdIssues, pdNow, pdCache, pdAcked, pdMergedIn>>
  BY DEF CreateProjectRow
<1>4. CASE ProjectWithSlug(c.slug) # NoRow
  <2>1. RequestEnds(r) /\ UNCHANGED <<pdTable, pdNow, pdCache, pdCommits, pdAcked, pdHistory>>
    BY <1>1, <1>4 DEF CreateProjectRow, pdTable, pdHistory
  <2>. QED  BY <2>1, CallStep, IdleCall, IdleOk DEF RequestEnds, PdInv, UsageInv
<1>5. CASE ProjectWithSlug(c.slug) = NoRow
  <2>1. /\ pdRows' = WithKey(pdRows, pdNextId, [slug |-> c.slug, prefix |-> c.prefix, counter |-> 0, group |-> NoGroup])
        /\ pdNextId' = pdNextId + 1 /\ pdCommits' = pdCommits + 1 /\ GiveName(c.slug, pdNextId)
        /\ pdRaced' = IF \E p \in DOMAIN pdRows \ c.saw : pdRows[p].prefix = c.prefix THEN pdRaced \cup {pdNextId} ELSE pdRaced
    BY <1>1, <1>5 DEF CreateProjectRow
  <2>2. /\ TableTypes' /\ SlugsUnique' /\ NamesFound' /\ PrefixInv' /\ NumberInv'
        /\ \A p \in DOMAIN pdRows' : p < pdNextId => p \in DOMAIN pdRows /\ pdRows'[p].prefix = pdRows[p].prefix
    BY <1>2, <1>3, <1>5, <2>1, ProjectAdded
  <2>3. PICK h : h = IF c.op = "create" THEN [[c EXCEPT !.pc = "invalidate"] EXCEPT !.ver = pdCommits + 1] ELSE PdIdle
    OBVIOUS
  <2>4. pdReq' = [pdReq EXCEPT ![r] = h]
    BY <1>1, <1>5, <2>1, <2>3 DEF CreateProjectRow, RequestEnds, PdInv, PdCallInv
  <2>5. h \in PdCall /\ CallOk(h)'
    BY <1>2, <2>1, <2>3, IdleCall, EndedCall, InvalidatingCall DEF PdInv
  <2>6. pdCommits' \in {pdCommits, pdCommits + 1} /\ pdNextId' \in {pdNextId, pdNextId + 1}
    BY <2>1
  <2>. QED  BY <1>3, <2>2, <2>4, <2>5, <2>6, TableStep
<1>. QED  BY <1>4, <1>5

\* The project keeps its old name as an alias.
LEMMA RenameKeeps ==
  ASSUME PdInv, NEW r \in PdRequests, RenameProjectRow(r)
  PROVE  PdInv'
<1>1. PICK c, p : c = pdReq[r] /\ p = ProjectWithSlug(pdReq[r].slug)
  OBVIOUS
<1>2. c \in PdCall /\ CallOk(c) /\ c.pc = "start" /\ c.op = "rename" /\ RequestEnds(r)
  BY <1>1, CallIs DEF RenameProjectRow, RequestAt
<1>3. UNCHANGED <<pdNextId, pdGroups, pdNextGroup, pdIssues, pdNow, pdCache, pdCommits, pdAcked, pdRaced, pdMergedIn>>
  BY DEF RenameProjectRow
<1>4. CASE ~(p # NoRow /\ ProjectWithSlug(c.to) \in {NoRow, p} /\ c.slug \notin DOMAIN pdAliases)
  <2>1. UNCHANGED <<pdTable, pdNow, pdCache, pdCommits, pdAcked, pdHistory>>
    BY <1>1, <1>3, <1>4 DEF RenameProjectRow, pdTable, pdHistory
  <2>. QED  BY <1>2, <2>1, CallStep, IdleCall, IdleOk DEF RequestEnds, PdInv, UsageInv
<1>5. CASE p # NoRow /\ ProjectWithSlug(c.to) \in {NoRow, p} /\ c.slug \notin DOMAIN pdAliases
  <2>1. PICK s, t : s = c.slug /\ t = c.to
    OBVIOUS
  <2>2. s \in PdSlugs /\ t \in PdSlugs
    BY <1>2, <2>1 DEF CallOk
  <2>3. pdRows' = [pdRows EXCEPT ![p].slug = t] /\ pdAliases' = WithKey(pdAliases, s, p) /\ GiveName(t, p)
    BY <1>1, <1>5, <2>1 DEF RenameProjectRow
  <2>4. p \in DOMAIN pdRows /\ pdRows[p].slug = s /\ \A q \in DOMAIN pdRows : pdRows[q].slug = s => q = p
    BY <1>1, <1>5, <2>1, SlugFinds DEF PdInv, SlugsUnique
  <2>5. \A q \in DOMAIN pdRows : q # p => pdRows[q].slug # t
    BY <1>5, <2>1, SlugFinds DEF PdInv, SlugsUnique
  <2>6. pdRows \in [DOMAIN pdRows -> PdRow]
    BY DEF PdInv, TableTypes
  <2>7. /\ DOMAIN pdRows' = DOMAIN pdRows /\ pdRows' \in [DOMAIN pdRows -> PdRow] /\ pdRows'[p].slug = t
        /\ \A q \in DOMAIN pdRows : q # p => pdRows'[q].slug = pdRows[q].slug
        /\ \A q \in DOMAIN pdRows : pdRows'[q].prefix = pdRows[q].prefix /\ pdRows'[q].counter = pdRows[q].counter
    BY <2>2, <2>3, <2>4, <2>6 DEF PdRow
  <2>8. TableTypes'
    BY <1>3, <2>7 DEF PdInv, TableTypes
  <2>9. SlugsUnique' /\ PrefixInv'
    BY <1>3, <2>5, <2>7 DEF PdInv, SlugsUnique, PrefixInv
  <2>10. NumberInv'
    <3>1. \A i \in pdIssues : i.proj \in DOMAIN pdRows
      BY DEF PdInv, TableTypes
    <3>. QED  BY <1>3, <2>7, <3>1 DEF PdInv, NumberInv
  <2>11. NamesFound'
    <3>1. ASSUME NEW x \in DOMAIN pdNames' \ pdLostNames' PROVE Named(x, pdNames[x])'
      <4>1. CASE x = t
        BY <2>3, <2>4, <2>7, <4>1 DEF GiveName, WithKey, Named
      <4>2. CASE x # t
        <5>1. x \in DOMAIN pdNames \ pdLostNames /\ pdNames'[x] = pdNames[x]
          BY <2>3, <3>1, <4>2 DEF GiveName, WithKey
        <5>2. Named(x, pdNames[x])
          BY <5>1 DEF PdInv, NamesFound
        <5>3. CASE pdNames[x] \in DOMAIN pdRows /\ pdRows[pdNames[x]].slug = x
          <6>1. CASE pdNames[x] # p
            BY <2>7, <5>1, <5>3, <6>1 DEF Named
          <6>2. CASE pdNames[x] = p
            <7>1. x = s
              BY <2>4, <5>3, <6>2
            <7>2. \A q \in DOMAIN pdRows' : pdRows'[q].slug # s
              BY <2>4, <2>7, <4>2, <7>1
            <7>3. s \in DOMAIN pdAliases' /\ pdAliases'[s] = p
              BY <2>3 DEF WithKey
            <7>. QED  BY <5>1, <6>2, <7>1, <7>2, <7>3 DEF Named
          <6>. QED  BY <6>1, <6>2
        <5>4. CASE (\A q \in DOMAIN pdRows : pdRows[q].slug # x) /\ x \in DOMAIN pdAliases /\ pdAliases[x] = pdNames[x]
          <6>1. x # s
            BY <1>5, <2>1, <5>4
          <6>2. x \in DOMAIN pdAliases' /\ pdAliases'[x] = pdNames[x]
            BY <2>3, <5>4, <6>1 DEF WithKey
          <6>3. \A q \in DOMAIN pdRows' : pdRows'[q].slug # x
            BY <2>7, <4>2, <5>4
          <6>. QED  BY <5>1, <6>2, <6>3 DEF Named
        <5>. QED  BY <5>2, <5>3, <5>4 DEF Named
      <4>. QED  BY <4>1, <4>2
    <3>. QED  BY <3>1 DEF NamesFound
  <2>12. \A q \in DOMAIN pdRows' : q < pdNextId => q \in DOMAIN pdRows /\ pdRows'[q].prefix = pdRows[q].prefix
    BY <2>7
  <2>13. pdReq' = [pdReq EXCEPT ![r] = PdIdle] /\ CallOk(PdIdle)' /\ PdIdle \in PdCall
    BY <1>2, <1>3, IdleCall, EndedCall DEF RequestEnds, PdInv
  <2>. QED  BY <1>3, <2>8, <2>9, <2>10, <2>11, <2>12, <2>13, TableStep
<1>. QED  BY <1>4, <1>5

\* Fewer rows share no more than they did.
LEMMA FewerRows ==
  ASSUME PdInv, DOMAIN pdRows' \subseteq DOMAIN pdRows, \A q \in DOMAIN pdRows' : pdRows'[q] = pdRows[q], UNCHANGED pdRaced
  PROVE  SlugsUnique' /\ PrefixInv'
BY DEF PdInv, SlugsUnique, PrefixInv

\* A merge moves the issues and the name of the source, and the row goes.
LEMMA ProjectMerged ==
  ASSUME PdInv, NEW s, NEW from, NEW to, from = ProjectWithSlug(s), from # NoRow, to \in DOMAIN pdRows, s \notin DOMAIN pdAliases,
         pdIssues' = IssuesAfterMerge(from, to),
         pdAliases' = AliasesAfterMerge(s, from, to), pdRows' = DropKeys(pdRows, {from}),
         pdLostNames' = pdLostNames \cup (IF from = to THEN NamesOf(from) ELSE NamesOf(from) \ {s}),
         pdNames' = NamesAfterMerge(from, to),
         pdMergedIn' = pdMergedIn \cup {to}, UNCHANGED <<pdNextId, pdGroups, pdNextGroup, pdRaced>>
  PROVE  TableTypes' /\ SlugsUnique' /\ NamesFound' /\ PrefixInv' /\ NumberInv'
<1>1. from \in DOMAIN pdRows /\ pdRows[from].slug = s /\ \A q \in DOMAIN pdRows : pdRows[q].slug = s => q = from
  BY SlugFinds DEF PdInv, SlugsUnique
<1>0. DOMAIN pdNames' = DOMAIN pdNames /\ \A x \in DOMAIN pdNames : pdNames'[x] = IF pdNames[x] = from THEN to ELSE pdNames[x]
  BY DEF NamesAfterMerge
<1>2. /\ DOMAIN pdRows' = DOMAIN pdRows \ {from} /\ \A q \in DOMAIN pdRows' : pdRows'[q] = pdRows[q]
      /\ pdRows' \in [DOMAIN pdRows' -> PdRow]
  BY DEF DropKeys, PdInv, TableTypes
<1>3. pdIssues \subseteq [proj : DOMAIN pdRows, num : Nat, fp : PdFingerprints]
  BY DEF PdInv, TableTypes
<1>4. \A i \in pdIssues' : /\ i \in [proj : DOMAIN pdRows \ {from}, num : Nat, fp : PdFingerprints]
                           /\ i.proj # to => i \in pdIssues
  <2>1. CASE from = to
    BY <1>3, <2>1 DEF IssuesAfterMerge
  <2>2. CASE from # to
    <3>1. ASSUME NEW i \in pdIssues'
          PROVE  i \in [proj : DOMAIN pdRows \ {from}, num : Nat, fp : PdFingerprints] /\ (i.proj # to => i \in pdIssues)
      <4>1. PICK k \in pdIssues : i = [k EXCEPT !.proj = IF k.proj = from THEN to ELSE k.proj]
        BY <2>2, <3>1 DEF IssuesAfterMerge
      <4>2. k \in [proj : DOMAIN pdRows, num : Nat, fp : PdFingerprints]
        BY <1>3
      <4>3. CASE k.proj = from
        BY <2>2, <4>1, <4>2, <4>3
      <4>4. CASE k.proj # from
        <5>1. i = [k EXCEPT !.proj = k.proj]
          BY <4>1, <4>4
        <5>2. i = k
          BY <4>2, <5>1
        <5>. QED  BY <4>2, <4>4, <5>2
      <4>. QED  BY <4>3, <4>4
    <3>. QED  BY <3>1
  <2>. QED  BY <2>1, <2>2
<1>5. TableTypes'
  <2>1. pdIssues' \subseteq [proj : DOMAIN pdRows', num : Nat, fp : PdFingerprints]
    BY <1>2, <1>4
  <2>. QED  BY <1>2, <2>1 DEF PdInv, TableTypes
<1>6. SlugsUnique' /\ PrefixInv'
  BY <1>2, FewerRows
<1>7. NumberInv'
  <2>1. \A i \in pdIssues' : i.proj \notin pdMergedIn' => i \in pdIssues /\ i.proj \notin pdMergedIn /\ i.proj \in DOMAIN pdRows'
    BY <1>2, <1>4
  <2>. QED  BY <1>2, <1>4, <2>1 DEF PdInv, NumberInv
<1>8. \A x \in DOMAIN pdAliases : pdAliases[x] # from => x \in DOMAIN pdAliases' /\ pdAliases'[x] = pdAliases[x]
  BY DEF AliasesAfterMerge, WithKey, DropKeys
<1>9. from # to => s \in DOMAIN pdAliases' /\ pdAliases'[s] = to
  BY DEF AliasesAfterMerge, WithKey, DropKeys
<1>10. NamesFound'
  <2>1. ASSUME NEW x \in DOMAIN pdNames' \ pdLostNames' PROVE Named(x, pdNames[x])'
    <3>1. x \in DOMAIN pdNames \ pdLostNames
      BY <1>0, <2>1
    <3>2. CASE pdNames[x] = from
      <4>1. x = s /\ from # to
        BY <2>1, <3>1, <3>2 DEF NamesOf
      <4>2. \A q \in DOMAIN pdRows' : pdRows'[q].slug # s
        BY <1>1, <1>2
      <4>3. pdNames'[x] = to
        BY <1>0, <3>1, <3>2
      <4>. QED  BY <1>9, <4>1, <4>2, <4>3 DEF Named
    <3>3. CASE pdNames[x] # from
      <4>1. Named(x, pdNames[x]) /\ pdNames'[x] = pdNames[x]
        BY <1>0, <3>1, <3>3 DEF PdInv, NamesFound
      <4>. QED  BY <1>2, <1>8, <3>3, <4>1 DEF Named
    <3>. QED  BY <3>2, <3>3
  <2>. QED  BY <2>1 DEF NamesFound
<1>. QED  BY <1>5, <1>6, <1>7, <1>10

\* A merge moves the issues and leaves an alias, or changes nothing.
LEMMA MergeKeeps ==
  ASSUME PdInv, NEW r \in PdRequests, NEW keyed \in BOOLEAN, MergeProjectRows(r, keyed)
  PROVE  PdInv'
<1>1. PICK c, s, from, to : c = pdReq[r] /\ s = pdReq[r].slug /\ from = ProjectWithSlug(pdReq[r].slug) /\ to = ProjectWithSlug(pdReq[r].to)
  OBVIOUS
<1>2. PICK ok \in BOOLEAN :
        ok = (/\ from # NoRow /\ to # NoRow /\ s \notin DOMAIN pdAliases /\ ~keyed
              /\ ~(from # to /\ \E i, j \in pdIssues : i.proj = from /\ j.proj = to /\ i.fp = j.fp))
  OBVIOUS
<1>3. c \in PdCall /\ UNCHANGED <<pdNextId, pdGroups, pdNextGroup, pdNow, pdCache, pdAcked, pdRaced, pdOps, pdFaults>>
  BY <1>1, CallIs DEF MergeProjectRows
<1>4. CASE ~ok
  <2>1. RequestEnds(r) /\ UNCHANGED <<pdIssues, pdAliases, pdRows, pdCommits, pdNames, pdLostNames, pdMergedIn>>
    BY <1>1, <1>2, <1>4 DEF MergeProjectRows
  <2>2. UNCHANGED <<pdTable, pdNow, pdCache, pdCommits, pdAcked, pdHistory>>
    BY <1>3, <2>1 DEF pdTable, pdHistory
  <2>. QED  BY <2>1, <2>2, CallStep, IdleCall, IdleOk DEF RequestEnds, PdInv, UsageInv
<1>5. CASE ok
  <2>1. /\ pdIssues' = IssuesAfterMerge(from, to)
        /\ pdAliases' = AliasesAfterMerge(s, from, to)
        /\ pdRows' = DropKeys(pdRows, {from})
        /\ pdCommits' = pdCommits + 1
        /\ pdLostNames' = pdLostNames \cup (IF from = to THEN NamesOf(from) ELSE NamesOf(from) \ {s})
        /\ pdNames' = NamesAfterMerge(from, to)
        /\ pdMergedIn' = pdMergedIn \cup {to}
        /\ pdReq' = [pdReq EXCEPT ![r].pc = "invalidate", ![r].ver = pdCommits']
    BY <1>1, <1>2, <1>5 DEF MergeProjectRows
  <2>2. to \in DOMAIN pdRows /\ from = ProjectWithSlug(s) /\ from # NoRow /\ s \notin DOMAIN pdAliases
    BY <1>1, <1>2, <1>5, SlugFinds DEF PdInv
  <2>3. TableTypes' /\ SlugsUnique' /\ NamesFound' /\ PrefixInv' /\ NumberInv'
    BY <1>3, <2>1, <2>2, ProjectMerged
  <2>4. PICK h : h = [[c EXCEPT !.pc = "invalidate"] EXCEPT !.ver = pdCommits + 1]
    OBVIOUS
  <2>5. pdReq' = [pdReq EXCEPT ![r] = h]
    BY <1>1, <2>1, <2>4 DEF PdInv, PdCallInv
  <2>6. h \in PdCall /\ CallOk(h)'
    BY <1>3, <2>1, <2>4, InvalidatingCall
  <2>7. \A p \in DOMAIN pdRows' : p < pdNextId => p \in DOMAIN pdRows /\ pdRows'[p].prefix = pdRows[p].prefix
    BY <2>1 DEF DropKeys
  <2>8. pdCommits' \in {pdCommits, pdCommits + 1} /\ pdNextId' \in {pdNextId, pdNextId + 1}
    BY <1>3, <2>1
  <2>. QED  BY <1>3, <2>3, <2>5, <2>6, <2>7, <2>8, TableStep
<1>. QED  BY <1>4, <1>5

\* What belongs to a project goes, with its row or before it.
LEMMA ProjectGone ==
  ASSUME PdInv, NEW p, pdRows' = pdRows \/ pdRows' = DropKeys(pdRows, {p}), pdIssues' = {i \in pdIssues : i.proj # p},
         pdAliases' = DropKeys(pdAliases, AliasesTo(p)), NEW kept, pdNames' = DropKeys(pdNames, NamesOf(p) \ kept),
         kept = {} \/ (pdRows' = pdRows /\ p \in DOMAIN pdRows /\ kept = {pdRows[p].slug}),
         UNCHANGED <<pdNextId, pdGroups, pdNextGroup, pdLostNames, pdRaced, pdMergedIn>>
  PROVE  /\ TableTypes' /\ SlugsUnique' /\ NamesFound' /\ PrefixInv' /\ NumberInv'
         /\ \A q \in DOMAIN pdRows' : q < pdNextId => q \in DOMAIN pdRows /\ pdRows'[q].prefix = pdRows[q].prefix
<1>1. /\ DOMAIN pdRows' \subseteq DOMAIN pdRows /\ \A q \in DOMAIN pdRows' : pdRows'[q] = pdRows[q]
      /\ \A q \in DOMAIN pdRows : q # p => q \in DOMAIN pdRows'
      /\ pdRows' \in [DOMAIN pdRows' -> PdRow]
  BY DEF DropKeys, PdInv, TableTypes
<1>2. pdIssues \subseteq [proj : DOMAIN pdRows, num : Nat, fp : PdFingerprints]
  BY DEF PdInv, TableTypes
<1>3. TableTypes'
  <2>1. pdIssues' \subseteq [proj : DOMAIN pdRows', num : Nat, fp : PdFingerprints]
    BY <1>1, <1>2
  <2>. QED  BY <1>1, <2>1 DEF PdInv, TableTypes
<1>4. SlugsUnique' /\ PrefixInv'
  BY <1>1, FewerRows
<1>5. NumberInv'
  BY <1>1, <1>2 DEF PdInv, NumberInv
<1>6. NamesFound'
  <2>1. ASSUME NEW x \in DOMAIN pdNames' \ pdLostNames' PROVE Named(x, pdNames[x])'
    <3>0. /\ x \in DOMAIN pdNames \ pdLostNames /\ pdNames'[x] = pdNames[x]
          /\ pdNames[x] # p \/ x \in kept
      BY <2>1 DEF DropKeys, NamesOf
    <3>a. CASE pdNames[x] = p
      <4>1. pdRows' = pdRows /\ p \in DOMAIN pdRows /\ x = pdRows[p].slug
        BY <3>0, <3>a
      <4>. QED  BY <3>0, <3>a, <4>1 DEF Named
    <3>b. CASE pdNames[x] # p
      <4>1. Named(x, pdNames[x])
        BY <3>0 DEF PdInv, NamesFound
      <4>2. x \in DOMAIN pdAliases /\ pdAliases[x] = pdNames[x] => x \in DOMAIN pdAliases' /\ pdAliases'[x] = pdNames[x]
        BY <3>b DEF DropKeys, AliasesTo
      <4>. QED  BY <1>1, <3>0, <3>b, <4>1, <4>2 DEF Named
    <3>. QED  BY <3>a, <3>b
  <2>. QED  BY <2>1 DEF NamesFound
<1>. QED  BY <1>1, <1>3, <1>4, <1>5, <1>6

\* The first half of a deletion: what hangs on the project goes.
LEMMA DeleteKeeps ==
  ASSUME PdInv, NEW r \in PdRequests, DeleteProjectRows(r)
  PROVE  PdInv'
<1>1. PICK c, p : c = pdReq[r] /\ p = ProjectWithSlug(pdReq[r].slug)
  OBVIOUS
<1>2. /\ c \in PdCall /\ CallOk(c) /\ p \in Nat
      /\ UNCHANGED <<pdRows, pdNextId, pdGroups, pdNextGroup, pdNow, pdCache, pdCommits, pdAcked, pdLostNames, pdRaced, pdMergedIn>>
  BY <1>1, CallIs, SlugFinds DEF DeleteProjectRows, PdInv
<1>3. CASE p = NoRow
  <2>1. RequestEnds(r) /\ UNCHANGED <<pdTable, pdNow, pdCache, pdCommits, pdAcked, pdHistory>>
    BY <1>1, <1>2, <1>3 DEF DeleteProjectRows, pdTable, pdHistory
  <2>. QED  BY <2>1, CallStep, IdleCall, IdleOk DEF RequestEnds, PdInv, UsageInv
<1>4. CASE p # NoRow
  <2>1. /\ pdIssues' = {i \in pdIssues : i.proj # p} /\ pdAliases' = DropKeys(pdAliases, AliasesTo(p))
        /\ pdNames' = DropKeys(pdNames, NamesOf(p) \ {c.slug}) /\ pdReq' = [pdReq EXCEPT ![r].pc = "row", ![r].id = p]
        /\ p \in DOMAIN pdRows /\ {c.slug} = {pdRows[p].slug}
    BY <1>1, <1>4, SlugFinds DEF DeleteProjectRows, PdInv
  <2>2. PICK h : h = [[c EXCEPT !.pc = "row"] EXCEPT !.id = p]
    OBVIOUS
  <2>3. pdReq' = [pdReq EXCEPT ![r] = h]
    BY <1>1, <2>1, <2>2 DEF PdInv, PdCallInv
  <2>4. h \in PdCall /\ h.pc = "row" /\ h.ver = c.ver
    BY <1>2, <2>2 DEF PdCall
  <2>5. CallOk(h)'
    BY <1>2, <2>4 DEF CallOk
  <2>6. /\ TableTypes' /\ SlugsUnique' /\ NamesFound' /\ PrefixInv' /\ NumberInv'
        /\ \A q \in DOMAIN pdRows' : q < pdNextId => q \in DOMAIN pdRows /\ pdRows'[q].prefix = pdRows[q].prefix
    BY <1>2, <2>1, ProjectGone
  <2>7. pdCommits' \in {pdCommits, pdCommits + 1} /\ pdNextId' \in {pdNextId, pdNextId + 1}
    BY <1>2
  <2>. QED  BY <1>2, <2>3, <2>4, <2>5, <2>6, <2>7, TableStep
<1>. QED  BY <1>3, <1>4

\* The second half: the row itself goes.
LEMMA DeleteRowKeeps ==
  ASSUME PdInv, NEW r \in PdRequests, NEW keyed \in BOOLEAN, DeleteProjectRow(r, keyed)
  PROVE  PdInv'
<1>1. PICK c, p, h : c = pdReq[r] /\ p = pdReq[r].id /\ h = [[pdReq[r] EXCEPT !.pc = "invalidate"] EXCEPT !.ver = pdCommits + 1]
  OBVIOUS
<1>2. UNCHANGED <<pdNextId, pdGroups, pdNextGroup, pdNow, pdCache, pdAcked, pdLostNames, pdRaced, pdMergedIn>>
  BY DEF DeleteProjectRow
<1>3. CASE keyed
  <2>1. RequestEnds(r) /\ UNCHANGED <<pdTable, pdNow, pdCache, pdCommits, pdAcked, pdHistory>>
    BY <1>2, <1>3 DEF DeleteProjectRow, pdTable, pdHistory
  <2>. QED  BY <2>1, CallStep, IdleCall, IdleOk DEF RequestEnds, PdInv, UsageInv
<1>4. CASE ~keyed
  <2>1. /\ pdRows' = DropKeys(pdRows, {p}) /\ pdIssues' = {i \in pdIssues : i.proj # p}
        /\ pdAliases' = DropKeys(pdAliases, AliasesTo(p)) /\ pdNames' = DropKeys(pdNames, NamesOf(p) \ {})
        /\ pdCommits' = pdCommits + 1
        /\ pdReq' = [pdReq EXCEPT ![r].pc = "invalidate", ![r].ver = pdCommits']
    BY <1>1, <1>4 DEF DeleteProjectRow
  <2>2. pdReq' = [pdReq EXCEPT ![r] = h]
    BY <1>1, <1>2, <2>1 DEF PdInv, PdCallInv
  <2>3. h \in PdCall /\ CallOk(h)'
    BY <1>1, <1>2, <2>1, CallIs, InvalidatingCall
  <2>4. /\ TableTypes' /\ SlugsUnique' /\ NamesFound' /\ PrefixInv' /\ NumberInv'
        /\ \A q \in DOMAIN pdRows' : q < pdNextId => q \in DOMAIN pdRows /\ pdRows'[q].prefix = pdRows[q].prefix
    BY <1>2, <2>1, ProjectGone
  <2>5. pdCommits' \in {pdCommits, pdCommits + 1} /\ pdNextId' \in {pdNextId, pdNextId + 1}
    BY <1>2, <2>1
  <2>. QED  BY <1>2, <2>2, <2>3, <2>4, <2>5, TableStep
<1>. QED  BY <1>3, <1>4

\* An alias is a name of its project unless a slug stands before it.
LEMMA AliasKeeps ==
  ASSUME PdInv, NEW r \in PdRequests, CreateAlias(r)
  PROVE  PdInv'
<1>1. PICK a, p : a = pdReq[r].to /\ p = pdReq[r].id
  OBVIOUS
<1>2. RequestEnds(r) /\ UNCHANGED <<pdRows, pdNextId, pdGroups, pdNextGroup, pdIssues, pdNow, pdCache, pdCommits, pdAcked, pdRaced, pdMergedIn>>
  BY DEF CreateAlias
<1>3. CASE a \in DOMAIN pdAliases \/ p \notin DOMAIN pdRows
  <2>1. UNCHANGED <<pdTable, pdNow, pdCache, pdCommits, pdAcked, pdHistory>>
    BY <1>1, <1>2, <1>3 DEF CreateAlias, pdTable, pdHistory
  <2>. QED  BY <1>2, <2>1, CallStep, IdleCall, IdleOk DEF RequestEnds, PdInv, UsageInv
<1>4. CASE ~(a \in DOMAIN pdAliases \/ p \notin DOMAIN pdRows)
  <2>1. pdAliases' = WithKey(pdAliases, a, p) /\ IF ProjectWithSlug(a) = NoRow THEN GiveName(a, p) ELSE UNCHANGED <<pdNames, pdLostNames>>
    BY <1>1, <1>4 DEF CreateAlias
  <2>2. a \in DOMAIN pdAliases' /\ pdAliases'[a] = p /\ \A x \in DOMAIN pdAliases : x \in DOMAIN pdAliases' /\ pdAliases'[x] = pdAliases[x]
    BY <1>4, <2>1 DEF WithKey
  <2>3. NamesFound'
    <3>1. ASSUME NEW x \in DOMAIN pdNames' \ pdLostNames' PROVE Named(x, pdNames[x])'
      <4>1. CASE x = a /\ ProjectWithSlug(a) = NoRow
        <5>1. pdNames'[x] = p
          BY <2>1, <4>1 DEF GiveName, WithKey
        <5>2. \A q \in DOMAIN pdRows : pdRows[q].slug # a
          BY <4>1, SlugFinds DEF PdInv
        <5>. QED  BY <1>2, <2>2, <4>1, <5>1, <5>2 DEF Named
      <4>2. CASE ~(x = a /\ ProjectWithSlug(a) = NoRow)
        <5>1. x \in DOMAIN pdNames \ pdLostNames /\ pdNames'[x] = pdNames[x]
          BY <2>1, <3>1, <4>2 DEF GiveName, WithKey
        <5>2. Named(x, pdNames[x])
          BY <5>1 DEF PdInv, NamesFound
        <5>. QED  BY <1>2, <2>2, <5>1, <5>2 DEF Named
      <4>. QED  BY <4>1, <4>2
    <3>. QED  BY <3>1 DEF NamesFound
  <2>4. TableTypes' /\ SlugsUnique' /\ PrefixInv' /\ NumberInv'
    BY <1>2 DEF PdInv, TableTypes, SlugsUnique, PrefixInv, NumberInv
  <2>5. \A q \in DOMAIN pdRows' : q < pdNextId => q \in DOMAIN pdRows /\ pdRows'[q].prefix = pdRows[q].prefix
    BY <1>2
  <2>6. pdReq' = [pdReq EXCEPT ![r] = PdIdle] /\ CallOk(PdIdle)' /\ PdIdle \in PdCall
    BY <1>2, IdleCall, EndedCall DEF RequestEnds, PdInv
  <2>. QED  BY <1>2, <2>3, <2>4, <2>5, <2>6, TableStep
<1>. QED  BY <1>3, <1>4

\* An alias is removed.
LEMMA UnaliasKeeps ==
  ASSUME PdInv, NEW r \in PdRequests, DeleteAlias(r)
  PROVE  PdInv'
<1>1. PICK a : a = pdReq[r].slug
  OBVIOUS
<1>2. /\ RequestEnds(r)
      /\ UNCHANGED <<pdRows, pdNextId, pdGroups, pdNextGroup, pdIssues, pdNow, pdCache, pdCommits, pdAcked, pdLostNames, pdRaced, pdMergedIn>>
      /\ pdAliases' = DropKeys(pdAliases, {a})
      /\ pdNames' = IF ProjectWithSlug(a) = NoRow THEN DropKeys(pdNames, {a}) ELSE pdNames
  BY <1>1 DEF DeleteAlias
<1>3. NamesFound'
  <2>1. ASSUME NEW x \in DOMAIN pdNames' \ pdLostNames' PROVE Named(x, pdNames[x])'
    <3>1. x \in DOMAIN pdNames \ pdLostNames /\ pdNames'[x] = pdNames[x] /\ (x = a => ProjectWithSlug(a) # NoRow)
      BY <1>2, <2>1 DEF DropKeys
    <3>2. Named(x, pdNames[x])
      BY <3>1 DEF PdInv, NamesFound
    <3>3. CASE x = a
      <4>1. ~ \A q \in DOMAIN pdRows : pdRows[q].slug # a
        BY <3>1, <3>3, SlugFinds DEF PdInv
      <4>. QED  BY <1>2, <3>1, <3>2, <3>3, <4>1 DEF Named
    <3>4. CASE x # a
      <4>1. x \in DOMAIN pdAliases => x \in DOMAIN pdAliases' /\ pdAliases'[x] = pdAliases[x]
        BY <1>2, <3>4 DEF DropKeys
      <4>. QED  BY <1>2, <3>1, <3>2, <4>1 DEF Named
    <3>. QED  BY <3>3, <3>4
  <2>. QED  BY <2>1 DEF NamesFound
<1>4. TableTypes' /\ SlugsUnique' /\ PrefixInv' /\ NumberInv'
  BY <1>2 DEF PdInv, TableTypes, SlugsUnique, PrefixInv, NumberInv
<1>5. \A q \in DOMAIN pdRows' : q < pdNextId => q \in DOMAIN pdRows /\ pdRows'[q].prefix = pdRows[q].prefix
  BY <1>2
<1>6. pdReq' = [pdReq EXCEPT ![r] = PdIdle] /\ CallOk(PdIdle)' /\ PdIdle \in PdCall
  BY <1>2, IdleCall, EndedCall DEF RequestEnds, PdInv
<1>. QED  BY <1>2, <1>3, <1>4, <1>5, <1>6, TableStep

\* A group comes, goes, or is a project's: no slug, prefix or counter changes.
LEMMA GroupsKeep ==
  ASSUME PdInv, NEW r \in PdRequests, CreateGroup(r) \/ DeleteGroup(r) \/ AssignProjectToGroup(r) \/ RemoveProjectFromGroup(r)
  PROVE  PdInv'
<1>1. /\ RequestEnds(r)
      /\ UNCHANGED <<pdNextId, pdAliases, pdIssues, pdNow, pdCache, pdCommits, pdAcked, pdHistory>>
  BY DEF CreateGroup, DeleteGroup, AssignProjectToGroup, RemoveProjectFromGroup
<1>2. pdRows \in [DOMAIN pdRows -> PdRow] /\ DOMAIN pdRows \subseteq Nat /\ pdNextGroup \in Nat /\ \A g \in DOMAIN pdGroups : pdGroups[g] \in Nat
  BY DEF PdInv, TableTypes
<1>3. PICK p, n : p = ProjectWithSlug(pdReq[r].slug) /\ n = pdReq[r].id
  OBVIOUS
<1>4. n \in Nat /\ (p # NoRow => p \in DOMAIN pdRows)
  BY <1>3, CallIs, SlugFinds DEF PdInv
<1>5. /\ DOMAIN pdRows' = DOMAIN pdRows /\ pdRows' \in [DOMAIN pdRows -> PdRow]
      /\ \A q \in DOMAIN pdRows : pdRows'[q].slug = pdRows[q].slug /\ pdRows'[q].prefix = pdRows[q].prefix
                                  /\ pdRows'[q].counter = pdRows[q].counter
      /\ pdNextGroup' \in Nat /\ \A g \in DOMAIN pdGroups' : pdGroups'[g] \in Nat
  <2>1. CASE CreateGroup(r)
    <3>1. PICK g : g = pdReq[r].to
      OBVIOUS
    <3>2. pdRows' = pdRows
      BY <2>1 DEF CreateGroup
    <3>3. (pdGroups' = pdGroups /\ pdNextGroup' = pdNextGroup) \/ (pdGroups' = WithKey(pdGroups, g, pdNextGroup) /\ pdNextGroup' = pdNextGroup + 1)
      BY <2>1, <3>1 DEF CreateGroup
    <3>4. pdNextGroup' \in Nat /\ \A x \in DOMAIN pdGroups' : pdGroups'[x] \in Nat
      BY <1>2, <3>3 DEF WithKey
    <3>. QED  BY <1>2, <3>2, <3>4
  <2>2. CASE DeleteGroup(r)
    <3>1. PICK g, x : g = pdReq[r].to /\ x = pdGroups[pdReq[r].to]
      OBVIOUS
    <3>2. pdNextGroup' = pdNextGroup
      BY <2>2 DEF DeleteGroup
    <3>3. \/ pdGroups' = pdGroups /\ pdRows' = pdRows
          \/ /\ pdGroups' = DropKeys(pdGroups, {g})
             /\ pdRows' = [q \in DOMAIN pdRows |-> [pdRows[q] EXCEPT !.group = IF @ = x THEN NoGroup ELSE @]]
      BY <2>2, <3>1 DEF DeleteGroup
    <3>4. \A y \in DOMAIN pdGroups' : pdGroups'[y] \in Nat
      BY <1>2, <3>3 DEF DropKeys
    <3>5. CASE pdRows' = pdRows
      BY <1>2, <3>2, <3>4, <3>5
    <3>6. CASE pdRows' = [q \in DOMAIN pdRows |-> [pdRows[q] EXCEPT !.group = IF @ = x THEN NoGroup ELSE @]]
      <4>1. ASSUME NEW q \in DOMAIN pdRows
            PROVE  /\ pdRows'[q] \in PdRow /\ pdRows'[q].slug = pdRows[q].slug /\ pdRows'[q].prefix = pdRows[q].prefix
                   /\ pdRows'[q].counter = pdRows[q].counter
        <5>1. PICK w, y : w = pdRows[q] /\ y = IF pdRows[q].group = x THEN NoGroup ELSE pdRows[q].group
          OBVIOUS
        <5>2. w \in PdRow /\ y \in Nat
          BY <1>2, <5>1 DEF PdRow, NoGroup
        <5>3. pdRows'[q] = [w EXCEPT !.group = y]
          BY <3>6, <5>1
        <5>. QED  BY <5>1, <5>2, <5>3 DEF PdRow
      <4>2. DOMAIN pdRows' = DOMAIN pdRows /\ pdRows' \in [DOMAIN pdRows -> PdRow]
        BY <3>6, <4>1
      <4>. QED  BY <1>2, <3>2, <3>4, <4>1, <4>2
    <3>. QED  BY <3>3, <3>5, <3>6
  <2>3. ASSUME NEW y \in Nat, p \in DOMAIN pdRows, pdRows' = [pdRows EXCEPT ![p].group = y], UNCHANGED <<pdGroups, pdNextGroup>>
        PROVE  /\ DOMAIN pdRows' = DOMAIN pdRows /\ pdRows' \in [DOMAIN pdRows -> PdRow]
               /\ \A q \in DOMAIN pdRows : pdRows'[q].slug = pdRows[q].slug /\ pdRows'[q].prefix = pdRows[q].prefix
                                           /\ pdRows'[q].counter = pdRows[q].counter
               /\ pdNextGroup' \in Nat /\ \A g \in DOMAIN pdGroups' : pdGroups'[g] \in Nat
    BY <1>2, <2>3 DEF PdRow
  <2>4. CASE AssignProjectToGroup(r)
    <3>1. UNCHANGED <<pdGroups, pdNextGroup>>
      BY <2>4 DEF AssignProjectToGroup
    <3>2. pdRows' = pdRows \/ (p # NoRow /\ pdRows' = [pdRows EXCEPT ![p].group = n])
      BY <1>3, <2>4 DEF AssignProjectToGroup
    <3>. QED  BY <1>2, <1>4, <2>3, <3>1, <3>2
  <2>5. CASE RemoveProjectFromGroup(r)
    <3>1. UNCHANGED <<pdGroups, pdNextGroup>> /\ NoGroup \in Nat
      BY <2>5 DEF RemoveProjectFromGroup, NoGroup
    <3>2. pdRows' = pdRows \/ (p # NoRow /\ pdRows' = [pdRows EXCEPT ![p].group = NoGroup])
      BY <1>3, <2>5 DEF RemoveProjectFromGroup
    <3>. QED  BY <1>2, <1>4, <2>3, <3>1, <3>2
  <2>. QED  BY <2>1, <2>2, <2>4, <2>5
<1>6. TableTypes'
  BY <1>1, <1>5 DEF PdInv, TableTypes
<1>7. SlugsUnique' /\ NamesFound' /\ PrefixInv'
  BY <1>1, <1>5, RowsAlike DEF pdHistory
<1>8. NumberInv'
  <2>1. \A i \in pdIssues : i.proj \in DOMAIN pdRows
    BY DEF PdInv, TableTypes
  <2>. QED  BY <1>1, <1>5, <2>1 DEF PdInv, NumberInv, pdHistory
<1>9. pdReq' = [pdReq EXCEPT ![r] = PdIdle] /\ CallOk(PdIdle)' /\ PdIdle \in PdCall
  BY <1>1, IdleCall, EndedCall DEF RequestEnds, PdInv
<1>10. \A q \in DOMAIN pdRows' : q < pdNextId => q \in DOMAIN pdRows /\ pdRows'[q].prefix = pdRows[q].prefix
  BY <1>5
<1>. QED  BY <1>1, <1>6, <1>7, <1>8, <1>9, <1>10, TableStep

\* A new issue has the number its project's counter comes to.
LEMMA IssueKeeps ==
  ASSUME PdInv, NEW p, NEW fp \in PdFingerprints, NewIssueRow(p, fp)
  PROVE  PdInv'
<1>1. PICK w, n : w = pdRows[p] /\ n = w.counter + 1
  OBVIOUS
<1>2. /\ p \in DOMAIN pdRows /\ pdRows' = [pdRows EXCEPT ![p].counter = @ + 1]
      /\ UNCHANGED <<pdNextId, pdAliases, pdGroups, pdNextGroup, pdReq, pdNow, pdCache, pdCommits, pdAcked, pdHistory>>
  BY DEF NewIssueRow
<1>3. pdRows \in [DOMAIN pdRows -> PdRow] /\ pdIssues \subseteq [proj : DOMAIN pdRows, num : Nat, fp : PdFingerprints]
  BY DEF PdInv, TableTypes
<1>4. w \in PdRow /\ n \in Nat /\ w.counter \in Nat /\ w.counter < n
  BY <1>1, <1>2, <1>3 DEF PdRow
<1>5. /\ DOMAIN pdRows' = DOMAIN pdRows /\ pdRows' \in [DOMAIN pdRows -> PdRow] /\ pdRows'[p].counter = n
      /\ \A q \in DOMAIN pdRows : pdRows'[q].slug = pdRows[q].slug /\ pdRows'[q].prefix = pdRows[q].prefix
                                  /\ (q # p => pdRows'[q].counter = pdRows[q].counter)
  <2>1. pdRows' = [pdRows EXCEPT ![p] = [w EXCEPT !.counter = n]]
    BY <1>1, <1>2
  <2>. QED  BY <1>1, <1>2, <1>3, <1>4, <2>1 DEF PdRow
<1>6. PICK i : i = [proj |-> p, num |-> n, fp |-> fp]
  OBVIOUS
<1>7. pdIssues' = pdIssues \cup {i}
  BY <1>5, <1>6 DEF NewIssueRow
<1>8. i \in [proj : DOMAIN pdRows, num : Nat, fp : PdFingerprints] /\ i.proj = p /\ i.num = n
  BY <1>2, <1>4, <1>6
<1>9. TableTypes'
  <2>1. pdIssues' \subseteq [proj : DOMAIN pdRows', num : Nat, fp : PdFingerprints]
    BY <1>3, <1>5, <1>7, <1>8
  <2>. QED  BY <1>2, <1>5, <2>1 DEF PdInv, TableTypes
<1>10. SlugsUnique' /\ NamesFound' /\ PrefixInv'
  BY <1>2, <1>5, RowsAlike DEF pdHistory
<1>11. NumberInv'
  <2>1. \A j \in pdIssues : j.proj \in DOMAIN pdRows /\ j.num \in Nat /\ (j.proj \notin pdMergedIn => j.num <= pdRows[j.proj].counter)
    BY <1>3 DEF PdInv, NumberInv
  <2>2. \A j \in pdIssues : j.proj = p /\ p \notin pdMergedIn => j.num < n
    BY <1>1, <1>4, <2>1
  <2>3. ASSUME NEW j \in pdIssues', j.proj \notin pdMergedIn' PROVE j.num <= pdRows'[j.proj].counter
    <3>1. CASE j = i
      BY <1>4, <1>5, <1>8, <3>1
    <3>2. CASE j \in pdIssues /\ j.proj = p
      BY <1>2, <1>4, <1>5, <2>1, <2>2, <2>3, <3>2 DEF pdHistory
    <3>3. CASE j \in pdIssues /\ j.proj # p
      BY <1>2, <1>5, <2>1, <2>3, <3>3 DEF pdHistory
    <3>. QED  BY <1>7, <2>3, <3>1, <3>2, <3>3
  <2>4. ASSUME NEW j \in pdIssues', NEW k \in pdIssues', j.proj \notin pdMergedIn', k.proj = j.proj, k.num = j.num PROVE k = j
    <3>1. CASE j \in pdIssues /\ k \in pdIssues
      BY <1>2, <2>4, <3>1 DEF PdInv, NumberInv, pdHistory
    <3>2. CASE ~(j \in pdIssues /\ k \in pdIssues) /\ j # k
      <4>1. p \notin pdMergedIn /\ ((j = i /\ k \in pdIssues /\ k.proj = p /\ k.num = n) \/ (k = i /\ j \in pdIssues /\ j.proj = p /\ j.num = n))
        BY <1>2, <1>7, <1>8, <2>4, <3>2 DEF pdHistory
      <4>. QED  BY <1>4, <2>2, <4>1
    <3>. QED  BY <3>1, <3>2
  <2>. QED  BY <2>3, <2>4 DEF NumberInv
<1>12. UsageInv'
  BY <1>2, UsageStays DEF PdInv, UsageInv
<1>13. PdCallInv'
  <2>1. TableTypes /\ UsageInv /\ pdNextId' \in Nat /\ pdCommits' \in Nat /\ pdNextId <= pdNextId' /\ pdCommits <= pdCommits'
    BY <1>2 DEF PdInv, TableTypes, UsageInv
  <2>2. \A q \in DOMAIN pdRows' : q < pdNextId => q \in DOMAIN pdRows /\ pdRows'[q].prefix = pdRows[q].prefix
    BY <1>5
  <2>3. ASSUME NEW r \in PdRequests PROVE CallOk(pdReq[r])'
    <3>1. PICK k : k = pdReq[r]
      OBVIOUS
    <3>2. k \in PdCall /\ CallOk(k) /\ pdReq'[r] = k
      BY <1>2, <3>1, CallIs
    <3>3. CallOk(k)'
      BY <2>1, <2>2, <3>2, CallKept
    <3>. QED  BY <3>2, <3>3 DEF CallOk
  <2>. QED  BY <1>2, <2>3 DEF PdInv, PdCallInv
<1>. QED  BY <1>9, <1>10, <1>11, <1>12, <1>13 DEF PdInv

\* The usage counts: read and kept under the mutex, dropped under it.
LEMMA UsageKeeps ==
  ASSUME PdInv, UsageHit \/ UsageRefresh \/ UsageRefreshed \/ UsageStale \/ PdTick
  PROVE  PdInv'
<1>1. UNCHANGED <<pdTable, pdReq, pdCommits, pdAcked, pdHistory>>
  BY DEF UsageHit, UsageRefresh, UsageRefreshed, UsageStale, PdTick, pdCache
<1>2. UsageInv
  BY DEF PdInv
<1>3. UsageInv'
  <2>1. CASE UsageHit
    BY <1>2, <2>1 DEF UsageInv, UsageHit, UsageFresh, UsageIncludesOwnChanges
  <2>2. CASE UsageRefresh
    BY <1>2, <2>2 DEF UsageInv, UsageRefresh, UsageIncludesOwnChanges
  <2>3. CASE UsageRefreshed
    BY <1>2, <2>3 DEF UsageInv, UsageRefreshed, UsageFree, UsageIncludesOwnChanges, NoUsageRefresh
  <2>4. CASE UsageStale
    BY <1>2, <2>4 DEF UsageInv, UsageStale, UsageIncludesOwnChanges, NoUsageRefresh
  <2>5. CASE PdTick
    BY <1>2, <2>5 DEF UsageInv, PdTick, pdCache, UsageIncludesOwnChanges
  <2>. QED  BY <2>1, <2>2, <2>3, <2>4, <2>5
<1>4. PdCallInv'
  <2>1. pdNextId' = pdNextId /\ pdRows' = pdRows /\ pdCommits' = pdCommits /\ pdReq' = pdReq
    BY <1>1 DEF pdTable
  <2>. QED  BY <2>1 DEF PdInv, PdCallInv, CallOk
<1>. QED  BY <1>1, <1>3, <1>4, TableStays DEF PdInv

\* The usage counts are emptied, and the change is acknowledged.
LEMMA InvalidateKeeps ==
  ASSUME PdInv, NEW r \in PdRequests, InvalidateUsage(r)
  PROVE  PdInv'
<1>1. PICK v : v = pdReq[r].ver
  OBVIOUS
<1>2. v \in Nat /\ v <= pdCommits
  BY <1>1, CallIs DEF CallOk
<1>3. /\ pdRefresh = NoUsageRefresh /\ pdUsage' = EmptyUsage /\ pdAcked' = IF v > pdAcked THEN v ELSE pdAcked
      /\ RequestEnds(r) /\ UNCHANGED <<pdTable, pdNow, pdRefresh, pdServed, pdCommits, pdHistory>>
  BY <1>1 DEF InvalidateUsage, MayInvalidate, UsageFree
<1>4. UsageInv'
  BY <1>2, <1>3 DEF PdInv, UsageInv, EmptyUsage, UsageIncludesOwnChanges
<1>5. PdCallInv'
  <2>1. TableTypes /\ UsageInv /\ PdCallInv /\ pdNextId \in Nat /\ pdCommits \in Nat
    BY DEF PdInv, TableTypes, UsageInv
  <2>2. pdNextId' = pdNextId /\ pdRows' = pdRows /\ pdCommits' = pdCommits
    BY <1>3 DEF pdTable
  <2>3. pdNextId' \in Nat /\ pdCommits' \in Nat /\ pdNextId <= pdNextId' /\ pdCommits <= pdCommits'
    BY <2>1, <2>2
  <2>4. \A p \in DOMAIN pdRows' : p < pdNextId => p \in DOMAIN pdRows /\ pdRows'[p].prefix = pdRows[p].prefix
    BY <2>2
  <2>5. pdReq' = [pdReq EXCEPT ![r] = PdIdle] /\ CallOk(PdIdle)' /\ PdIdle \in PdCall
    BY <1>3, <2>1, <2>2, IdleCall, EndedCall DEF RequestEnds
  <2>. QED  BY <2>1, <2>3, <2>4, <2>5, CallsGo
<1>. QED  BY <1>3, <1>4, <1>5, TableStays DEF PdInv

\* How many of the first p projects have p's base: the suffix of the migration.
BaseMates(p) == {q \in 1 .. p : PrefixBase[PdFirst[q]] = PrefixBase[PdFirst[p]]}

\* Of two projects with one base the later has the greater suffix.
LEMMA LaterSuffixGreater ==
  ASSUME NEW p \in DOMAIN PdFirst, NEW q \in DOMAIN PdFirst
  PROVE  /\ Cardinality(BaseMates(p)) \in Nat
         /\ p < q /\ PrefixBase[PdFirst[p]] = PrefixBase[PdFirst[q]] => Cardinality(BaseMates(p)) < Cardinality(BaseMates(q))
<1>1. p \in Nat \ {0} /\ q \in Nat \ {0}
  BY ProjectDirectoryAssumption
<1>2. IsFiniteSet(BaseMates(p)) /\ IsFiniteSet(BaseMates(q))
  <2>1. IsFiniteSet(1 .. p) /\ IsFiniteSet(1 .. q)
    BY <1>1, FS_Interval
  <2>2. BaseMates(p) \subseteq 1 .. p /\ BaseMates(q) \subseteq 1 .. q
    BY DEF BaseMates
  <2>. QED  BY <2>1, <2>2, FS_Subset
<1>3. Cardinality(BaseMates(p)) \in Nat /\ Cardinality(BaseMates(q)) \in Nat
  BY <1>2, FS_CardinalityType
<1>4. ASSUME p < q, PrefixBase[PdFirst[p]] = PrefixBase[PdFirst[q]] PROVE Cardinality(BaseMates(p)) < Cardinality(BaseMates(q))
  <2>1. BaseMates(p) \subseteq BaseMates(q) /\ q \in BaseMates(q) /\ q \notin BaseMates(p)
    BY <1>1, <1>4 DEF BaseMates
  <2>2. BaseMates(p) # BaseMates(q)
    BY <2>1
  <2>3. Cardinality(BaseMates(p)) <= Cardinality(BaseMates(q)) /\ Cardinality(BaseMates(p)) # Cardinality(BaseMates(q))
    BY <1>2, <2>1, <2>2, FS_Subset
  <2>. QED  BY <1>3, <2>3
<1>. QED  BY <1>3, <1>4

\* The projects of the migrated table.
LEMMA DirectoryStarts == PdInit => PdInv
<1>. SUFFICES ASSUME PdInit PROVE PdInv
  OBVIOUS
<1>1. PICK N : N = Len(PdFirst)
  OBVIOUS
<1>2. N \in 0 .. PdMaxProjects /\ DOMAIN PdFirst = 1 .. N /\ (\A p \in 1 .. N : PdFirst[p] \in PdSlugs) /\ PdMaxProjects \in Nat
      /\ PrefixBase \in [PdSlugs -> PdSlugs] /\ \A p, q \in 1 .. N : PdFirst[p] = PdFirst[q] => p = q
  BY <1>1, ProjectDirectoryAssumption
<1>3. /\ DOMAIN pdRows = 1 .. N
      /\ \A p \in 1 .. N : pdRows[p] = [slug |-> PdFirst[p], counter |-> 0, group |-> NoGroup,
                                        prefix |-> <<PrefixBase[PdFirst[p]], Cardinality(BaseMates(p))>>]
      /\ pdRows = [p \in DOMAIN pdRows |-> pdRows[p]]
  BY <1>2 DEF PdInit, BaseMates
<1>4. \A p \in 1 .. N : /\ pdRows[p] \in PdRow /\ pdRows[p].slug = PdFirst[p]
                        /\ pdRows[p].prefix = <<PrefixBase[PdFirst[p]], Cardinality(BaseMates(p))>>
  BY <1>2, <1>3, LaterSuffixGreater DEF PdRow, NoGroup
<1>5. TableTypes
  <2>1. pdNextId = 1 + N /\ pdGroups = <<>> /\ pdNextGroup = 1 /\ pdIssues = {}
    BY <1>1 DEF PdInit
  <2>2. pdNextId \in 1 .. PdMaxProjects + 1 /\ DOMAIN pdRows \subseteq 1 .. pdNextId - 1
    BY <1>2, <1>3, <2>1
  <2>3. pdRows \in [DOMAIN pdRows -> PdRow]
    BY <1>3, <1>4
  <2>. QED  BY <2>1, <2>2, <2>3 DEF TableTypes
<1>6. PdCallInv
  <2>1. CallOk(PdIdle)
    BY IdleOk DEF PdInit
  <2>2. pdReq = [r \in PdRequests |-> PdIdle]
    BY DEF PdInit
  <2>. QED  BY <2>1, <2>2, IdleCall DEF PdCallInv
<1>7. UsageInv
  BY DEF PdInit, UsageInv, EmptyUsage, NoUsageRefresh, UsageIncludesOwnChanges
<1>8. SlugsUnique
  BY <1>2, <1>3, <1>4 DEF SlugsUnique
<1>9. NamesFound
  <2>1. ASSUME NEW s \in DOMAIN pdNames PROVE pdNames[s] \in 1 .. N /\ PdFirst[pdNames[s]] = s
    <3>1. \E p \in DOMAIN PdFirst : PdFirst[p] = s
      BY <2>1 DEF PdInit
    <3>2. pdNames[s] = CHOOSE p \in DOMAIN PdFirst : PdFirst[p] = s
      BY <2>1 DEF PdInit
    <3>. QED  BY <1>2, <3>1, <3>2
  <2>. QED  BY <1>3, <1>4, <2>1 DEF NamesFound, Named
<1>10. PrefixInv
  <2>1. ASSUME NEW p \in 1 .. N, NEW q \in 1 .. N, p # q, pdRows[p].prefix = pdRows[q].prefix PROVE FALSE
    <3>1. PrefixBase[PdFirst[p]] = PrefixBase[PdFirst[q]] /\ Cardinality(BaseMates(p)) = Cardinality(BaseMates(q))
      BY <1>4, <2>1
    <3>2. Cardinality(BaseMates(p)) \in Nat /\ Cardinality(BaseMates(q)) \in Nat
      BY <1>2, LaterSuffixGreater
    <3>3. CASE p < q
      BY <1>2, <3>1, <3>2, <3>3, LaterSuffixGreater
    <3>4. CASE q < p
      BY <1>2, <3>1, <3>2, <3>4, LaterSuffixGreater
    <3>. QED  BY <1>2, <2>1, <3>3, <3>4
  <2>. QED  BY <1>3, <2>1 DEF PrefixInv
<1>11. NumberInv
  BY DEF PdInit, NumberInv
<1>. QED  BY <1>5, <1>6, <1>7, <1>8, <1>9, <1>10, <1>11 DEF PdInv

\* The routes.
LEMMA RoutesKeep ==
  ASSUME PdInv, NEW r \in PdRequests,
         \/ \E s \in PdSlugs : ServeProjectRoute(r, s) \/ ResolveProjectHeader(r, s)
         \/ \E s, t \in PdSlugs : RenameOrMerge(r, s, t) \/ ServeAliases(r, s, t)
         \/ \E s \in PdSlugs, g \in PdGroups : ServeGroupRoute(r, s, g)
  PROVE  PdInv'
<1>1. ASSUME NEW op, NEW s \in PdSlugs, NEW t \in PdSlugs, AcceptRequest(r, op, s, t) PROVE PdInv'
  BY <1>1, AcceptKeeps
<1>2. ASSUME NEW op \in {"assign", "remove", "group", "ungroup"}, NEW s \in PdSlugs \cup {""}, NEW g \in PdGroups, AcceptRequest(r, op, s, g)
      PROVE  PdInv'
  <2>1. op \notin {"create", "ensure", "rename"} /\ op # "rename"
    BY <1>2
  <2>. QED  BY <1>2, <2>1, AcceptKeeps
<1>3. CASE \E s \in PdSlugs : ServeProjectRoute(r, s) \/ ResolveProjectHeader(r, s)
  BY <1>1, <1>3 DEF ServeProjectRoute, ResolveProjectHeader
<1>4. CASE \E s, t \in PdSlugs : RenameOrMerge(r, s, t) \/ ServeAliases(r, s, t)
  BY <1>1, <1>4 DEF RenameOrMerge, ServeAliases
<1>5. CASE \E s \in PdSlugs, g \in PdGroups : ServeGroupRoute(r, s, g)
  BY <1>2, <1>5 DEF ServeGroupRoute
<1>. QED  BY <1>3, <1>4, <1>5

\* No step breaks the invariant.
LEMMA DirectoryStep == PdInv /\ [PdNext]_pdVars => PdInv'
<1>. SUFFICES ASSUME PdInv, [PdNext]_pdVars PROVE PdInv'
  OBVIOUS
<1>1. ASSUME NEW r \in PdRequests, ProjectRequest(r) PROVE PdInv'
  BY <1>1, EnsureKeeps, ChooseKeeps, CreateKeeps, RenameKeeps, MergeKeeps, DeleteKeeps, DeleteRowKeeps, InvalidateKeeps DEF ProjectRequest
<1>2. ASSUME NEW r \in PdRequests, AliasOrGroupRequest(r) PROVE PdInv'
  BY <1>2, LookUpKeeps, AliasKeeps, UnaliasKeeps, GroupsKeep DEF AliasOrGroupRequest
<1>3. CASE \E p \in 1 .. PdMaxProjects, fp \in PdFingerprints : NewIssueRow(p, fp)
  BY <1>3, IssueKeeps
<1>4. CASE UsageHit \/ UsageRefresh \/ UsageRefreshed \/ UsageStale \/ PdTick
  BY <1>4, UsageKeeps
<1>5. CASE UNCHANGED pdVars
  <2>1. UNCHANGED <<pdTable, pdReq, pdNow, pdCache, pdCommits, pdAcked, pdHistory>>
    BY <1>5 DEF pdVars
  <2>2. UsageInv'
    BY <2>1, UsageStays DEF PdInv, UsageInv
  <2>3. PdCallInv'
    <3>1. pdNextId' = pdNextId /\ pdRows' = pdRows /\ pdCommits' = pdCommits /\ pdReq' = pdReq
      BY <2>1 DEF pdTable
    <3>. QED  BY <3>1 DEF PdInv, PdCallInv, CallOk
  <2>. QED  BY <2>1, <2>2, <2>3, TableStays DEF PdInv
<1>. QED  BY <1>1, <1>2, <1>3, <1>4, <1>5, RoutesKeep DEF PdNext

\* What a client of the directory sees follows from what the tables keep.
LEMMA DirectoryIsSound == PdInv => DirectorySound
<1>. SUFFICES ASSUME PdInv PROVE DirectorySound
  OBVIOUS
<1>1. SharedIdHasACause
  <2>1. ASSUME NEW i \in pdIssues, NEW j \in pdIssues, i # j, DisplayId(i) = DisplayId(j)
        PROVE  IF i.proj = j.proj THEN i.proj \in pdMergedIn ELSE {i.proj, j.proj} \cap pdRaced # {}
    <3>1. pdRows[i.proj].prefix = pdRows[j.proj].prefix /\ i.num = j.num /\ i.proj \in DOMAIN pdRows /\ j.proj \in DOMAIN pdRows
      BY <2>1 DEF DisplayId, PdInv, TableTypes
    <3>2. CASE i.proj = j.proj
      BY <2>1, <3>1, <3>2 DEF PdInv, NumberInv
    <3>3. CASE i.proj # j.proj
      BY <3>1, <3>3 DEF PdInv, PrefixInv
    <3>. QED  BY <3>2, <3>3
  <2>. QED  BY <2>1 DEF SharedIdHasACause
<1>2. NamesKeepReaching
  BY FoundReaches DEF PdInv
<1>. QED  BY <1>1, <1>2 DEF DirectorySound, PdInv, UsageInv

\* Whatever the requests and in whatever order their statements run: two issues
\* share a display id only when a merge or a race of two creations brought them
\* together, a name given and not lost in a merge reaches its project, and the
\* usage a client is shown includes every change that had answered before.
THEOREM DirectoryStaysSound == PdSpec => []DirectorySound
<1>1. PdInit => PdInv
  BY DirectoryStarts
<1>2. PdInv /\ [PdNext]_pdVars => PdInv'
  BY DirectoryStep
<1>3. PdInv => DirectorySound
  BY DirectoryIsSound
<1>. QED  BY <1>1, <1>2, <1>3, PTL DEF PdSpec

----------------------------------------------------------------------------
(* The checkpoint loop.  The bound on the WAL speaks of one state; what    *)
(* keeps it is an account of what may still be written before a truncation *)
(* must succeed: the time until the next tick, from there UntilTruncate    *)
(* (the ticks before the next truncating one), and UntilBackstop (the      *)
(* periods until enough of those have failed).  The backstop itself cannot *)
(* be blocked: a reader that holds it up opened before it started, or      *)
(* before the whole WAL was in the file.                                   *)

WalLimit == Max({BackstopAfter * Period, BackstopFrames + Period})
AtLeastZero(n) == IF n > 0 THEN n ELSE 0
UntilTruncate(tick) == (TruncateEvery - 1 - (tick % TruncateEvery)) * CkInterval
UntilBackstop(failed) == AtLeastZero(BackstopAfter - 1 - failed) * Period
Unwritten == IF ckWrote THEN 0 ELSE 1
Coming == UntilTruncate(ckTick) + AtLeastZero(ckDue - ckNow) + Unwritten

CkTypes ==
  /\ ckNow \in Nat /\ ckDue \in Nat /\ ckTick \in Nat /\ ckFailed \in Nat /\ ckWal \in Nat /\ ckSlack \in Nat
  /\ ckWrote \in BOOLEAN /\ ckDue <= ckNow + CkInterval
  /\ ckLoop \in [pc : {"idle", "vacuum", "truncate", "pause", "failed", "backstop"}, until : Nat, giveUp : Nat]

\* Between ticks: all that comes before the backstop fits.
CalmInv == ckLoop.pc \in {"idle", "vacuum"} => ckWal + Coming + UntilBackstop(ckFailed) <= WalLimit + ckSlack + 1

\* Inside the budget of a truncating tick.
TickEnds == IF ckLoop.pc = "pause" THEN ckLoop.giveUp ELSE ckLoop.until
TryInv == ckLoop.pc \in {"truncate", "pause"} =>
  /\ ckTick % TruncateEvery = 0
  /\ ckLoop.pc = "pause" => ckLoop.until < TickEnds /\ ckNow <= ckLoop.until
  /\ ckNow < TickEnds
  /\ ckWal + Unwritten + (TickEnds - 1 - ckNow) + UntilBackstop(ckFailed) <= WalLimit + ckSlack + TickBudget
  /\ ckWal + Unwritten + (ckDue - ckNow) + UntilBackstop(ckFailed) <= WalLimit + ckSlack + 1 + CkInterval

\* A failed tick has used up a period of `UntilBackstop`, or the backstop is due.
FailedInv == ckLoop.pc = "failed" =>
  /\ ckTick % TruncateEvery = 0
  /\ ckWal <= WalLimit + ckSlack + TickBudget
  /\ ckWal + Coming + UntilBackstop(ckFailed) <= WalLimit + ckSlack + 1 + (IF ckFailed >= BackstopAfter THEN Period ELSE 0)

\* The backstop's wait: readers from before it are gone after SnapshotMax, and
\* those that came before the last frame was copied after as long again.
WaitStart == ckLoop.giveUp - BackstopWait
BackstopInv == ckLoop.pc = "backstop" =>
  /\ ckFailed >= BackstopAfter /\ ckWal <= WalLimit + ckSlack + TickBudget
  /\ WaitStart <= ckNow /\ ckNow <= WaitStart + 2 * SnapshotMax
  /\ ckNow > WaitStart + SnapshotMax => ckBack = ckWal
  /\ \A r \in Reading : /\ ckSnap[r].since > WaitStart => ckSnap[r].mark = ckWal
                        /\ ckSnap[r].since > WaitStart + SnapshotMax => ckSnap[r].onFile

SnapInv ==
  /\ ckSnap \in [CkReaders -> [pc : {"none", "open", "retrying", "failed"}, mark : Int, onFile : BOOLEAN, since : Int, tries : Int]]
  /\ \A r \in Reading : ckSnap[r].since <= ckNow /\ ckNow <= ckSnap[r].since + SnapshotMax

FramesInv == CalmInv /\ TryInv /\ FailedInv
CkInv == CkTypes /\ SnapInv /\ FramesInv /\ BackstopInv

\* What the default settings have: readers that leave in time, and a tick's
\* budget within the interval.
CkTimely == 2 * SnapshotMax < BackstopWait /\ TickBudget <= CkInterval

----------------------------------------------------------------------------

\* The larger of the two amounts a backstop waits for.
LEMMA WalLimitFacts ==
  /\ Period \in Nat \ {0} /\ BackstopAfter * Period \in Nat /\ WalLimit \in Nat
  /\ BackstopAfter * Period <= WalLimit /\ BackstopFrames + Period <= WalLimit
<1>1. Period \in Nat \ {0}
  <2>1. \A m, n \in Nat \ {0} : m * n \in Nat \ {0}
    BY SMT
  <2> QED BY <2>1, CkAssumption DEF Period
<1>2. BackstopAfter * Period \in Nat
  <2>1. \A m, n \in Nat : m * n \in Nat
    BY SMT
  <2> QED BY <2>1, <1>1, CkAssumption
<1>3. PICK a \in Nat : a = BackstopAfter * Period
  BY <1>2
<1>4. PICK b \in Nat : b = BackstopFrames + Period
  BY <1>1, CkAssumption
<1>5. PICK x \in {a, b} : x >= a /\ x >= b
  BY SMT
<1>6. \E y \in {a, b} : \A z \in {a, b} : y >= z
  BY <1>5, SMT
<1>7. Max({a, b}) \in {a, b} /\ \A z \in {a, b} : Max({a, b}) >= z
  BY <1>6 DEF Max
<1> QED BY <1>1, <1>3, <1>4, <1>7 DEF WalLimit

\* The periods until the backstop: one less with every failed tick.
LEMMA LaterFacts ==
  ASSUME NEW f \in Nat
  PROVE  /\ UntilBackstop(f) \in Nat /\ UntilBackstop(0) + Period = BackstopAfter * Period
         /\ UntilBackstop(f) <= UntilBackstop(0)
         /\ f >= BackstopAfter => UntilBackstop(f) = 0
         /\ UntilBackstop(f) <= UntilBackstop(f + 1) + Period
         /\ UntilBackstop(f + 1) <= UntilBackstop(f)
         /\ f + 1 < BackstopAfter => UntilBackstop(f) = UntilBackstop(f + 1) + Period
         /\ f + 1 >= BackstopAfter => UntilBackstop(f) = 0
<1>1. Period \in Nat /\ BackstopAfter \in Nat \ {0}
  BY WalLimitFacts, CkAssumption
<1>2. \A m, n \in Nat : m * n \in Nat /\ (m + 1) * n = m * n + n /\ 0 * n = 0
  BY SMT
<1>3. \A g \in Nat : g < BackstopAfter => UntilBackstop(g) = (BackstopAfter - 1 - g) * Period
  BY <1>1, <1>2 DEF UntilBackstop, AtLeastZero
<1>4. \A g \in Nat : g >= BackstopAfter - 1 => UntilBackstop(g) = 0
  BY <1>1, <1>2 DEF UntilBackstop, AtLeastZero
<1>5. \A g \in Nat : UntilBackstop(g) \in Nat
  <2>1. SUFFICES ASSUME NEW g \in Nat PROVE UntilBackstop(g) \in Nat
    OBVIOUS
  <2>2. CASE g < BackstopAfter
    <3>1. BackstopAfter - 1 - g \in Nat
      BY <2>2, <1>1
    <3> QED BY <3>1, <2>2, <1>1, <1>2, <1>3
  <2> QED BY <2>2, <1>1, <1>4
<1>6. UntilBackstop(0) + Period = BackstopAfter * Period
  <2>1. BackstopAfter - 1 \in Nat /\ BackstopAfter = (BackstopAfter - 1) + 1
    BY <1>1
  <2>2. ((BackstopAfter - 1) + 1) * Period = (BackstopAfter - 1) * Period + Period
    BY <2>1, <1>1, <1>2
  <2>3. UntilBackstop(0) = (BackstopAfter - 1) * Period
    <3>1. 0 < BackstopAfter /\ BackstopAfter - 1 - 0 = BackstopAfter - 1
      BY <1>1
    <3> QED BY <3>1, <1>3
  <2> QED BY <2>1, <2>2, <2>3
<1>7. \A g \in Nat : g + 1 < BackstopAfter => UntilBackstop(g) = UntilBackstop(g + 1) + Period
  <2>1. SUFFICES ASSUME NEW g \in Nat, g + 1 < BackstopAfter PROVE UntilBackstop(g) = UntilBackstop(g + 1) + Period
    OBVIOUS
  <2>2. PICK m \in Nat : m = BackstopAfter - 1 - (g + 1) /\ BackstopAfter - 1 - g = m + 1
    BY <2>1, <1>1
  <2>3. (m + 1) * Period = m * Period + Period
    BY <1>1, <1>2
  <2>4. UntilBackstop(g) = (m + 1) * Period /\ UntilBackstop(g + 1) = m * Period
    BY <2>1, <2>2, <1>1, <1>3
  <2> QED BY <2>3, <2>4
<1>8. UntilBackstop(f) <= UntilBackstop(0)
  <2>1. CASE f >= BackstopAfter
    BY <2>1, <1>1, <1>4, <1>5
  <2>2. CASE f < BackstopAfter
    <3>1. PICK m \in Nat : m = BackstopAfter - 1 - f
      BY <2>2, <1>1
    <3>2. \A p, q, n \in Nat : p <= q => p * n <= q * n
      BY SMT
    <3>3. m <= BackstopAfter - 1 /\ BackstopAfter - 1 \in Nat
      BY <3>1, <1>1
    <3>4. UntilBackstop(f) = m * Period /\ UntilBackstop(0) = (BackstopAfter - 1) * Period
      BY <3>1, <2>2, <1>1, <1>3
    <3> QED BY <3>2, <3>3, <3>4, <1>1
  <2> QED BY <2>1, <2>2, <1>1
<1> QED BY <1>1, <1>4, <1>5, <1>6, <1>7, <1>8

\* The remainder grows by one until it starts again.
LEMMA NextRemainder ==
  ASSUME NEW n \in Nat \ {0}, NEW t \in Nat, (t + 1) % n # 0
  PROVE  (t + 1) % n = (t % n) + 1
<1>1. t \div n \in Nat /\ (t + 1) \div n \in Nat
  BY SMT
<1>2. t % n \in 0 .. (n - 1) /\ (t + 1) % n \in 0 .. (n - 1)
  BY SMT
<1>3. t = n * (t \div n) + (t % n) /\ t + 1 = n * ((t + 1) \div n) + ((t + 1) % n)
  BY SMT
<1>4. PICK q \in Nat, r \in 0 .. (n - 1) : q = t \div n /\ r = t % n
  BY <1>1, <1>2
<1>5. PICK p \in Nat, s \in 0 .. (n - 1) : p = (t + 1) \div n /\ s = (t + 1) % n
  BY <1>1, <1>2
<1>6. n * p + s = n * q + r + 1 /\ s # 0
  BY <1>3, <1>4, <1>5
<1>7. p = q
  <2>1. \A x, y \in Nat : x >= y + 1 => n * x >= n * y + n
    <3>1. SUFFICES ASSUME NEW x \in Nat, NEW y \in Nat, x >= y + 1 PROVE n * x >= n * y + n
      OBVIOUS
    <3>2. PICK d \in Nat : x = y + 1 + d
      <4>1. x - y - 1 \in Nat /\ x = y + 1 + (x - y - 1)
        BY <3>1
      <4> QED BY <4>1
    <3>3. n * (y + 1 + d) = n * y + n + n * d /\ n * d \in Nat /\ n * y \in Nat
      BY SMT
    <3> QED BY <3>2, <3>3
  <2>2. n * p \in Nat /\ n * q \in Nat
    BY SMT
  <2>3. CASE p >= q + 1
    <3>1. n * p >= n * q + n
      BY <2>1, <2>3
    <3> QED BY <3>1, <2>2, <1>6
  <2>4. CASE q >= p + 1
    <3>1. n * q >= n * p + n
      BY <2>1, <2>4
    <3> QED BY <3>1, <2>2, <1>6
  <2> QED BY <2>3, <2>4
<1>8. n * p \in Nat
  BY SMT
<1> QED BY <1>4, <1>5, <1>6, <1>7, <1>8

\* The time of the ticks before the next truncating one.
LEMMA RestFacts ==
  ASSUME NEW t \in Nat
  PROVE  /\ UntilTruncate(t) \in Nat /\ UntilTruncate(t) + CkInterval <= Period
         /\ (t + 1) % TruncateEvery # 0 => UntilTruncate(t) = UntilTruncate(t + 1) + CkInterval
         /\ t % TruncateEvery = 0 => UntilTruncate(t) + CkInterval = Period
         /\ 0 % TruncateEvery = 0
<1>1. TruncateEvery \in Nat \ {0} /\ CkInterval \in Nat \ {0}
  BY CkAssumption
<1>2. \A m, n \in Nat : m * n \in Nat /\ (m + 1) * n = m * n + n
  BY SMT
<1>3. \A u \in Nat : u % TruncateEvery \in 0 .. (TruncateEvery - 1)
  BY <1>1, SMT
<1>4. PICK m \in Nat : m = TruncateEvery - 1 - (t % TruncateEvery)
  BY <1>1, <1>3
<1>5. UntilTruncate(t) = m * CkInterval /\ m * CkInterval \in Nat /\ (m + 1) * CkInterval = m * CkInterval + CkInterval
  BY <1>1, <1>2, <1>4 DEF UntilTruncate
<1>6. m + 1 <= TruncateEvery
  BY <1>1, <1>3, <1>4
<1>7. (m + 1) * CkInterval <= TruncateEvery * CkInterval
  <2>1. \A p, q, n \in Nat : p <= q => p * n <= q * n
    BY SMT
  <2> QED BY <2>1, <1>1, <1>6
<1>8. t % TruncateEvery = 0 => m + 1 = TruncateEvery
  BY <1>1, <1>4
<1>9. 0 % TruncateEvery = 0
  BY <1>1, SMT
<1>10. ASSUME (t + 1) % TruncateEvery # 0 PROVE UntilTruncate(t) = UntilTruncate(t + 1) + CkInterval
  <2>1. (t + 1) % TruncateEvery = (t % TruncateEvery) + 1
    BY <1>10, <1>1, NextRemainder
  <2>2. PICK k \in Nat : k = TruncateEvery - 1 - ((t + 1) % TruncateEvery)
    BY <1>1, <1>3
  <2>3. m = k + 1
    <3>1. t % TruncateEvery \in Int
      BY <1>3
    <3> QED BY <2>1, <2>2, <3>1, <1>1, <1>4
  <2>4. UntilTruncate(t + 1) = k * CkInterval /\ (k + 1) * CkInterval = k * CkInterval + CkInterval
    BY <2>2, <1>1, <1>2 DEF UntilTruncate
  <2> QED BY <2>3, <2>4, <1>5
<1> QED BY <1>1, <1>5, <1>7, <1>8, <1>9, <1>10 DEF Period

\* The ticker's next time lies ahead, at most an interval.
LEMMA NextTickAhead ==
  ASSUME ckNow \in Nat, ckDue \in Nat, ckNow >= ckDue
  PROVE  NextTick \in Nat /\ NextTick > ckNow /\ NextTick <= ckNow + CkInterval
<1>1. CkInterval \in Nat \ {0}
  BY CkAssumption
<1>2. PICK x \in Nat : x = ckNow - ckDue
  OBVIOUS
<1>3. x \div CkInterval \in Nat
  BY <1>1, SMT
<1>4. x % CkInterval \in 0 .. (CkInterval - 1)
  BY <1>1, SMT
<1>5. x = CkInterval * (x \div CkInterval) + (x % CkInterval)
  BY <1>1, SMT
<1>6. \A m, n \in Nat : n * (m + 1) = n * m + n /\ n * m \in Nat
  BY SMT
<1>7. PICK q \in Nat : q = x \div CkInterval
  BY <1>3
<1>8. NextTick = ckDue + CkInterval * q + CkInterval /\ CkInterval * q \in Nat
  BY <1>1, <1>2, <1>6, <1>7 DEF NextTick
<1> QED BY <1>1, <1>2, <1>4, <1>5, <1>7, <1>8

\* A checkpoint that finds every snapshot at the end of the WAL copies it all.
LEMMA CopiesAll ==
  ASSUME ckWal \in Nat, \A r \in Reading : ckSnap[r].mark = ckWal
  PROVE  Copied = ckWal
<1>1. {ckWal} \cup {ckSnap[r].mark : r \in Reading} = {ckWal}
  OBVIOUS
<1>2. Copied = Min({ckWal})
  BY <1>1 DEF Copied
<1>3. \A x : Min({x}) = CHOOSE y \in {x} : \A z \in {x} : y <= z
  BY DEF Min
<1>4. Min({ckWal}) = ckWal
  <2>1. \E y \in {ckWal} : \A z \in {ckWal} : y <= z
    OBVIOUS
  <2> QED BY <2>1, <1>3
<1> QED BY <1>2, <1>4

\* The intervals are at least one unit each.
LEMMA CkConstants ==
  /\ CkInterval \in Nat /\ TickBudget \in Nat /\ RetryEvery \in Nat /\ TruncateEvery \in Nat
  /\ BackstopAfter \in Nat /\ BackstopWait \in Nat /\ BackstopFrames \in Nat /\ SnapshotMax \in Nat
  /\ CkInterval >= 1 /\ TickBudget >= 1 /\ RetryEvery >= 1 /\ TruncateEvery >= 1 /\ BackstopAfter >= 1
<1>1. /\ CkInterval \in Nat \ {0} /\ TickBudget \in Nat \ {0} /\ RetryEvery \in Nat \ {0} /\ TruncateEvery \in Nat \ {0}
      /\ BackstopAfter \in Nat \ {0} /\ BackstopWait \in Nat \ {0} /\ BackstopFrames \in Nat /\ SnapshotMax \in Nat
  BY CkAssumption
<1>2. \A n \in Nat \ {0} : n \in Nat /\ n >= 1
  OBVIOUS
<1> QED BY <1>1, <1>2

\* Nothing written, nothing failed.
LEMMA CkInvInit == CkInit => CkInv
<1>1. SUFFICES ASSUME CkInit PROVE CkInv
  OBVIOUS
<1>2. /\ ckNow = 0 /\ ckDue = CkInterval /\ ckTick = 0 /\ ckFailed = 0 /\ ckWal = 0 /\ ckBack = 0
      /\ ckWrote = FALSE /\ ckSnap = [r \in CkReaders |-> NoSnapshot] /\ ckLoop = Asleep /\ ckSlack = 0
  BY <1>1 DEF CkInit
<1>3. CkTypes
  <2>1. CkInterval \in Nat
    BY CkConstants
  <2>2. ckWrote \in BOOLEAN
    BY <1>2
  <2>3. ckLoop \in [pc : {"idle", "vacuum", "truncate", "pause", "failed", "backstop"}, until : Nat, giveUp : Nat]
    BY <1>2 DEF Asleep
  <2>4. ckNow \in Nat /\ ckDue \in Nat /\ ckTick \in Nat /\ ckFailed \in Nat /\ ckWal \in Nat /\ ckSlack \in Nat
        /\ ckDue <= ckNow + CkInterval
    BY <1>2, <2>1
  <2> QED BY <2>2, <2>3, <2>4 DEF CkTypes
<1>4. SnapInv
  <2>1. \A r \in CkReaders : ckSnap[r] = NoSnapshot
    BY <1>2
  <2>2. Reading = {}
    BY <2>1 DEF Reading, NoSnapshot
  <2> QED BY <2>2, <1>2 DEF SnapInv, NoSnapshot
<1>5. ckWal + Coming + UntilBackstop(ckFailed) <= WalLimit + ckSlack + 1
  <2>1. UntilTruncate(0) + CkInterval <= Period /\ UntilTruncate(0) \in Nat
    BY RestFacts
  <2>2. UntilBackstop(0) + Period = BackstopAfter * Period /\ UntilBackstop(0) \in Nat
    BY LaterFacts
  <2> QED BY <1>2, <2>1, <2>2, WalLimitFacts, CkAssumption DEF Coming, Unwritten, AtLeastZero
<1>6. ckLoop.pc = "idle"
  BY <1>2 DEF Asleep
<1> QED BY <1>3, <1>4, <1>5, <1>6 DEF CkInv, FramesInv, CalmInv, TryInv, FailedInv, BackstopInv

----------------------------------------------------------------------------

\* A read that is tried again has no snapshot.
LEMMA RetryKeepsShape ==
  ASSUME SnapInv, NEW r \in CkReaders, ReadMeetsRecovery(r)
  PROVE  \E x \in [pc : {"retrying", "failed"}, mark : Int, onFile : BOOLEAN, since : Int, tries : Int] :
           ckSnap' = [ckSnap EXCEPT ![r] = x]
<1>1. PICK n, p : n = ckSnap[r].tries + 1 /\ p = IF ckSnap[r].tries + 1 = RecoveryTries THEN "failed" ELSE "retrying"
  OBVIOUS
<1>2. PICK x : x = [[ckSnap[r] EXCEPT !.tries = n] EXCEPT !.pc = p]
  OBVIOUS
<1>3. ckSnap' = [ckSnap EXCEPT ![r] = x]
  BY <1>1, <1>2 DEF ReadMeetsRecovery, SnapInv
<1>4. n \in Int /\ p \in {"retrying", "failed"}
  BY <1>1 DEF SnapInv
<1>5. x \in [pc : {"retrying", "failed"}, mark : Int, onFile : BOOLEAN, since : Int, tries : Int]
  BY <1>2, <1>4 DEF SnapInv
<1> QED BY <1>3, <1>5

\* Readers do not touch the account; what opens during the backstop's wait has
\* the whole WAL, and once that is copied reads the file.
LEMMA ReadersKeep ==
  ASSUME CkInv, NEW r \in CkReaders, ReadBegins(r) \/ ReadMeetsRecovery(r) \/ ReadEnds(r)
  PROVE  CkInv'
<1>1. UNCHANGED <<ckNow, ckDue, ckTick, ckFailed, ckWal, ckBack, ckWrote, ckLoop, ckSlack>>
  BY DEF ReadBegins, ReadMeetsRecovery, ReadEnds
<1>2. CkTypes'
  BY <1>1 DEF CkInv, CkTypes
<1>3. FramesInv'
  BY <1>1 DEF CkInv, FramesInv, CalmInv, TryInv, FailedInv, TickEnds, Coming, Unwritten
<1>4. ckSnap' \in [CkReaders -> [pc : {"none", "open", "retrying", "failed"}, mark : Int, onFile : BOOLEAN, since : Int, tries : Int]]
  <2>1. CASE ReadBegins(r)
    <3>1. [pc |-> "open", mark |-> ckWal, onFile |-> ckBack = ckWal, since |-> ckNow, tries |-> 0]
             \in [pc : {"none", "open", "retrying", "failed"}, mark : Int, onFile : BOOLEAN, since : Int, tries : Int]
      BY DEF CkInv, CkTypes
    <3> QED BY <2>1, <3>1 DEF CkInv, SnapInv, ReadBegins
  <2>2. CASE ReadMeetsRecovery(r)
    <3>1. PICK x \in [pc : {"retrying", "failed"}, mark : Int, onFile : BOOLEAN, since : Int, tries : Int] :
             ckSnap' = [ckSnap EXCEPT ![r] = x]
      BY <2>2, RetryKeepsShape DEF CkInv
    <3> QED BY <3>1 DEF CkInv, SnapInv
  <2>3. CASE ReadEnds(r)
    BY <2>3 DEF CkInv, SnapInv, ReadEnds, NoSnapshot
  <2> QED BY <2>1, <2>2, <2>3
<1>5. \A q \in Reading' : \/ q \in Reading /\ ckSnap'[q] = ckSnap[q]
                          \/ q \in CkReaders /\ ckSnap'[q].mark = ckWal /\ ckSnap'[q].since = ckNow
                             /\ (ckBack = ckWal => ckSnap'[q].onFile)
  <2>1. CASE ReadBegins(r)
    <3>1. SUFFICES ASSUME NEW q \in Reading'
                   PROVE  \/ q \in Reading /\ ckSnap'[q] = ckSnap[q]
                          \/ q \in CkReaders /\ ckSnap'[q].mark = ckWal /\ ckSnap'[q].since = ckNow
                             /\ (ckBack = ckWal => ckSnap'[q].onFile)
      OBVIOUS
    <3>2. PICK x : x = [pc |-> "open", mark |-> ckWal, onFile |-> ckBack = ckWal, since |-> ckNow, tries |-> 0]
      OBVIOUS
    <3>3. ckSnap' = [ckSnap EXCEPT ![r] = x] /\ q \in CkReaders /\ ckSnap'[q].pc = "open"
      BY <2>1, <3>1, <3>2 DEF ReadBegins, Reading
    <3>4. CASE q = r
      <4>1. ckSnap'[q] = x
        BY <3>3, <3>4 DEF CkInv, SnapInv
      <4>2. x.mark = ckWal /\ x.since = ckNow
        BY <3>2
      <4>3. PICK b : b = (ckBack = ckWal)
        OBVIOUS
      <4>4. x.onFile = b
        BY <4>3, <3>2
      <4>5. ckBack = ckWal => x.onFile
        BY <4>3, <4>4
      <4>6. ckBack = ckWal => ckSnap'[q].onFile
        BY <4>1, <4>5, Zenon
      <4>7. ckSnap'[q].mark = ckWal /\ ckSnap'[q].since = ckNow
        BY <4>1, <4>2
      <4>8. q \in CkReaders
        BY <3>3
      <4> QED BY <4>6, <4>7, <4>8, Zenon
    <3>5. CASE q # r
      <4>1. ckSnap'[q] = ckSnap[q]
        BY <3>3, <3>5 DEF CkInv, SnapInv
      <4> QED BY <3>3, <4>1 DEF Reading
    <3> QED BY <3>4, <3>5
  <2>2. CASE ReadMeetsRecovery(r)
    <3>1. ckSnap'[r].pc # "open" /\ \A q \in CkReaders \ {r} : ckSnap'[q] = ckSnap[q]
      <4>1. PICK x \in [pc : {"retrying", "failed"}, mark : Int, onFile : BOOLEAN, since : Int, tries : Int] :
               ckSnap' = [ckSnap EXCEPT ![r] = x]
        BY <2>2, RetryKeepsShape DEF CkInv
      <4> QED BY <4>1 DEF CkInv, SnapInv
    <3> QED BY <3>1 DEF Reading
  <2>3. CASE ReadEnds(r)
    <3>1. ckSnap'[r].pc # "open" /\ \A q \in CkReaders \ {r} : ckSnap'[q] = ckSnap[q]
      BY <2>3 DEF ReadEnds, CkInv, SnapInv, NoSnapshot
    <3> QED BY <3>1 DEF Reading
  <2> QED BY <2>1, <2>2, <2>3
<1>6. \A q \in Reading' : ckSnap'[q].since <= ckNow' /\ ckNow' <= ckSnap'[q].since + SnapshotMax
  <2>1. SUFFICES ASSUME NEW q \in Reading' PROVE ckSnap'[q].since <= ckNow /\ ckNow <= ckSnap'[q].since + SnapshotMax
    BY <1>1
  <2>2. ckNow \in Nat /\ SnapshotMax \in Nat
    BY CkAssumption DEF CkInv, CkTypes
  <2> QED BY <2>2, <1>5 DEF CkInv, SnapInv
<1>7. SnapInv'
  BY <1>4, <1>6 DEF SnapInv
<1>8. BackstopInv'
  <2>1. SUFFICES ASSUME ckLoop.pc = "backstop"
                 PROVE  \A q \in Reading' : /\ ckSnap'[q].since > WaitStart => ckSnap'[q].mark = ckWal
                                            /\ ckSnap'[q].since > WaitStart + SnapshotMax => ckSnap'[q].onFile
    BY <1>1 DEF CkInv, BackstopInv, WaitStart
  <2>2. ckNow > WaitStart + SnapshotMax => ckBack = ckWal
    BY <2>1 DEF CkInv, BackstopInv
  <2> QED BY <2>1, <2>2, <1>5 DEF CkInv, BackstopInv
<1> QED BY <1>2, <1>3, <1>7, <1>8 DEF CkInv

\* A step that leaves the snapshots as they are, or cuts them to the empty WAL.
LEMMA SnapsKeep ==
  ASSUME CkInv, ckNow' = ckNow, UNCHANGED ckSnap \/ Cut
  PROVE  SnapInv'
<1>1. CASE UNCHANGED ckSnap
  BY <1>1 DEF CkInv, SnapInv, Reading
<1>2. CASE Cut
  <2>1. ckSnap' = [r \in CkReaders |-> IF r \in Reading THEN [ckSnap[r] EXCEPT !.mark = 0] ELSE ckSnap[r]]
    BY <1>2 DEF Cut
  <2>2. ckSnap' \in [CkReaders -> [pc : {"none", "open", "retrying", "failed"}, mark : Int, onFile : BOOLEAN, since : Int, tries : Int]]
    BY <2>1 DEF CkInv, SnapInv
  <2>3. \A r \in CkReaders : ckSnap'[r].pc = ckSnap[r].pc /\ ckSnap'[r].since = ckSnap[r].since
    BY <2>1 DEF CkInv, SnapInv
  <2>4. Reading' = Reading
    BY <2>3 DEF Reading
  <2> QED BY <2>2, <2>3, <2>4 DEF CkInv, SnapInv, Reading
<1> QED BY <1>1, <1>2

----------------------------------------------------------------------------

\* Time stops at the backstop's end: one step before it, whoever still holds
\* it up would have to have left.
LEMMA WaitIsShort ==
  ASSUME CkInv, CkTickTime, ckLoop.pc = "backstop"
  PROVE  /\ ckNow < WaitStart + 2 * SnapshotMax
         /\ ckNow + 1 > WaitStart + SnapshotMax => ckBack = ckWal
<1>1. ckNow \in Nat /\ SnapshotMax \in Nat /\ ckLoop.giveUp \in Nat /\ BackstopWait \in Nat /\ ckWal \in Nat
  BY CkConstants DEF CkInv, CkTypes
<1>2. PICK s \in Int : s = WaitStart
  BY <1>1 DEF WaitStart
<1>3. ~Cuttable /\ ckBack = Copied /\ \A r \in Reading : ckNow - ckSnap[r].since < SnapshotMax
  BY DEF CkTickTime
<1>4. \A r \in Reading : ckSnap[r].since \in Int
  BY DEF CkInv, SnapInv, Reading
<1>5. \A r \in Reading : /\ ckSnap[r].since > s => ckSnap[r].mark = ckWal
                         /\ ckSnap[r].since > s + SnapshotMax => ckSnap[r].onFile
  BY <1>2 DEF CkInv, BackstopInv
<1>6. ASSUME ckNow + 1 > s + SnapshotMax PROVE Copied = ckWal
  <2>1. \A r \in Reading : ckSnap[r].since > s
    BY <1>1, <1>3, <1>4, <1>6
  <2>2. \A r \in Reading : ckSnap[r].mark = ckWal
    BY <2>1, <1>5
  <2> QED BY <2>2, <1>1, CopiesAll
<1>7. ckNow < s + 2 * SnapshotMax
  <2>1. SUFFICES ASSUME ckNow >= s + 2 * SnapshotMax PROVE FALSE
    BY <1>1
  <2>2. Copied = ckWal
    BY <2>1, <1>1, <1>6
  <2>3. \A r \in Reading : ckSnap[r].since > s + SnapshotMax
    BY <2>1, <1>1, <1>3, <1>4
  <2>4. \A r \in Reading : ckSnap[r].onFile
    BY <2>3, <1>5
  <2> QED BY <2>2, <2>4, <1>3 DEF Cuttable
<1> QED BY <1>2, <1>3, <1>6, <1>7

\* A unit of time: one frame more may be written, one unit less is left.
LEMMA TimeKeeps ==
  ASSUME CkInv, CkTickTime
  PROVE  CkInv'
<1>1. ckNow' = ckNow + 1 /\ ckWrote' = FALSE /\ UNCHANGED <<ckDue, ckTick, ckFailed, ckWal, ckBack, ckSnap, ckLoop, ckSlack>>
  BY DEF CkTickTime
<1>2. /\ ckNow \in Nat /\ ckDue \in Nat /\ ckTick \in Nat /\ ckFailed \in Nat /\ ckWal \in Nat /\ ckSlack \in Nat
      /\ ckDue <= ckNow + CkInterval /\ CkInterval \in Nat
      /\ ckLoop \in [pc : {"idle", "vacuum", "truncate", "pause", "failed", "backstop"}, until : Nat, giveUp : Nat]
  BY CkConstants DEF CkInv, CkTypes
<1>3. CkTypes'
  <2>1. ckWrote' \in BOOLEAN
    BY <1>1
  <2>2. ckDue <= ckNow + 1 + CkInterval
    BY <1>2
  <2> QED BY <1>1, <1>2, <2>1, <2>2 DEF CkTypes
<1>4. SnapInv'
  <2>1. \A r \in Reading : ckNow - ckSnap[r].since < SnapshotMax
    BY DEF CkTickTime
  <2>2. Reading' = Reading
    BY <1>1 DEF Reading
  <2>3. \A r \in Reading : ckSnap[r].since \in Int
    BY DEF CkInv, SnapInv, Reading
  <2>4. \A r \in Reading : ckSnap[r].since <= ckNow + 1 /\ ckNow + 1 <= ckSnap[r].since + SnapshotMax
    BY <2>1, <2>3, <1>2, CkConstants DEF CkInv, SnapInv
  <2> QED BY <1>1, <2>2, <2>4 DEF CkInv, SnapInv
<1>5. Unwritten \in {0, 1} /\ Unwritten' = 1
  BY <1>1 DEF Unwritten
<1>6. CASE ckLoop.pc = "idle"
  <2>1. ckNow < ckDue
    BY <1>6 DEF CkTickTime
  <2>2. UntilTruncate(ckTick) \in Nat
    BY <1>2, RestFacts
  <2>3. Coming = UntilTruncate(ckTick) + (ckDue - ckNow) + Unwritten /\ Coming' = UntilTruncate(ckTick) + (ckDue - ckNow - 1) + 1
    BY <2>1, <2>2, <1>1, <1>2, <1>5 DEF Coming, AtLeastZero
  <2>4. ckWal + Coming + UntilBackstop(ckFailed) <= WalLimit + ckSlack + 1
    BY <1>6 DEF CkInv, FramesInv, CalmInv
  <2>5. UntilBackstop(ckFailed) \in Nat /\ WalLimit \in Nat
    BY <1>2, LaterFacts, WalLimitFacts
  <2>6. ckWal + Coming' + UntilBackstop(ckFailed) <= WalLimit + ckSlack + 1
    BY <2>2, <2>3, <2>4, <2>5, <1>2, <1>5
  <2> QED BY <1>1, <1>3, <1>4, <1>6, <2>6 DEF CkInv, FramesInv, CalmInv, TryInv, FailedInv, BackstopInv
<1>7. CASE ckLoop.pc = "pause"
  <2>1. ckNow < ckLoop.until
    BY <1>7 DEF CkTickTime
  <2>2. PICK d \in Nat : d = ckLoop.giveUp
    BY <1>2
  <2>3. PICK l, m \in Nat : l = UntilBackstop(ckFailed) /\ m = WalLimit
    BY <1>2, LaterFacts, WalLimitFacts
  <2>4. /\ ckTick % TruncateEvery = 0 /\ ckLoop.until < d
        /\ ckWal + Unwritten + (d - 1 - ckNow) + l <= m + ckSlack + TickBudget
        /\ ckWal + Unwritten + (ckDue - ckNow) + l <= m + ckSlack + 1 + CkInterval
    BY <1>7, <2>2, <2>3 DEF CkInv, FramesInv, TryInv, TickEnds
  <2>5. /\ ckNow + 1 <= ckLoop.until /\ ckNow + 1 < d
        /\ ckWal + 1 + (d - 1 - (ckNow + 1)) + l <= m + ckSlack + TickBudget
        /\ ckWal + 1 + (ckDue - (ckNow + 1)) + l <= m + ckSlack + 1 + CkInterval
    BY <2>1, <2>4, <1>2, <1>5, CkConstants
  <2>6. TryInv'
    BY <1>1, <1>5, <1>7, <2>2, <2>3, <2>4, <2>5 DEF TryInv, TickEnds
  <2> QED BY <1>1, <1>3, <1>4, <1>7, <2>6 DEF CkInv, FramesInv, CalmInv, FailedInv, BackstopInv
<1>8. CASE ckLoop.pc = "backstop"
  <2>1. ckNow < WaitStart + 2 * SnapshotMax /\ (ckNow + 1 > WaitStart + SnapshotMax => ckBack = ckWal)
    BY <1>8, WaitIsShort
  <2>2. WaitStart' = WaitStart /\ Reading' = Reading /\ WaitStart \in Int
    BY <1>1, <1>2, CkConstants DEF WaitStart, Reading
  <2>3. WaitStart <= ckNow + 1 /\ ckNow + 1 <= WaitStart + 2 * SnapshotMax
    BY <1>2, <1>8, <2>1, <2>2, CkConstants DEF CkInv, BackstopInv
  <2>4. BackstopInv'
    BY <1>1, <1>8, <2>1, <2>2, <2>3 DEF CkInv, BackstopInv
  <2> QED BY <1>1, <1>3, <1>4, <1>8, <2>4 DEF CkInv, FramesInv, CalmInv, TryInv, FailedInv
<1> QED BY <1>6, <1>7, <1>8 DEF CkTickTime

\* A frame of the ingest workload takes the place that its unit of time had.
LEMMA CommitKeeps ==
  ASSUME CkInv, Commit
  PROVE  CkInv'
<1>1. /\ ckWal' = ckWal + 1 /\ ckWrote' = TRUE /\ ckWrote = FALSE /\ ckLoop.pc \in {"idle", "pause", "vacuum"}
      /\ UNCHANGED <<ckNow, ckDue, ckTick, ckFailed, ckSnap, ckLoop, ckSlack>>
  <2>1. ~ckWrote /\ ckWrote \in BOOLEAN
    BY DEF Commit, CkInv, CkTypes
  <2> QED BY <2>1 DEF Commit
<1>2. /\ ckNow \in Nat /\ ckDue \in Nat /\ ckTick \in Nat /\ ckFailed \in Nat /\ ckWal \in Nat /\ ckSlack \in Nat
      /\ ckLoop \in [pc : {"idle", "vacuum", "truncate", "pause", "failed", "backstop"}, until : Nat, giveUp : Nat]
  BY DEF CkInv, CkTypes
<1>3. CkTypes'
  <2>1. ckWrote' \in BOOLEAN
    BY <1>1
  <2>2. ckWal + 1 \in Nat
    BY <1>2
  <2> QED BY <1>1, <2>1, <2>2 DEF CkInv, CkTypes
<1>4. SnapInv'
  BY <1>1, SnapsKeep DEF CkInv
<1>5. Unwritten = 1 /\ Unwritten' = 0
  BY <1>1 DEF Unwritten
<1>6. PICK l, m \in Nat : l = UntilBackstop(ckFailed) /\ m = WalLimit
  BY <1>2, LaterFacts, WalLimitFacts
<1>7. CASE ckLoop.pc \in {"idle", "vacuum"}
  <2>1. PICK c \in Int : c = UntilTruncate(ckTick) + AtLeastZero(ckDue - ckNow)
    BY <1>2, RestFacts DEF AtLeastZero
  <2>2. Coming = c + 1 /\ Coming' = c + 0
    BY <1>1, <1>5, <2>1 DEF Coming
  <2>3. ckWal + Coming' + l <= m + ckSlack + 1 - 1
    BY <1>2, <1>6, <1>7, <2>2 DEF CkInv, FramesInv, CalmInv
  <2>4. ckWal + 1 + Coming' + l <= m + ckSlack + 1
    BY <1>2, <2>2, <2>3
  <2> QED BY <1>1, <1>3, <1>4, <1>6, <1>7, <2>4 DEF CkInv, FramesInv, CalmInv, TryInv, FailedInv, BackstopInv
<1>8. CASE ckLoop.pc = "pause"
  <2>1. PICK d \in Nat : d = ckLoop.giveUp
    BY <1>2
  <2>2. /\ ckTick % TruncateEvery = 0 /\ ckLoop.until < d /\ ckNow <= ckLoop.until /\ ckNow < d
        /\ ckWal + 1 + (d - 1 - ckNow) + l <= m + ckSlack + TickBudget
        /\ ckWal + 1 + (ckDue - ckNow) + l <= m + ckSlack + 1 + CkInterval
    BY <1>5, <1>6, <1>8, <2>1 DEF CkInv, FramesInv, TryInv, TickEnds
  <2>3. /\ ckWal + 1 + 0 + (d - 1 - ckNow) + l <= m + ckSlack + TickBudget
        /\ ckWal + 1 + 0 + (ckDue - ckNow) + l <= m + ckSlack + 1 + CkInterval
    BY <1>2, <2>2
  <2>4. TryInv'
    BY <1>1, <1>5, <1>6, <1>8, <2>1, <2>2, <2>3 DEF TryInv, TickEnds
  <2> QED BY <1>1, <1>3, <1>4, <1>8, <2>4 DEF CkInv, FramesInv, CalmInv, FailedInv, BackstopInv
<1> QED BY <1>1, <1>7, <1>8

\* Vacuuming ends the tick; its frame takes the same place.
LEMMA VacuumKeeps ==
  ASSUME CkInv, NEW frames \in {0, 1}, Vacuum(frames)
  PROVE  CkInv'
<1>1. /\ ckWal' = ckWal + frames /\ ckLoop' = Asleep /\ ckLoop.pc = "vacuum"
      /\ UNCHANGED <<ckNow, ckDue, ckTick, ckFailed, ckSnap, ckSlack>>
  BY DEF Vacuum
<1>2. ckWrote' \in BOOLEAN /\ (frames = 0 => ckWrote' = ckWrote) /\ (frames = 1 => ckWrote = FALSE /\ ckWrote' = TRUE)
  <2>1. ckWrote \in BOOLEAN /\ (frames = 1 => ~ckWrote) /\ ckWrote' = (ckWrote \/ frames = 1)
    BY DEF Vacuum, CkInv, CkTypes
  <2>2. CASE frames = 0
    <3>1. frames # 1
      BY <2>2
    <3>2. ckWrote' = ckWrote
      BY <2>1, <3>1, Zenon
    <3> QED BY <2>1, <2>2, <3>2
  <2>3. CASE frames = 1
    <3>1. ckWrote' = TRUE
      BY <2>1, <2>3, Zenon
    <3>2. frames # 0
      BY <2>3
    <3> QED BY <2>1, <2>3, <3>1, <3>2
  <2> QED BY <2>2, <2>3
<1>3. /\ ckNow \in Nat /\ ckDue \in Nat /\ ckTick \in Nat /\ ckFailed \in Nat /\ ckWal \in Nat /\ ckSlack \in Nat
  BY DEF CkInv, CkTypes
<1>4. CkTypes'
  <2>1. ckWal + frames \in Nat
    BY <1>3
  <2>2. Asleep \in [pc : {"idle", "vacuum", "truncate", "pause", "failed", "backstop"}, until : Nat, giveUp : Nat]
    BY DEF Asleep
  <2> QED BY <1>1, <1>2, <2>1, <2>2 DEF CkInv, CkTypes
<1>5. SnapInv'
  BY <1>1, SnapsKeep DEF CkInv
<1>6. Unwritten \in {0, 1} /\ Unwritten' = Unwritten - frames
  BY <1>2 DEF Unwritten
<1>7. PICK l, m \in Nat : l = UntilBackstop(ckFailed) /\ m = WalLimit
  BY <1>3, LaterFacts, WalLimitFacts
<1>8. PICK c \in Int : c = UntilTruncate(ckTick) + AtLeastZero(ckDue - ckNow)
  BY <1>3, RestFacts DEF AtLeastZero
<1>9. Coming = c + Unwritten /\ Coming' = c + (Unwritten - frames)
  BY <1>1, <1>6, <1>8 DEF Coming
<1>10. ckWal + (c + Unwritten) + l <= m + ckSlack + 1
  BY <1>1, <1>7, <1>9 DEF CkInv, FramesInv, CalmInv
<1>11. ckWal + frames + (c + (Unwritten - frames)) + l <= m + ckSlack + 1
  BY <1>3, <1>6, <1>10
<1>12. ckLoop'.pc = "idle"
  BY <1>1 DEF Asleep
<1> QED BY <1>1, <1>4, <1>5, <1>7, <1>9, <1>11, <1>12 DEF CkInv, FramesInv, CalmInv, TryInv, FailedInv, BackstopInv

\* A passive tick: one tick less before the next truncating one.
LEMMA PassiveKeeps ==
  ASSUME CkInv, TickPassive
  PROVE  CkInv'
<1>1. /\ ckLoop.pc = "idle" /\ ckNow >= ckDue /\ ckTick' = ckTick + 1 /\ ckDue' = NextTick /\ (ckTick + 1) % TruncateEvery # 0
      /\ ckLoop' = [Asleep EXCEPT !.pc = "vacuum"]
      /\ UNCHANGED <<ckNow, ckFailed, ckWal, ckWrote, ckSnap, ckSlack>>
  BY DEF TickPassive, CopyOnly
<1>2. ckNow \in Nat /\ ckDue \in Nat /\ ckTick \in Nat /\ ckFailed \in Nat /\ ckWal \in Nat /\ ckSlack \in Nat /\ ckWrote \in BOOLEAN
  BY DEF CkInv, CkTypes
<1>3. ckDue' \in Nat /\ ckDue' > ckNow /\ ckDue' <= ckNow + CkInterval
  BY <1>1, <1>2, NextTickAhead
<1>4. ckLoop' = [pc |-> "vacuum", until |-> 0, giveUp |-> 0]
  BY <1>1 DEF Asleep
<1>5. CkTypes'
  <2>1. ckTick + 1 \in Nat
    BY <1>2
  <2>2. ckLoop' \in [pc : {"idle", "vacuum", "truncate", "pause", "failed", "backstop"}, until : Nat, giveUp : Nat]
    BY <1>4
  <2> QED BY <1>1, <1>2, <1>3, <2>1, <2>2 DEF CkTypes
<1>6. SnapInv'
  BY <1>1, SnapsKeep DEF CkInv
<1>7. UntilTruncate(ckTick) = UntilTruncate(ckTick + 1) + CkInterval /\ UntilTruncate(ckTick + 1) \in Nat /\ UntilTruncate(ckTick) \in Nat
  <2>1. ckTick + 1 \in Nat
    BY <1>2
  <2> QED BY <1>1, <1>2, <2>1, RestFacts
<1>8. PICK l, m \in Nat : l = UntilBackstop(ckFailed) /\ m = WalLimit
  BY <1>2, LaterFacts, WalLimitFacts
<1>9. PICK u \in {0, 1} : u = Unwritten /\ u = Unwritten'
  BY <1>1 DEF Unwritten
<1>10. Coming = UntilTruncate(ckTick) + u /\ Coming' = UntilTruncate(ckTick + 1) + (ckDue' - ckNow) + u
  <2>1. AtLeastZero(ckDue - ckNow) = 0 /\ AtLeastZero(ckDue' - ckNow) = ckDue' - ckNow
    BY <1>1, <1>2, <1>3 DEF AtLeastZero
  <2> QED BY <1>1, <1>2, <1>7, <1>9, <2>1 DEF Coming
<1>11. ckWal + Coming + l <= m + ckSlack + 1
  BY <1>1, <1>8 DEF CkInv, FramesInv, CalmInv
<1>12. ckWal + Coming' + l <= m + ckSlack + 1
  BY <1>2, <1>3, <1>7, <1>10, <1>11, CkConstants
<1>13. ckLoop'.pc = "vacuum"
  BY <1>4
<1> QED BY <1>1, <1>5, <1>6, <1>8, <1>12, <1>13 DEF CkInv, FramesInv, CalmInv, TryInv, FailedInv, BackstopInv

\* A truncating tick starts: nothing is left of the time before it, its
\* budget lies ahead.
LEMMA TruncatingKeeps ==
  ASSUME CkInv, TickTruncate
  PROVE  CkInv'
<1>1. /\ ckLoop.pc = "idle" /\ ckNow >= ckDue /\ ckTick' = ckTick + 1 /\ ckDue' = NextTick /\ (ckTick + 1) % TruncateEvery = 0
      /\ ckLoop' = [pc |-> "truncate", until |-> ckNow + TickBudget, giveUp |-> ckNow + 0]
      /\ UNCHANGED <<ckNow, ckFailed, ckWal, ckWrote, ckSnap, ckSlack>>
  BY DEF TickTruncate, Attempt
<1>2. ckNow \in Nat /\ ckDue \in Nat /\ ckTick \in Nat /\ ckFailed \in Nat /\ ckWal \in Nat /\ ckSlack \in Nat /\ ckWrote \in BOOLEAN
  BY DEF CkInv, CkTypes
<1>3. ckDue' \in Nat /\ ckDue' <= ckNow + CkInterval
  BY <1>1, <1>2, NextTickAhead
<1>4. ckLoop'.pc = "truncate" /\ ckLoop'.until = ckNow + TickBudget
  BY <1>1
<1>5. CkTypes'
  <2>1. ckTick + 1 \in Nat /\ ckNow + TickBudget \in Nat /\ ckNow + 0 \in Nat
    BY <1>2, CkConstants
  <2>2. ckLoop' \in [pc : {"idle", "vacuum", "truncate", "pause", "failed", "backstop"}, until : Nat, giveUp : Nat]
    BY <1>1, <2>1
  <2> QED BY <1>1, <1>2, <1>3, <2>1, <2>2 DEF CkTypes
<1>6. SnapInv'
  BY <1>1, SnapsKeep DEF CkInv
<1>7. PICK l, m \in Nat : l = UntilBackstop(ckFailed) /\ m = WalLimit
  BY <1>2, LaterFacts, WalLimitFacts
<1>8. PICK u \in {0, 1} : u = Unwritten /\ u = Unwritten'
  BY <1>1 DEF Unwritten
<1>9. ckWal + u + l <= m + ckSlack + 1
  <2>1. ckWal + Coming + l <= m + ckSlack + 1
    BY <1>1, <1>7 DEF CkInv, FramesInv, CalmInv
  <2>2. UntilTruncate(ckTick) \in Nat /\ AtLeastZero(ckDue - ckNow) = 0
    BY <1>1, <1>2, RestFacts DEF AtLeastZero
  <2>3. Coming = UntilTruncate(ckTick) + u
    BY <1>8, <2>2 DEF Coming
  <2> QED BY <1>2, <2>1, <2>2, <2>3
<1>10. /\ ckNow < ckNow + TickBudget
       /\ ckWal + u + ((ckNow + TickBudget) - 1 - ckNow) + l <= m + ckSlack + TickBudget
       /\ ckWal + u + (ckDue' - ckNow) + l <= m + ckSlack + 1 + CkInterval
  <2>1. PICK b, i \in Nat : b = TickBudget /\ i = CkInterval /\ b >= 1
    BY CkConstants
  <2>2. ckNow < ckNow + b /\ ckWal + u + ((ckNow + b) - 1 - ckNow) + l <= m + ckSlack + b
    BY <1>2, <1>9, <2>1
  <2>3. PICK e \in Nat : e = ckDue' /\ e <= ckNow + i
    BY <1>3, <2>1
  <2>4. e <= ckNow + i
    BY <2>3
  <2>5. ckWal + u + (e - ckNow) + l <= m + ckSlack + 1 + i
    BY <1>2, <1>9, <2>4
  <2> QED BY <2>1, <2>2, <2>3, <2>5
<1>11. TryInv'
  BY <1>1, <1>4, <1>7, <1>8, <1>10 DEF TryInv, TickEnds
<1> QED BY <1>4, <1>5, <1>6, <1>11 DEF CkInv, FramesInv, CalmInv, FailedInv, BackstopInv

\* The WAL is cut: the account starts anew.
LEMMA CutKeeps ==
  ASSUME CkInv, TruncateWorks \/ BackstopWorks
  PROVE  CkInv'
<1>1. /\ Cut /\ ckWal' = 0 /\ ckFailed' = 0 /\ ckLoop' = [Asleep EXCEPT !.pc = "vacuum"]
      /\ UNCHANGED <<ckNow, ckDue, ckTick, ckWrote, ckSlack>>
  BY DEF TruncateWorks, BackstopWorks, Cut
<1>2. /\ ckNow \in Nat /\ ckDue \in Nat /\ ckTick \in Nat /\ ckSlack \in Nat /\ ckWrote \in BOOLEAN
      /\ ckDue <= ckNow + CkInterval
  BY DEF CkInv, CkTypes
<1>3. ckLoop' = [pc |-> "vacuum", until |-> 0, giveUp |-> 0]
  BY <1>1 DEF Asleep
<1>4. CkTypes'
  <2>1. ckLoop' \in [pc : {"idle", "vacuum", "truncate", "pause", "failed", "backstop"}, until : Nat, giveUp : Nat]
    BY <1>3
  <2> QED BY <1>1, <1>2, <2>1 DEF CkTypes
<1>5. SnapInv'
  BY <1>1, SnapsKeep DEF CkInv
<1>6. PICK l, m \in Nat : l = UntilBackstop(0) /\ m = WalLimit /\ l + Period <= m
  BY LaterFacts, WalLimitFacts
<1>7. PICK u \in {0, 1} : u = Unwritten'
  BY <1>1 DEF Unwritten
<1>8. Coming' <= Period + 1 /\ Coming' \in Int
  BY <1>1, <1>2, <1>7, RestFacts, CkConstants, WalLimitFacts DEF Coming, AtLeastZero
<1>9. 0 + Coming' + l <= m + ckSlack + 1
  BY <1>2, <1>6, <1>8, WalLimitFacts
<1>10. ckLoop'.pc = "vacuum"
  BY <1>3
<1> QED BY <1>1, <1>4, <1>5, <1>6, <1>9, <1>10 DEF CkInv, FramesInv, CalmInv, TryInv, FailedInv, BackstopInv

\* The bound itself, from each part of the account.
LEMMA CkInvBounds ==
  ASSUME CkInv
  PROVE  ckWal <= WalLimit + ckSlack + TickBudget
<1>1. /\ ckNow \in Nat /\ ckDue \in Nat /\ ckTick \in Nat /\ ckFailed \in Nat /\ ckWal \in Nat /\ ckSlack \in Nat
      /\ ckLoop.pc \in {"idle", "vacuum", "truncate", "pause", "failed", "backstop"}
      /\ ckLoop.until \in Nat /\ ckLoop.giveUp \in Nat
  BY DEF CkInv, CkTypes
<1>2. PICK l, m \in Nat : l = UntilBackstop(ckFailed) /\ m = WalLimit
  BY <1>1, LaterFacts, WalLimitFacts
<1>3. PICK b \in Nat : b = TickBudget /\ b >= 1
  BY CkConstants
<1>4. PICK u \in {0, 1} : u = Unwritten
  BY DEF Unwritten
<1>5. CASE ckLoop.pc \in {"idle", "vacuum"}
  <2>1. Coming \in Nat
    <3>1. PICK n \in Nat : n = AtLeastZero(ckDue - ckNow)
      BY <1>1 DEF AtLeastZero
    <3> QED BY <1>1, <1>4, <3>1, RestFacts DEF Coming
  <2>2. ckWal + Coming + l <= m + ckSlack + 1
    BY <1>2, <1>5 DEF CkInv, FramesInv, CalmInv
  <2>3. ckWal <= m + ckSlack + b
    BY <1>1, <1>3, <2>1, <2>2
  <2> QED BY <1>2, <1>3, <2>3
<1>6. CASE ckLoop.pc \in {"truncate", "pause"}
  <2>1. PICK d \in Nat : d = TickEnds
    BY <1>1 DEF TickEnds
  <2>2. ckNow < d /\ ckWal + u + (d - 1 - ckNow) + l <= m + ckSlack + b
    BY <1>2, <1>3, <1>4, <1>6, <2>1 DEF CkInv, FramesInv, TryInv
  <2>3. ckWal <= m + ckSlack + b
    BY <1>1, <2>2
  <2> QED BY <1>2, <1>3, <2>3
<1>7. CASE ckLoop.pc \in {"failed", "backstop"}
  BY <1>7 DEF CkInv, FramesInv, FailedInv, BackstopInv
<1> QED BY <1>1, <1>5, <1>6, <1>7

\* No more is coming than a period and the unit of time under way.
LEMMA ComingFits ==
  ASSUME NEW t \in Nat, NEW due \in Nat, NEW now \in Nat, due <= now + CkInterval, NEW u \in {0, 1}
  PROVE  UntilTruncate(t) + AtLeastZero(due - now) + u \in 0 .. (Period + 1)
<1>1. PICK i, n \in Nat : i = CkInterval /\ n = AtLeastZero(due - now) /\ n <= i
  BY CkConstants DEF AtLeastZero
<1>2. PICK r, p \in Nat : r = UntilTruncate(t) /\ p = Period /\ r + i <= p
  BY <1>1, RestFacts, WalLimitFacts
<1>3. r + n + u \in 0 .. (p + 1)
  <2>1. n <= i /\ r + i <= p
    BY <1>1, <1>2
  <2> QED BY <2>1
<1> QED BY <1>1, <1>2, <1>3

\* A tick that fails has used up its budget, which an interval covers.
LEMMA FailureFits ==
  ASSUME CkInv, CkTimely, ckLoop.pc = "truncate", ckFailed' = ckFailed + 1, ckSlack' \in Nat, ckSlack' >= ckSlack,
         UNCHANGED <<ckNow, ckDue, ckTick, ckWal, ckWrote>>
  PROVE  /\ ckTick % TruncateEvery = 0
         /\ ckWal <= WalLimit + ckSlack' + TickBudget
         /\ ckWal + Coming' + UntilBackstop(ckFailed + 1) <= WalLimit + ckSlack' + 1 + (IF ckFailed + 1 >= BackstopAfter THEN Period ELSE 0)
<1>1. /\ ckNow \in Nat /\ ckDue \in Nat /\ ckTick \in Nat /\ ckFailed \in Nat /\ ckWal \in Nat /\ ckSlack \in Nat
      /\ ckLoop.until \in Nat
  BY DEF CkInv, CkTypes
<1>2. PICK l, m, p, k \in Nat : l = UntilBackstop(ckFailed) /\ m = WalLimit /\ p = Period /\ k = UntilBackstop(ckFailed + 1)
  <2>1. ckFailed + 1 \in Nat
    BY <1>1
  <2> QED BY <1>1, <2>1, LaterFacts, WalLimitFacts
<1>3. PICK b, i \in Nat : b = TickBudget /\ i = CkInterval /\ b <= i
  BY CkConstants DEF CkTimely
<1>4. PICK u \in {0, 1} : u = Unwritten /\ u = Unwritten'
  BY DEF Unwritten
<1>5. PICK d \in Nat : d = ckLoop.until
  BY <1>1
<1>6. /\ ckTick % TruncateEvery = 0 /\ ckNow < d
      /\ ckWal + u + (d - 1 - ckNow) + l <= m + ckSlack + b
      /\ ckWal + u + (ckDue - ckNow) + l <= m + ckSlack + 1 + i
  BY <1>2, <1>3, <1>4, <1>5 DEF CkInv, FramesInv, TryInv, TickEnds
<1>7. PICK n \in Nat : n = AtLeastZero(ckDue - ckNow) /\ (n = 0 \/ n = ckDue - ckNow)
  BY <1>1 DEF AtLeastZero
<1>8. ckWal + u + n + l <= m + ckSlack + 1 + i
  BY <1>1, <1>3, <1>6, <1>7
<1>9. PICK r \in Nat : r = UntilTruncate(ckTick) /\ r + i = p
  BY <1>1, <1>2, <1>3, <1>6, RestFacts
<1>10. Coming' = r + n + u
  BY <1>4, <1>7, <1>9 DEF Coming
<1>11. PICK s \in Nat : s = ckSlack' /\ s >= ckSlack
  OBVIOUS
<1>12. ckWal + (r + n + u) + l <= m + s + 1 + p
  BY <1>1, <1>8, <1>9, <1>11
<1>13. IF ckFailed + 1 >= BackstopAfter THEN l = 0 /\ k = 0 ELSE l = k + p
  <2>1. ckFailed + 1 \in Nat /\ BackstopAfter \in Nat
    BY <1>1, CkConstants
  <2>2. CASE ckFailed + 1 >= BackstopAfter
    BY <2>1, <2>2, <1>1, <1>2, LaterFacts
  <2>3. CASE ~(ckFailed + 1 >= BackstopAfter)
    <3>1. ckFailed + 1 < BackstopAfter
      BY <2>1, <2>3
    <3> QED BY <2>3, <3>1, <1>1, <1>2, LaterFacts
  <2> QED BY <2>2, <2>3
<1>14. ckWal <= m + s + b
  <2>1. ckNow < d /\ ckWal + u + (d - 1 - ckNow) + l <= m + ckSlack + b
    BY <1>6
  <2>2. ckWal <= m + ckSlack + b
    BY <1>1, <2>1
  <2>3. ckSlack <= s
    BY <1>1, <1>11
  <2> QED BY <1>1, <2>2, <2>3
<1>15. ckWal + (r + n + u) + k <= m + s + 1 + (IF ckFailed + 1 >= BackstopAfter THEN p ELSE 0)
  <2>1. CASE ckFailed + 1 >= BackstopAfter
    <3>1. l = 0 /\ k = 0
      BY <2>1, <1>13
    <3>2. ckWal + (r + n + u) + k <= m + s + 1 + p
      BY <3>1, <1>1, <1>12
    <3> QED BY <2>1, <3>2
  <2>2. CASE ~(ckFailed + 1 >= BackstopAfter)
    <3>1. l = k + p
      BY <2>2, <1>13
    <3>2. ckWal + (r + n + u) + k <= m + s + 1 + 0
      BY <3>1, <1>1, <1>12
    <3> QED BY <2>2, <3>2
  <2> QED BY <2>1, <2>2
<1> QED BY <1>2, <1>3, <1>6, <1>10, <1>14, <1>15, <1>11

\* An attempt that readers block: a pause inside the budget, or a failed tick.
LEMMA BlockedKeeps ==
  ASSUME CkInv, CkTimely, TruncateBlocked
  PROVE  CkInv'
<1>1. /\ ckLoop.pc = "truncate"
      /\ UNCHANGED <<ckNow, ckDue, ckTick, ckWal, ckWrote, ckSnap, ckSlack>>
  BY DEF TruncateBlocked, CopyOnly
<1>2. /\ ckNow \in Nat /\ ckDue \in Nat /\ ckTick \in Nat /\ ckFailed \in Nat /\ ckWal \in Nat /\ ckSlack \in Nat
      /\ ckLoop.until \in Nat
  BY DEF CkInv, CkTypes
<1>3. SnapInv'
  BY <1>1, SnapsKeep DEF CkInv
<1>4. CASE ckNow + RetryEvery < ckLoop.until
  <2>1. ckLoop' = [pc |-> "pause", until |-> ckNow + RetryEvery, giveUp |-> ckLoop.until] /\ UNCHANGED ckFailed
    BY <1>4 DEF TruncateBlocked
  <2>2. ckNow + RetryEvery \in Nat /\ ckNow <= ckNow + RetryEvery
    BY <1>2, CkConstants
  <2>3. CkTypes'
    <3>1. ckLoop' \in [pc : {"idle", "vacuum", "truncate", "pause", "failed", "backstop"}, until : Nat, giveUp : Nat]
      BY <1>2, <2>1, <2>2
    <3> QED BY <1>1, <2>1, <3>1 DEF CkInv, CkTypes
  <2>4. ckLoop'.pc = "pause" /\ ckLoop'.until = ckNow + RetryEvery /\ ckLoop'.giveUp = ckLoop.until
    BY <2>1
  <2>5. TickEnds = ckLoop.until /\ TickEnds' = ckLoop.until
    BY <1>1, <2>4 DEF TickEnds
  <2>6. TryInv'
    BY <1>1, <1>4, <2>1, <2>2, <2>4, <2>5 DEF CkInv, FramesInv, TryInv, Unwritten
  <2> QED BY <1>3, <2>3, <2>4, <2>6 DEF CkInv, FramesInv, CalmInv, FailedInv, BackstopInv
<1>5. CASE ~(ckNow + RetryEvery < ckLoop.until)
  <2>1. ckLoop' = [Asleep EXCEPT !.pc = "failed"] /\ ckFailed' = ckFailed + 1
    BY <1>5 DEF TruncateBlocked
  <2>2. ckLoop' = [pc |-> "failed", until |-> 0, giveUp |-> 0]
    BY <2>1 DEF Asleep
  <2>3. CkTypes'
    <3>1. ckLoop' \in [pc : {"idle", "vacuum", "truncate", "pause", "failed", "backstop"}, until : Nat, giveUp : Nat]
      BY <2>2
    <3>2. ckFailed + 1 \in Nat
      BY <1>2
    <3> QED BY <1>1, <2>1, <3>1, <3>2 DEF CkInv, CkTypes
  <2>4. ckSlack' \in Nat /\ ckSlack' >= ckSlack
    BY <1>1, <1>2
  <2>5. FailedInv'
    BY <1>1, <2>1, <2>4, FailureFits DEF FailedInv
  <2>6. ckLoop'.pc = "failed"
    BY <2>2
  <2> QED BY <1>3, <2>3, <2>5, <2>6 DEF CkInv, FramesInv, CalmInv, TryInv, BackstopInv
<1> QED BY <1>4, <1>5

\* The pause is over; the budget still runs.
LEMMA AgainKeeps ==
  ASSUME CkInv, TruncateAgain
  PROVE  CkInv'
<1>1. /\ ckLoop.pc = "pause" /\ ckLoop' = [pc |-> "truncate", until |-> ckLoop.giveUp, giveUp |-> ckNow + 0]
      /\ UNCHANGED <<ckNow, ckDue, ckTick, ckFailed, ckWal, ckWrote, ckSnap, ckSlack>>
  BY DEF TruncateAgain, Attempt
<1>2. ckNow \in Nat /\ ckLoop.giveUp \in Nat
  BY DEF CkInv, CkTypes
<1>3. CkTypes'
  <2>1. ckNow + 0 \in Nat
    BY <1>2
  <2>2. ckLoop' \in [pc : {"idle", "vacuum", "truncate", "pause", "failed", "backstop"}, until : Nat, giveUp : Nat]
    BY <1>1, <1>2, <2>1
  <2> QED BY <1>1, <2>2 DEF CkInv, CkTypes
<1>4. SnapInv'
  BY <1>1, SnapsKeep DEF CkInv
<1>5. ckLoop'.pc = "truncate" /\ ckLoop'.until = ckLoop.giveUp
  BY <1>1
<1>6. TickEnds' = TickEnds
  BY <1>1, <1>5 DEF TickEnds
<1>7. TryInv'
  BY <1>1, <1>5, <1>6 DEF CkInv, FramesInv, TryInv, Unwritten
<1> QED BY <1>3, <1>4, <1>5, <1>7 DEF CkInv, FramesInv, CalmInv, FailedInv, BackstopInv

\* A pragma that fails is excused; the next truncating tick is a period away.
LEMMA ErrorKeeps ==
  ASSUME CkInv, CkTimely, AttemptFails
  PROVE  CkInv'
<1>1. /\ ckLoop.pc \in {"truncate", "backstop"} /\ ckSlack' = ckSlack + Period + TickBudget
      /\ UNCHANGED <<ckNow, ckDue, ckTick, ckWal, ckWrote, ckSnap>>
  BY DEF AttemptFails
<1>2. /\ ckNow \in Nat /\ ckDue \in Nat /\ ckTick \in Nat /\ ckFailed \in Nat /\ ckWal \in Nat /\ ckSlack \in Nat
  BY DEF CkInv, CkTypes
<1>3. SnapInv'
  BY <1>1, SnapsKeep DEF CkInv
<1>4. ckSlack' \in Nat /\ ckSlack' >= ckSlack
  BY <1>1, <1>2, WalLimitFacts, CkConstants
<1>5. CASE ckLoop.pc = "truncate"
  <2>1. ckFailed' = ckFailed + 1 /\ ckLoop' = [Asleep EXCEPT !.pc = "failed"]
    BY <1>5 DEF AttemptFails
  <2>2. ckLoop' = [pc |-> "failed", until |-> 0, giveUp |-> 0]
    BY <2>1 DEF Asleep
  <2>3. CkTypes'
    <3>1. ckLoop' \in [pc : {"idle", "vacuum", "truncate", "pause", "failed", "backstop"}, until : Nat, giveUp : Nat]
      BY <2>2
    <3>2. ckFailed + 1 \in Nat
      BY <1>2
    <3> QED BY <1>1, <1>4, <2>1, <3>1, <3>2 DEF CkInv, CkTypes
  <2>4. FailedInv'
    BY <1>1, <1>4, <1>5, <2>1, FailureFits DEF FailedInv
  <2>5. ckLoop'.pc = "failed"
    BY <2>2
  <2> QED BY <1>3, <2>3, <2>4, <2>5 DEF CkInv, FramesInv, CalmInv, TryInv, BackstopInv
<1>6. CASE ckLoop.pc = "backstop"
  <2>1. ckFailed' = ckFailed /\ ckLoop' = [Asleep EXCEPT !.pc = "vacuum"]
    BY <1>6 DEF AttemptFails
  <2>2. ckLoop' = [pc |-> "vacuum", until |-> 0, giveUp |-> 0]
    BY <2>1 DEF Asleep
  <2>3. CkTypes'
    <3>1. ckLoop' \in [pc : {"idle", "vacuum", "truncate", "pause", "failed", "backstop"}, until : Nat, giveUp : Nat]
      BY <2>2
    <3> QED BY <1>1, <1>4, <2>1, <3>1 DEF CkInv, CkTypes
  <2>4. PICK m, p, b \in Nat : m = WalLimit /\ p = Period /\ b = TickBudget
    BY WalLimitFacts, CkConstants
  <2>5. ckWal <= m + ckSlack + b /\ UntilBackstop(ckFailed) = 0
    BY <1>2, <1>6, <2>4, LaterFacts DEF CkInv, BackstopInv
  <2>6. PICK c \in Nat : c = Coming' /\ c <= p + 1
    <3>1. Unwritten' \in {0, 1}
      BY DEF Unwritten
    <3>2. Coming' \in 0 .. (Period + 1)
      BY <2>3, <3>1, ComingFits DEF Coming, CkTypes
    <3> QED BY <2>4, <3>2
  <2>7. ckWal + c + 0 <= m + (ckSlack + p + b) + 1
    <3>1. c <= p + 1
      BY <2>6
    <3>2. ckWal <= m + ckSlack + b
      BY <2>5
    <3> QED BY <1>2, <3>1, <3>2
  <2>8. ckLoop'.pc = "vacuum"
    BY <2>2
  <2> QED BY <1>1, <1>3, <2>1, <2>3, <2>4, <2>5, <2>6, <2>7, <2>8 DEF CkInv, FramesInv, CalmInv, TryInv, FailedInv, BackstopInv
<1> QED BY <1>1, <1>5, <1>6

\* After a failed tick: the backstop when it is due, else the account still fits.
LEMMA FailedKeeps ==
  ASSUME CkInv, TickFailed
  PROVE  CkInv'
<1>1. /\ ckLoop.pc = "failed"
      /\ UNCHANGED <<ckNow, ckDue, ckTick, ckFailed, ckWal, ckBack, ckWrote, ckSnap, ckSlack>>
  BY DEF TickFailed
<1>2. /\ ckNow \in Nat /\ ckDue \in Nat /\ ckTick \in Nat /\ ckFailed \in Nat /\ ckWal \in Nat /\ ckSlack \in Nat
      /\ ckDue <= ckNow + CkInterval
  BY DEF CkInv, CkTypes
<1>3. SnapInv'
  BY <1>1, SnapsKeep DEF CkInv
<1>4. CASE BackstopDue
  <2>1. ckLoop' = [pc |-> "backstop", until |-> 0, giveUp |-> ckNow + BackstopWait]
    BY <1>4 DEF TickFailed, Attempt
  <2>2. ckNow + BackstopWait \in Nat
    BY <1>2, CkConstants
  <2>3. CkTypes'
    <3>1. ckLoop' \in [pc : {"idle", "vacuum", "truncate", "pause", "failed", "backstop"}, until : Nat, giveUp : Nat]
      BY <2>1, <2>2
    <3> QED BY <1>1, <3>1 DEF CkInv, CkTypes
  <2>4. ckLoop'.pc = "backstop" /\ WaitStart' = ckNow
    BY <1>2, <2>1, CkConstants DEF WaitStart
  <2>5. \A r \in Reading : ckSnap[r].since \in Int /\ ckSnap[r].since <= ckNow
    BY DEF CkInv, SnapInv, Reading
  <2>6. BackstopInv'
    <3>1. ckFailed >= BackstopAfter /\ ckWal <= WalLimit + ckSlack + TickBudget
      BY <1>1, <1>4 DEF BackstopDue, CkInv, FramesInv, FailedInv
    <3>2. ckNow <= ckNow + 2 * SnapshotMax /\ ~(ckNow > ckNow + SnapshotMax)
      BY <1>2, CkConstants
    <3>3. \A r \in Reading : ~(ckSnap[r].since > ckNow) /\ ~(ckSnap[r].since > ckNow + SnapshotMax)
      BY <1>2, <2>5, CkConstants
    <3>4. Reading' = Reading /\ ckSnap' = ckSnap /\ ckNow' = ckNow /\ ckFailed' = ckFailed /\ ckWal' = ckWal /\ ckSlack' = ckSlack
      BY <1>1 DEF Reading
    <3>5. ckNow <= ckNow
      BY <1>2
    <3> QED BY <2>4, <3>1, <3>2, <3>3, <3>4, <3>5 DEF BackstopInv
  <2> QED BY <1>3, <2>3, <2>4, <2>6 DEF CkInv, FramesInv, CalmInv, TryInv, FailedInv
<1>5. CASE ~BackstopDue
  <2>1. ckLoop' = [pc |-> "vacuum", until |-> 0, giveUp |-> 0]
    BY <1>5 DEF TickFailed, Asleep
  <2>2. CkTypes'
    <3>1. ckLoop' \in [pc : {"idle", "vacuum", "truncate", "pause", "failed", "backstop"}, until : Nat, giveUp : Nat]
      BY <2>1
    <3> QED BY <1>1, <3>1 DEF CkInv, CkTypes
  <2>3. ckLoop'.pc = "vacuum"
    BY <2>1
  <2>4. Coming' = Coming
    BY <1>1 DEF Coming, Unwritten
  <2>5. ckWal + Coming + UntilBackstop(ckFailed) <= WalLimit + ckSlack + 1
    <3>1. CASE ckFailed >= BackstopAfter
      <4>1. ckWal <= BackstopFrames /\ UntilBackstop(ckFailed) = 0
        <5>1. ~(ckWal > BackstopFrames)
          BY <3>1, <1>5 DEF BackstopDue
        <5> QED BY <5>1, <3>1, <1>2, CkConstants, LaterFacts
      <4>2. Coming \in 0 .. (Period + 1)
        <5>1. Unwritten \in {0, 1}
          BY DEF Unwritten
        <5> QED BY <1>2, <5>1, ComingFits DEF Coming
      <4>3. PICK c, p, f, m \in Nat : c = Coming /\ p = Period /\ f = BackstopFrames /\ m = WalLimit
        BY <4>2, WalLimitFacts, CkConstants
      <4>4. c <= p + 1 /\ ckWal <= f /\ f + p <= m
        BY <4>1, <4>2, <4>3, WalLimitFacts
      <4>5. ckWal + c + 0 <= m + ckSlack + 1
        BY <1>2, <4>4
      <4> QED BY <4>1, <4>3, <4>5
    <3>2. CASE ~(ckFailed >= BackstopAfter)
      <4>1. ckWal + Coming + UntilBackstop(ckFailed) <= WalLimit + ckSlack + 1 + 0
        BY <3>2, <1>1 DEF CkInv, FramesInv, FailedInv
      <4> QED BY <4>1, <1>2, WalLimitFacts
    <3> QED BY <3>1, <3>2
  <2> QED BY <1>1, <1>3, <2>2, <2>3, <2>4, <2>5 DEF CkInv, FramesInv, CalmInv, TryInv, FailedInv, BackstopInv
<1> QED BY <1>4, <1>5

\* While the backstop waits it copies what the readers allow.
LEMMA CopyingKeeps ==
  ASSUME CkInv, BackstopCopies
  PROVE  CkInv'
<1>1. /\ ckLoop.pc = "backstop" /\ ckBack' = Copied
      /\ UNCHANGED <<ckNow, ckDue, ckTick, ckFailed, ckWal, ckWrote, ckSnap, ckLoop, ckSlack>>
  BY DEF BackstopCopies, CopyOnly
<1>2. CkTypes'
  BY <1>1 DEF CkInv, CkTypes
<1>3. SnapInv'
  BY <1>1, SnapsKeep DEF CkInv
<1>4. ASSUME ckNow > WaitStart + SnapshotMax PROVE Copied = ckWal
  <2>1. ckNow \in Nat /\ ckWal \in Nat /\ WaitStart \in Int /\ SnapshotMax \in Nat
    BY CkConstants DEF CkInv, CkTypes, WaitStart
  <2>2. \A r \in Reading : ckSnap[r].since \in Int /\ ckNow <= ckSnap[r].since + SnapshotMax
    BY DEF CkInv, SnapInv, Reading
  <2>3. \A r \in Reading : ckSnap[r].since > WaitStart
    BY <1>4, <2>1, <2>2
  <2>4. \A r \in Reading : ckSnap[r].mark = ckWal
    BY <1>1, <2>3 DEF CkInv, BackstopInv
  <2> QED BY <2>1, <2>4, CopiesAll
<1>5. Reading' = Reading /\ WaitStart' = WaitStart
  BY <1>1 DEF Reading, WaitStart
<1>6. BackstopInv'
  BY <1>1, <1>4, <1>5 DEF CkInv, BackstopInv
<1> QED BY <1>1, <1>2, <1>3, <1>6 DEF CkInv, FramesInv, CalmInv, TryInv, FailedInv

\* The backstop is never given up.
LEMMA WaitSucceeds ==
  ASSUME CkInv, CkTimely, BackstopBlocked
  PROVE  FALSE
<1>1. ckNow \in Nat /\ ckLoop.giveUp \in Nat /\ ckNow >= ckLoop.giveUp
  BY DEF BackstopBlocked, CkInv, CkTypes
<1>2. ckNow <= ckLoop.giveUp - BackstopWait + 2 * SnapshotMax
  BY DEF BackstopBlocked, CkInv, BackstopInv, WaitStart
<1>3. 2 * SnapshotMax < BackstopWait /\ SnapshotMax \in Nat /\ BackstopWait \in Nat
  BY CkConstants DEF CkTimely
<1> QED BY <1>1, <1>2, <1>3

\* A new process counts from nothing; what was there is excused.
LEMMA RestartKeeps ==
  ASSUME CkInv, StopAndStart \/ WriterCrash
  PROVE  CkInv'
<1>1. /\ ckDue' = ckNow + CkInterval /\ ckTick' = 0 /\ ckFailed' = 0 /\ ckLoop' = Asleep
      /\ ckSlack' = ckSlack + BackstopAfter * Period + TickBudget
      /\ UNCHANGED <<ckNow, ckWrote>>
  BY DEF StopAndStart, WriterCrash, Restarted
<1>2. /\ UNCHANGED ckSnap \/ Cut
      /\ ckWal' = ckWal \/ ckWal' = 0
  BY DEF StopAndStart, WriterCrash, CopyOnly, Cut
<1>3. ckNow \in Nat /\ ckWal \in Nat /\ ckSlack \in Nat /\ ckWrote \in BOOLEAN
  BY DEF CkInv, CkTypes
<1>4. SnapInv'
  BY <1>1, <1>2, SnapsKeep
<1>5. PICK q, p, m, b, i, l \in Nat : /\ q = BackstopAfter * Period /\ p = Period /\ m = WalLimit /\ b = TickBudget
                                      /\ i = CkInterval /\ l = UntilBackstop(0)
  BY WalLimitFacts, CkConstants, LaterFacts
<1>6. CkTypes'
  <2>1. ckLoop' \in [pc : {"idle", "vacuum", "truncate", "pause", "failed", "backstop"}, until : Nat, giveUp : Nat]
    BY <1>1 DEF Asleep
  <2>2. ckNow + i \in Nat /\ ckSlack + q + b \in Nat
    BY <1>3
  <2>3. ckWal' \in Nat
    BY <1>2, <1>3
  <2>4. ckDue' <= ckNow' + CkInterval /\ ckDue' \in Nat
    BY <1>1, <1>5, <2>2
  <2>5. ckSlack' \in Nat
    BY <1>1, <1>5, <2>2
  <2> QED BY <1>1, <1>3, <2>1, <2>3, <2>4, <2>5 DEF CkTypes
<1>7. PICK r \in Nat : r = UntilTruncate(0) /\ r + i = p
  BY <1>5, RestFacts
<1>8. PICK u \in {0, 1} : u = Unwritten'
  BY DEF Unwritten
<1>9. Coming' = r + i + u
  <2>1. AtLeastZero(ckDue' - ckNow') = i
    BY <1>1, <1>3, <1>5 DEF AtLeastZero
  <2> QED BY <1>1, <1>7, <1>8, <2>1 DEF Coming
<1>10. PICK w \in Nat : w = ckWal' /\ w <= m + ckSlack + b
  <2>1. ckWal <= m + ckSlack + b
    BY <1>5, CkInvBounds
  <2>2. ckWal' \in Nat /\ ckWal' <= ckWal
    BY <1>2, <1>3
  <2> QED BY <1>3, <2>1, <2>2
<1>11. l + p = q
  BY <1>5, LaterFacts
<1>12. w + (r + i + u) + l <= m + (ckSlack + q + b) + 1
  <2>1. w <= m + ckSlack + b
    BY <1>10
  <2>2. r + i = p
    BY <1>7
  <2> QED BY <1>3, <1>11, <2>1, <2>2
<1>13. ckLoop'.pc = "idle"
  BY <1>1 DEF Asleep
<1> QED BY <1>1, <1>4, <1>5, <1>6, <1>9, <1>10, <1>12, <1>13 DEF CkInv, FramesInv, CalmInv, TryInv, FailedInv, BackstopInv

\* Every step of the readers, the workload, the loop and the process.
LEMMA CkInvStep == CkInv /\ CkTimely /\ [CkNext]_ckVars => CkInv'
<1>1. SUFFICES ASSUME CkInv, CkTimely, [CkNext]_ckVars PROVE CkInv'
  OBVIOUS
<1>2. ASSUME NEW r \in CkReaders, ReadBegins(r) \/ ReadMeetsRecovery(r) \/ ReadEnds(r) PROVE CkInv'
  BY <1>1, <1>2, ReadersKeep
<1>3. CASE Commit
  BY <1>1, <1>3, CommitKeeps
<1>4. CASE CkTickTime
  BY <1>1, <1>4, TimeKeeps
<1>5. CASE TickPassive
  BY <1>1, <1>5, PassiveKeeps
<1>6. CASE TickTruncate
  BY <1>1, <1>6, TruncatingKeeps
<1>7. CASE TruncateWorks \/ BackstopWorks
  BY <1>1, <1>7, CutKeeps
<1>8. CASE TruncateBlocked
  BY <1>1, <1>8, BlockedKeeps
<1>9. CASE TruncateAgain
  BY <1>1, <1>9, AgainKeeps
<1>10. CASE AttemptFails
  BY <1>1, <1>10, ErrorKeeps
<1>11. CASE TickFailed
  BY <1>1, <1>11, FailedKeeps
<1>12. CASE BackstopCopies
  BY <1>1, <1>12, CopyingKeeps
<1>13. CASE BackstopBlocked
  BY <1>1, <1>13, WaitSucceeds
<1>14. ASSUME NEW frames \in {0, 1}, Vacuum(frames) PROVE CkInv'
  BY <1>1, <1>14, VacuumKeeps
<1>15. CASE StopAndStart \/ WriterCrash
  BY <1>1, <1>15, RestartKeeps
<1>16. CASE UNCHANGED ckVars
  BY <1>1, <1>16 DEF ckVars, CkInv, CkTypes, SnapInv, FramesInv, CalmInv, TryInv, FailedInv, BackstopInv, Reading, Coming,
     Unwritten, TickEnds, WaitStart
<1> QED
  BY <1>1, <1>2, <1>3, <1>4, <1>5, <1>6, <1>7, <1>8, <1>9, <1>10, <1>11, <1>12, <1>13, <1>14, <1>15, <1>16 DEF CkNext

\* However the readers' snapshots overlap, and whatever errors and restarts
\* come between, the WAL stays bounded (RunPeriodicCheckpoint, checkpointTick,
\* backstop).
THEOREM WalStaysBounded == CkSpec => []WalBounded
<1>1. CkInit => (CkTimely => CkInv)
  BY CkInvInit
<1>2. (CkTimely => CkInv) /\ [CkNext]_ckVars => (CkTimely => CkInv)'
  BY CkInvStep
<1>3. (CkTimely => CkInv) => WalBounded
  <2>1. SUFFICES ASSUME CkTimely => CkInv, CkTimely
                 PROVE  ckWal <= WalLimit + TickBudget + ckSlack
    BY DEF WalBounded, CkTimely, WalLimit
  <2>2. ckWal \in Nat /\ ckSlack \in Nat
    BY <2>1 DEF CkInv, CkTypes
  <2>3. ckWal <= WalLimit + ckSlack + TickBudget
    BY <2>1, CkInvBounds
  <2> QED BY <2>2, <2>3, WalLimitFacts, CkConstants
<1> QED BY <1>1, <1>2, <1>3, PTL DEF CkSpec
=============================================================================
